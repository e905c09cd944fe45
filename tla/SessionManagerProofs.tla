------------------------ MODULE SessionManagerProofs ------------------------
(***************************************************************************)
(* Proofs about the Session Manager, for any number of processes, socket   *)
(* slots and commands: its types, what the lease promises, and that one    *)
(* process, and then one worker, has the socket of the line.               *)
(***************************************************************************)
EXTENDS SessionManager, TLAPS

(***************************************************************************)
(* Types.  TypeOK alone is not inductive: clearReconnectTimer takes a timer*)
(* off armed, so a tracked timer has to be among those armed, and a crash  *)
(* puts the jobs in flight back into the queue, so what they serve has to  *)
(* be a command.                                                           *)
(***************************************************************************)
Sound(m) ==
  /\ m.tracked => m.armed > 0
  /\ \A t \in m.tasks : t.n # 0 => t.why \in Ops
  /\ \A a \in AttemptId : m.conn[a].wait \subseteq {0} \/ "connect" \in Ops

SoundMemory == {m \in Memory : Sound(m)}

TypeInv == TypeOK /\ mem \in [Worker -> SoundMemory]

\* A queue of requests that a job of the process may wait for.
Waiters == {n \in 0..MaxCmd : n # 0 => "connect" \in Ops}

LEMMA BlankSound ==
  ASSUME NEW p \in Proc
  PROVE  Blank(p) \in SoundMemory
  BY SlotAssumption, BoundAssumption
     DEF Blank, SoundMemory, Sound, Memory, Socket, Conn, ConnPc, Task, Target, Idle, Unused

LEMMA BeginSound ==
  ASSUME NEW m \in SoundMemory, NEW ns \in SUBSET Waiters, Attempts(m) # AttemptId
  PROVE  Begin(m, ns) \in SoundMemory
  <1> DEFINE r == [pc |-> "read", out |-> FALSE, me |-> FALSE, wait |-> ns]
             c == [m.conn EXCEPT ![Slot(m)] = r]
  <1>1. Slot(m) \in AttemptId
    <2>1. \E x \in AttemptId : x \notin Attempts(m)
      <3>1. Attempts(m) \subseteq AttemptId
        BY DEF Attempts
      <3> QED
        BY <3>1
    <2> QED
      BY <2>1, Zenon DEF Slot
  <1>2. Begin(m, ns) = [m EXCEPT !.conn = c, !.manualStop = FALSE]
    BY DEF Begin
  <1>3. r \in Conn /\ (ns \subseteq {0} \/ "connect" \in Ops)
    BY DEF Conn, ConnPc, Waiters
  <1>4. m \in Memory /\ Sound(m) /\ m.conn \in [AttemptId -> Conn]
    BY DEF SoundMemory, Memory
  <1>5. /\ c \in [AttemptId -> Conn]
        /\ \A b \in AttemptId : c[b].wait \subseteq {0} \/ "connect" \in Ops
    BY <1>1, <1>3, <1>4 DEF Sound
  <1> HIDE DEF c
  <1> QED
    BY <1>2, <1>4, <1>5 DEF SoundMemory, Sound, Memory

LEMMA ConnectSound ==
  ASSUME NEW m \in SoundMemory, NEW ns \in SUBSET Waiters
  PROVE  Connect(m, ns) \in SoundMemory
  <1>1. CASE m.sock # None
    BY <1>1 DEF Connect
  <1>2. CASE m.sock = None /\ Attempts(m) = {}
    BY <1>2, SlotAssumption, BeginSound DEF Connect
  <1>3. CASE m.sock = None /\ Attempts(m) # {}
    <2> DEFINE c == [a \in AttemptId |->
          IF a \in Attempts(m) THEN [m.conn[a] EXCEPT !.wait = @ \cup ns] ELSE m.conn[a]]
    <2>1. m \in Memory /\ Sound(m) /\ m.conn \in [AttemptId -> Conn]
      BY DEF SoundMemory, Memory
    <2>2. c \in [AttemptId -> Conn]
      BY <2>1 DEF Conn, Waiters
    <2>3. ASSUME NEW a \in AttemptId
          PROVE  c[a].wait \subseteq {0} \/ "connect" \in Ops
      BY <2>1 DEF Conn, Waiters, Sound
    <2>4. Connect(m, ns) = [m EXCEPT !.conn = c]
      BY <1>3 DEF Connect
    <2> HIDE DEF c
    <2> QED
      BY <2>1, <2>2, <2>3, <2>4 DEF SoundMemory, Sound, Memory
  <1> QED
    BY <1>1, <1>2, <1>3

LEMMA EndSocketSound ==
  ASSUME NEW m \in SoundMemory
  PROVE  EndSocket(m) \in SoundMemory
  <1>1. CASE m.sock = None
    BY <1>1 DEF EndSocket
  <1>2. CASE m.sock # None
    <2> DEFINE k == [m.sk EXCEPT ![m.sock].ph = "ending"]
    <2>1. m \in Memory /\ Sound(m) /\ m.sk \in [SockId -> Socket] /\ m.sock \in SockId
      BY <1>2 DEF SoundMemory, Memory
    <2>2. k \in [SockId -> Socket]
      BY <2>1 DEF Socket
    <2>3. EndSocket(m) = [m EXCEPT !.sk = k, !.sock = None]
      BY <1>2 DEF EndSocket
    <2> HIDE DEF k
    <2> QED
      BY <2>1, <2>2, <2>3 DEF SoundMemory, Sound, Memory
  <1> QED
    BY <1>1, <1>2

LEMMA ClearTimersSound ==
  ASSUME NEW m \in SoundMemory
  PROVE  ClearTimers(m) \in SoundMemory
  <1> DEFINE n == IF m.tracked THEN m.armed - 1 ELSE m.armed
  <1>1. m \in Memory /\ Sound(m) /\ m.armed \in 0..MaxArmed /\ m.tracked \in BOOLEAN
    BY DEF SoundMemory, Memory
  <1>2. n \in 0..MaxArmed
    BY <1>1, BoundAssumption DEF Sound
  <1>3. ClearTimers(m) = [m EXCEPT !.armed = n, !.tracked = FALSE, !.leaseRetry = FALSE]
    BY DEF ClearTimers
  <1> HIDE DEF n
  <1> QED
    BY <1>1, <1>2, <1>3 DEF SoundMemory, Sound, Memory

LEMMA DropSound ==
  ASSUME NEW m \in SoundMemory, NEW t
  PROVE  Drop(m, t) \in SoundMemory
  BY DEF Drop, SoundMemory, Sound, Memory

LEMMA SpawnSound ==
  ASSUME NEW m \in SoundMemory, NEW pc, NEW why, NEW s, NEW n,
         [pc |-> pc, why |-> why, s |-> s, n |-> n] \in Task,
         n # 0 => why \in Ops
  PROVE  Spawn(m, pc, why, s, n) \in SoundMemory
  BY DEF Spawn, SoundMemory, Sound, Memory

LEMMA RescheduleSound ==
  ASSUME NEW m \in SoundMemory, NEW s \in SockId \cup {None}
  PROVE  Reschedule(m, s) \in SoundMemory
  <1>1. [pc |-> "resched", why |-> "lost", s |-> s, n |-> 0] \in Task
    BY BoundAssumption DEF Task, Target
  <1> QED
    BY <1>1, SpawnSound DEF Reschedule

LEMMA GotoSound ==
  ASSUME NEW m \in SoundMemory, NEW t \in m.tasks,
         NEW pc \in {"before", "unlink", "clear", "write", "release", "resched", "backoff"}
  PROVE  Goto(m, t, pc) \in SoundMemory
  <1>1. t \in Task /\ (t.n # 0 => t.why \in Ops)
    BY DEF SoundMemory, Sound, Memory
  <1>2. [pc |-> pc, why |-> t.why, s |-> t.s, n |-> t.n] \in Task
    BY <1>1 DEF Task
  <1> QED
    BY <1>1, <1>2, DropSound, SpawnSound DEF Goto

LEMMA SetConnSound ==
  ASSUME NEW m \in SoundMemory, NEW a \in AttemptId, NEW c \in Conn,
         c.wait \subseteq {0} \/ "connect" \in Ops
  PROVE  [m EXCEPT !.conn[a] = c] \in SoundMemory
  <1> DEFINE f == [m.conn EXCEPT ![a] = c]
  <1>1. m \in Memory /\ Sound(m) /\ m.conn \in [AttemptId -> Conn]
    BY DEF SoundMemory, Memory
  <1>2. /\ f \in [AttemptId -> Conn]
        /\ \A b \in AttemptId : f[b].wait \subseteq {0} \/ "connect" \in Ops
    BY <1>1 DEF Sound
  <1>3. [m EXCEPT !.conn[a] = c] = [m EXCEPT !.conn = f]
    OBVIOUS
  <1> HIDE DEF f
  <1> QED
    BY <1>1, <1>2, <1>3 DEF SoundMemory, Sound, Memory

LEMMA SetSocketSound ==
  ASSUME NEW m \in SoundMemory, NEW s \in SockId, NEW k \in Socket
  PROVE  [m EXCEPT !.sk[s] = k] \in SoundMemory
  <1> DEFINE f == [m.sk EXCEPT ![s] = k]
  <1>1. m \in Memory /\ Sound(m) /\ f \in [SockId -> Socket]
    BY DEF SoundMemory, Memory
  <1>2. [m EXCEPT !.sk[s] = k] = [m EXCEPT !.sk = f]
    OBVIOUS
  <1> HIDE DEF f
  <1> QED
    BY <1>1, <1>2 DEF SoundMemory, Sound, Memory

LEMMA SetRegisteredSound ==
  ASSUME NEW m \in SoundMemory, NEW s \in SockId \cup {None}
  PROVE  [m EXCEPT !.sock = s] \in SoundMemory
  <1> DEFINE n == [m EXCEPT !.sock = s]
  <1>1. m \in Memory /\ Sound(m)
    BY DEF SoundMemory
  <1>2. n \in Memory
    BY <1>1 DEF Memory
  <1>3. n.tracked = m.tracked /\ n.armed = m.armed /\ n.tasks = m.tasks /\ n.conn = m.conn
    BY <1>1 DEF Memory
  <1> HIDE DEF n
  <1>4. n \in SoundMemory
    BY <1>1, <1>2, <1>3 DEF SoundMemory, Sound
  <1> QED
    BY <1>4 DEF n

\* The scalar fields of a process take any value of their type.
LEMMA SetFieldsSound ==
  ASSUME NEW m \in SoundMemory, NEW r \in SockId \cup {None},
         NEW b1 \in BOOLEAN, NEW b2 \in BOOLEAN, NEW b3 \in BOOLEAN, NEW b4 \in BOOLEAN,
         NEW q \in 0..(MaxQrCycles - 1), NEW p \in Proc
  PROVE  [m EXCEPT !.sock = r, !.leaseRetry = b1, !.leaseTimer = b2, !.leaseLost = b3,
                   !.manualStop = b4, !.cycles = q, !.proc = p] \in SoundMemory
  <1> DEFINE x == [m EXCEPT !.sock = r, !.leaseRetry = b1, !.leaseTimer = b2, !.leaseLost = b3,
                            !.manualStop = b4, !.cycles = q, !.proc = p]
  <1>1. m \in Memory /\ Sound(m)
    BY DEF SoundMemory
  <1>2. x \in Memory
    BY <1>1 DEF Memory
  <1>3. x.tracked = m.tracked /\ x.armed = m.armed /\ x.tasks = m.tasks /\ x.conn = m.conn
    BY <1>1 DEF Memory
  <1> HIDE DEF x
  <1>4. Sound(x)
    BY <1>1, <1>3 DEF Sound
  <1>5. x \in SoundMemory
    BY <1>2, <1>4 DEF SoundMemory
  <1> QED
    BY <1>5 DEF x

LEMMA Put ==
  ASSUME NEW f \in [Worker -> SoundMemory], NEW w \in Worker, NEW m \in SoundMemory
  PROVE  /\ [f EXCEPT ![w] = m] \in [Worker -> SoundMemory]
         /\ [f EXCEPT ![w] = m] \in [Worker -> Memory]
  BY DEF SoundMemory

LEMMA TypeInit == Init => TypeInv
  <1> SUFFICES ASSUME Init PROVE TypeInv
    OBVIOUS
  <1>1. mem \in [Worker -> SoundMemory]
    BY BlankSound DEF Init, Proc
  <1>2. mem \in [Worker -> Memory]
    BY <1>1 DEF SoundMemory
  <1>3. db \in [status: Status, auto: BOOLEAN, linked: BOOLEAN]
    BY DEF Init, Status
  <1>4. used \in [crash: 0..MaxCrash, stall: 0..MaxStall, fail: 0..MaxFail, cmd: 0..MaxCmd, lost: BOOLEAN]
    BY BoundAssumption DEF Init
  <1> QED
    BY <1>1, <1>2, <1>3, <1>4 DEF Init, TypeInv, TypeOK

LEMMA ConnectingType ==
  ASSUME TypeInv, NEW w \in Worker, NEW a \in AttemptId,
         ReadInstance(w, a) \/ GetLease(w, a) \/ SetLease(w, a) \/ AnswerLease(w, a)
           \/ LoadCreds(w, a) \/ SetConnecting(w, a) \/ Dial(w, a)
  PROVE  TypeInv'
  <1> DEFINE m == mem[w]
             c == m.conn[a]
  <1>1. /\ m \in SoundMemory /\ m \in Memory /\ c \in Conn
        /\ c.wait \subseteq {0} \/ "connect" \in Ops
    BY DEF TypeInv, SoundMemory, Sound, Memory
  <1>2. Idle \in Conn /\ Idle.wait \subseteq {0}
    BY BoundAssumption DEF Conn, ConnPc, Idle
  <1>3. ASSUME NEW pc \in ConnPc, NEW b \in BOOLEAN, NEW e \in BOOLEAN
        PROVE  /\ [c EXCEPT !.pc = pc, !.out = b, !.me = e] \in Conn
               /\ [c EXCEPT !.pc = pc, !.out = b, !.me = e].wait = c.wait
    BY <1>1 DEF Conn
  <1>4. LeaseBusy(m, a) \in SoundMemory
    <2>1. [m EXCEPT !.conn[a] = Idle] \in SoundMemory
      BY <1>1, <1>2, SetConnSound
    <2> QED
      BY <2>1 DEF LeaseBusy, SoundMemory, Sound, Memory
  <1>5. LeaseHeld(m, a) \in SoundMemory
    <2>1. [m EXCEPT !.conn[a] = [c EXCEPT !.pc = "creds"]] \in SoundMemory
      <3>1. [c EXCEPT !.pc = "creds"] \in Conn /\ [c EXCEPT !.pc = "creds"].wait = c.wait
        BY <1>1 DEF Conn, ConnPc
      <3> QED
        BY <1>1, <3>1, SetConnSound
    <2> QED
      BY <2>1 DEF LeaseHeld, SoundMemory, Sound, Memory
  <1>6. CASE ReadInstance(w, a)
    <2> DEFINE d == IF db.auto THEN [c EXCEPT !.pc = "lease", !.out = (db.status = "LOGGED_OUT")]
                    ELSE Idle
    <2>1. d \in Conn /\ (d.wait \subseteq {0} \/ "connect" \in Ops)
      BY <1>1, <1>2 DEF Conn, ConnPc
    <2>2. mem' = [mem EXCEPT ![w] = [m EXCEPT !.conn[a] = d]]
      BY <1>6 DEF ReadInstance
    <2>3. mem' \in [Worker -> SoundMemory] /\ mem' \in [Worker -> Memory]
      BY <1>1, <2>1, <2>2, SetConnSound, Put DEF TypeInv
    <2> QED
      BY <1>6, <2>3 DEF ReadInstance, TypeInv, TypeOK
  <1>p. ASSUME NEW pc \in ConnPc
        PROVE  [m EXCEPT !.conn[a].pc = pc] \in SoundMemory
    <2>1. [c EXCEPT !.pc = pc] \in Conn /\ [c EXCEPT !.pc = pc].wait = c.wait
      BY <1>1 DEF Conn
    <2> QED
      BY <1>1, <2>1, SetConnSound
  <1>7. CASE GetLease(w, a)
    <2>0. Found(w) \in ConnPc
      BY DEF Found, ConnPc
    <2>1. PICK pc \in ConnPc : mem' = [mem EXCEPT ![w].conn[a].pc = pc]
      BY <1>7, <2>0 DEF GetLease
    <2>2. mem' = [mem EXCEPT ![w] = [m EXCEPT !.conn[a].pc = pc]]
      BY <2>1
    <2>3. redis' \in [owner: Worker \cup {None}, fresh: BOOLEAN]
      BY <1>7 DEF GetLease, Tending, Renewing, TypeInv, TypeOK
    <2>4. mem' \in [Worker -> SoundMemory] /\ mem' \in [Worker -> Memory]
      BY <1>p, <2>2, Put DEF TypeInv
    <2> QED
      BY <1>7, <2>3, <2>4 DEF GetLease, TypeInv, TypeOK
  <1>8. CASE SetLease(w, a)
    <2>1. PICK pc \in ConnPc : mem' = [mem EXCEPT ![w].conn[a].pc = pc]
      BY <1>8 DEF SetLease, ConnPc
    <2>2. mem' = [mem EXCEPT ![w] = [m EXCEPT !.conn[a].pc = pc]]
      BY <2>1
    <2>3. redis' \in [owner: Worker \cup {None}, fresh: BOOLEAN]
      BY <1>8 DEF SetLease, TypeInv, TypeOK
    <2>4. mem' \in [Worker -> SoundMemory] /\ mem' \in [Worker -> Memory]
      BY <1>p, <2>2, Put DEF TypeInv
    <2> QED
      BY <1>8, <2>3, <2>4 DEF SetLease, TypeInv, TypeOK
  <1>a. CASE AnswerLease(w, a)
    <2>1. \E n \in SoundMemory : mem' = [mem EXCEPT ![w] = n]
      BY <1>4, <1>5, <1>a DEF AnswerLease
    <2> QED
      BY <1>a, <2>1, Put DEF AnswerLease, TypeInv, TypeOK
  <1>9. CASE LoadCreds(w, a)
    <2> DEFINE me == db.linked /\ ~c.out
               d == [c EXCEPT !.pc = "state", !.me = me]
    <2>1. d \in Conn /\ d.wait = c.wait /\ me \in BOOLEAN
      BY <1>1 DEF Conn, ConnPc, TypeInv, TypeOK
    <2>2. mem' = [mem EXCEPT ![w] = [m EXCEPT !.conn[a] = d]]
      BY <1>9 DEF LoadCreds
    <2>3. mem' \in [Worker -> SoundMemory] /\ mem' \in [Worker -> Memory]
      BY <1>1, <2>1, <2>2, SetConnSound, Put DEF TypeInv
    <2>4. db' = [db EXCEPT !.linked = me]
      BY <1>9 DEF LoadCreds
    <2> QED
      BY <1>9, <2>1, <2>3, <2>4 DEF LoadCreds, TypeInv, TypeOK
  <1>10. CASE SetConnecting(w, a)
    <2>1. [c EXCEPT !.pc = "dial"] \in Conn /\ [c EXCEPT !.pc = "dial"].wait = c.wait
      BY <1>1 DEF Conn, ConnPc
    <2>2. mem' = [mem EXCEPT ![w] = [m EXCEPT !.conn[a] = [c EXCEPT !.pc = "dial"]]]
      BY <1>10 DEF SetConnecting
    <2>3. "CONNECTING" \in Status
      BY DEF Status
    <2>4. mem' \in [Worker -> SoundMemory] /\ mem' \in [Worker -> Memory]
      BY <1>1, <2>1, <2>2, SetConnSound, Put DEF TypeInv
    <2> QED
      BY <1>10, <2>3, <2>4 DEF SetConnecting, TypeInv, TypeOK
  <1>11. CASE Dial(w, a)
    <2>1. PICK s \in SockId :
            mem' = [mem EXCEPT ![w].sk[s] = [ph |-> "dial", me |-> c.me],
                               ![w].sock = s, ![w].conn[a] = Idle]
      BY <1>11 DEF Dial
    <2>2. [ph |-> "dial", me |-> c.me] \in Socket
      BY <1>1 DEF Socket, Conn
    <2> DEFINE m1 == [m EXCEPT !.sk[s] = [ph |-> "dial", me |-> c.me]]
               m2 == [m1 EXCEPT !.conn[a] = Idle]
    <2>3. m1 \in SoundMemory
      BY <1>1, <2>2, SetSocketSound
    <2>4. m2 \in SoundMemory
      BY <1>2, <2>3, SetConnSound
    <2>5. mem' = [mem EXCEPT ![w] = [m2 EXCEPT !.sock = s]]
      BY ZenonT(60), <1>1, <2>1 DEF TypeInv, TypeOK, Memory
    <2> HIDE DEF m1, m2
    <2>6. [m2 EXCEPT !.sock = s] \in SoundMemory
      BY <2>4, SetRegisteredSound
    <2> QED
      BY <1>11, <2>5, <2>6, Put DEF Dial, TypeInv, TypeOK
  <1> QED
    BY <1>6, <1>7, <1>8, <1>9, <1>10, <1>11, <1>a

LEMMA ConnectFailsType ==
  ASSUME TypeInv, NEW w \in Worker, NEW a \in AttemptId, ConnectFails(w, a)
  PROVE  TypeInv'
  <1> DEFINE idle == [mem[w] EXCEPT !.conn[a] = Idle]
  <1>1. idle \in SoundMemory
    <2>1. Idle \in Conn /\ Idle.wait \subseteq {0}
      BY BoundAssumption DEF Conn, ConnPc, Idle
    <2> QED
      BY <2>1, SetConnSound DEF TypeInv
  <1>2. Reschedule(idle, None) \in SoundMemory
    BY <1>1, RescheduleSound
  <1> HIDE DEF idle
  <1>3. \E n \in SoundMemory : mem' = [mem EXCEPT ![w] = n]
    BY <1>1, <1>2 DEF ConnectFails, idle
  <1>4. mem' \in [Worker -> SoundMemory] /\ mem' \in [Worker -> Memory]
    BY <1>3, Put DEF TypeInv
  <1>5. used' \in [crash: 0..MaxCrash, stall: 0..MaxStall, fail: 0..MaxFail, cmd: 0..MaxCmd, lost: BOOLEAN]
    BY BoundAssumption DEF ConnectFails, TypeInv, TypeOK
  <1> QED
    BY <1>4, <1>5 DEF ConnectFails, TypeInv, TypeOK

LEMMA TimersType ==
  ASSUME TypeInv, NEW w \in Worker, Timers(w) \/ EnsureConnected(w)
  PROVE  TypeInv'
  <1> DEFINE m == mem[w]
  <1>1. m \in SoundMemory /\ m \in Memory
    BY DEF TypeInv, SoundMemory
  <1>2. {} \in SUBSET Waiters /\ {0} \in SUBSET Waiters
    BY BoundAssumption DEF Waiters
  <1>3. CASE ReconnectFires(w)
    <2> DEFINE k == [mem[w] EXCEPT !.armed = mem[w].armed - 1, !.tracked = FALSE]
    <2>1. m.armed > 0 /\ m.armed \in 0..MaxArmed
      BY <1>1, <1>3 DEF ReconnectFires, Memory
    <2>2. m.armed - 1 \in 0..MaxArmed
      BY <2>1, BoundAssumption
    <2>3. k \in SoundMemory
      BY <1>1, <2>2 DEF SoundMemory, Sound, Memory
    <2>4. mem' = [mem EXCEPT ![w] = Connect(k, {0})]
      BY <1>3 DEF ReconnectFires
    <2> HIDE DEF k
    <2>5. mem' \in [Worker -> SoundMemory] /\ mem' \in [Worker -> Memory]
      BY <1>2, <2>3, <2>4, ConnectSound, Put DEF TypeInv
    <2> QED
      BY <1>3, <2>5 DEF ReconnectFires, TypeInv, TypeOK
  <1>4. CASE LeaseRetryFires(w)
    <2>1. [m EXCEPT !.leaseRetry = FALSE] \in SoundMemory
      BY <1>1 DEF SoundMemory, Sound, Memory
    <2>2. mem' = [mem EXCEPT ![w] = Connect([m EXCEPT !.leaseRetry = FALSE], {})]
      BY <1>4 DEF LeaseRetryFires
    <2>3. mem' \in [Worker -> SoundMemory] /\ mem' \in [Worker -> Memory]
      BY <1>2, <2>1, <2>2, ConnectSound, Put DEF TypeInv
    <2> QED
      BY <1>4, <2>3 DEF LeaseRetryFires, TypeInv, TypeOK
  <1>5. CASE Renew(w)
    BY <1>5 DEF Renew, TypeInv, TypeOK
  <1>6. CASE LeaseLost(w)
    <2>1. [m EXCEPT !.leaseLost = TRUE, !.leaseTimer = FALSE] \in SoundMemory
      BY <1>1 DEF SoundMemory, Sound, Memory
    <2>2. \E n \in SoundMemory : mem' = [mem EXCEPT ![w] = n]
      BY <1>1, <1>6, <2>1, EndSocketSound DEF LeaseLost
    <2>3. mem' \in [Worker -> SoundMemory] /\ mem' \in [Worker -> Memory]
      BY <2>2, Put DEF TypeInv
    <2>4. used' \in [crash: 0..MaxCrash, stall: 0..MaxStall, fail: 0..MaxFail, cmd: 0..MaxCmd, lost: BOOLEAN]
      BY <1>6 DEF LeaseLost, TypeInv, TypeOK
    <2> QED
      BY <1>6, <2>3, <2>4 DEF LeaseLost, TypeInv, TypeOK
  <1>7. CASE EnsureConnected(w)
    <2>1. mem' = [mem EXCEPT ![w] = Connect(m, {})]
      BY <1>7 DEF EnsureConnected
    <2>2. mem' \in [Worker -> SoundMemory] /\ mem' \in [Worker -> Memory]
      BY <1>1, <1>2, <2>1, ConnectSound, Put DEF TypeInv
    <2> QED
      BY <1>7, <2>2 DEF EnsureConnected, TypeInv, TypeOK
  <1> QED
    BY <1>3, <1>4, <1>5, <1>6, <1>7 DEF Timers

LEMMA EventsType ==
  ASSUME TypeInv, NEW w \in Worker, Events(w)
  PROVE  TypeInv'
  <1> DEFINE m == mem[w]
  <1>1. m \in SoundMemory /\ m \in Memory
    BY DEF TypeInv, SoundMemory
  <1>2. PICK s \in SockId : \/ QrEvent(w, s) \/ Scanned(w, s) \/ OpenEvent(w, s)
                            \/ SaveCreds(w, s) \/ CloseEvent(w, s)
    BY DEF Events
  <1>3. m.sk[s] \in Socket
    BY <1>1 DEF Memory
  <1>4. ASSUME NEW ph \in {"qr", "open"}
        PROVE  /\ [m.sk[s] EXCEPT !.ph = ph] \in Socket
               /\ [m EXCEPT !.sk[s].ph = ph] \in SoundMemory
    <2>1. [m.sk[s] EXCEPT !.ph = ph] \in Socket
      BY <1>3 DEF Socket
    <2>2. [m EXCEPT !.sk[s].ph = ph] = [m EXCEPT !.sk[s] = [m.sk[s] EXCEPT !.ph = ph]]
      OBVIOUS
    <2> QED
      BY <1>1, <2>1, <2>2, SetSocketSound
  <1>5. ASSUME NEW why \in DOMAIN Target, NEW pc \in {"write", "before"}
        PROVE  [pc |-> pc, why |-> why, s |-> s, n |-> 0] \in Task
    BY BoundAssumption DEF Task
  <1>6. CASE QrEvent(w, s)
    <2>1. mem' = [mem EXCEPT ![w] = Spawn([m EXCEPT !.sk[s].ph = "qr"], "write", "qr", s, 0)]
      BY <1>6 DEF QrEvent
    <2>2. "qr" \in DOMAIN Target
      BY DEF Target
    <2>3. Spawn([m EXCEPT !.sk[s].ph = "qr"], "write", "qr", s, 0) \in SoundMemory
      BY <1>4, <1>5, <2>2, SpawnSound
    <2>4. mem' \in [Worker -> SoundMemory] /\ mem' \in [Worker -> Memory]
      BY <2>1, <2>3, Put DEF TypeInv
    <2> QED
      BY <1>6, <2>4 DEF QrEvent, TypeInv, TypeOK
  <1>7. CASE Scanned(w, s)
    <2>1. [m.sk[s] EXCEPT !.me = TRUE] \in Socket
      BY <1>3 DEF Socket
    <2>2. mem' = [mem EXCEPT ![w] = [m EXCEPT !.sk[s] = [m.sk[s] EXCEPT !.me = TRUE]]]
      BY <1>7 DEF Scanned
    <2>3. mem' \in [Worker -> SoundMemory] /\ mem' \in [Worker -> Memory]
      BY <1>1, <2>1, <2>2, SetSocketSound, Put DEF TypeInv
    <2> QED
      BY <1>7, <2>3 DEF Scanned, TypeInv, TypeOK
  <1>8. CASE OpenEvent(w, s)
    <2>1. mem' = [mem EXCEPT ![w] = Spawn([m EXCEPT !.sk[s].ph = "open"], "write", "open", s, 0)]
      BY <1>8 DEF OpenEvent
    <2>2. "open" \in DOMAIN Target
      BY DEF Target
    <2>3. Spawn([m EXCEPT !.sk[s].ph = "open"], "write", "open", s, 0) \in SoundMemory
      BY <1>4, <1>5, <2>2, SpawnSound
    <2>4. mem' \in [Worker -> SoundMemory] /\ mem' \in [Worker -> Memory]
      BY <2>1, <2>3, Put DEF TypeInv
    <2> QED
      BY <1>8, <2>4 DEF OpenEvent, TypeInv, TypeOK
  <1>9. CASE SaveCreds(w, s)
    BY <1>9 DEF SaveCreds, TypeInv, TypeOK
  <1>10. CASE CloseEvent(w, s)
    <2> DEFINE k == [m EXCEPT !.sk[s] = Unused, !.sock = None]
    <2>1. CloseCodes(m.sk[s]) \subseteq {"lost", "loggedOut", "replaced"}
      BY BoundAssumption DEF CloseCodes
    <2>2. k \in SoundMemory
      <3>1. [m EXCEPT !.sk[s] = Unused] \in SoundMemory
        BY <1>1, SetSocketSound DEF Unused, Socket
      <3>2. k = [[m EXCEPT !.sk[s] = Unused] EXCEPT !.sock = None]
        BY <1>1 DEF Memory
      <3> QED
        BY <3>1, <3>2 DEF SoundMemory, Sound, Memory
    <2>3. PICK why \in {"manual", "unscanned", "lost", "loggedOut", "replaced"} :
            mem' = [mem EXCEPT ![w] = Spawn(k, "before", why, s, 0)]
      BY <1>10, <2>1 DEF CloseEvent
    <2>4. {"manual", "unscanned", "lost", "loggedOut", "replaced"} \subseteq DOMAIN Target
      BY DEF Target
    <2> HIDE DEF k
    <2>5. mem' \in [Worker -> SoundMemory] /\ mem' \in [Worker -> Memory]
      <3>1. Spawn(k, "before", why, s, 0) \in SoundMemory
        BY <1>5, <2>2, <2>4, SpawnSound
      <3> QED
        BY <2>3, <3>1, Put DEF TypeInv
    <2> QED
      BY <1>10, <2>5 DEF CloseEvent, TypeInv, TypeOK
  <1> QED
    BY <1>2, <1>6, <1>7, <1>8, <1>9, <1>10
LEMMA TargetType == Target \in [DOMAIN Target -> Status]
  BY DEF Target, Status

LEMMA StepType ==
  ASSUME TypeInv, NEW w \in Worker, NEW t \in mem[w].tasks, Step(w, t) \/ CommandFails(w, t)
  PROVE  TypeInv'
  <1> DEFINE m == mem[w]
  <1>1. m \in SoundMemory /\ m \in Memory
    BY DEF TypeInv, SoundMemory
  <1>2. t \in Task /\ (t.n # 0 => t.why \in Ops)
    BY <1>1 DEF SoundMemory, Sound, Memory
  <1>3. Drop(m, t) \in SoundMemory
    BY <1>1, DropSound
  <1>4. ASSUME NEW pc \in {"clear", "write", "release", "backoff"}
        PROVE  Goto(m, t, pc) \in SoundMemory
    BY <1>1, GotoSound
  <1>5. t.s \in SockId \cup {None} /\ t.why \in DOMAIN Target /\ t.n \in 0..MaxCmd
    BY <1>2 DEF Task
  <1>6. CASE Before(w, t)
    <2>1. [Drop(m, t) EXCEPT !.leaseLost = FALSE] \in SoundMemory
      BY <1>3 DEF SoundMemory, Sound, Memory
    <2>2. [Goto(m, t, "write") EXCEPT !.cycles = 0] \in SoundMemory
      <3>1. 0 \in 0..(MaxQrCycles - 1)
        BY BoundAssumption
      <3> QED
        BY <1>4, <3>1 DEF SoundMemory, Sound, Memory
    <2>3. ASSUME ~LastCycle(m)
          PROVE  Reschedule([Drop(m, t) EXCEPT !.cycles = @ + 1], t.s) \in SoundMemory
      <3>1. Drop(m, t).cycles = m.cycles /\ m.cycles \in 0..(MaxQrCycles - 1)
        BY <1>1 DEF Drop, Memory
      <3>2. Drop(m, t).cycles + 1 \in 0..(MaxQrCycles - 1)
        BY <2>3, <3>1, BoundAssumption DEF LastCycle
      <3>3. [Drop(m, t) EXCEPT !.cycles = @ + 1] \in SoundMemory
        BY <1>3, <3>2 DEF SoundMemory, Sound, Memory
      <3> QED
        BY <1>5, <3>3, RescheduleSound
    <2>4. Reschedule(Drop(m, t), t.s) \in SoundMemory
      BY <1>3, <1>5, RescheduleSound
    <2>5. \E n \in SoundMemory : mem' = [mem EXCEPT ![w] = n]
      BY <1>4, <1>6, <2>1, <2>2, <2>3, <2>4 DEF Before
    <2>6. mem' \in [Worker -> SoundMemory] /\ mem' \in [Worker -> Memory]
      BY <2>5, Put DEF TypeInv
    <2> QED
      BY <1>6, <2>6 DEF Before, TypeInv, TypeOK
  <1>7. CASE Unlink(w, t)
    <2> DEFINE g == Goto(m, t, "clear")
    <2>1. ASSUME Live(g, t.s)
          PROVE  [g EXCEPT !.sk[t.s].ph = "unlinking"] \in SoundMemory
      <3>1. CASE t.s \in SockId
        <4>1. g.sk[t.s] \in Socket /\ g \in SoundMemory
          BY <1>4, <3>1 DEF SoundMemory, Memory
        <4>2. [g.sk[t.s] EXCEPT !.ph = "unlinking"] \in Socket
          BY <4>1 DEF Socket
        <4>3. [g EXCEPT !.sk[t.s].ph = "unlinking"]
                = [g EXCEPT !.sk[t.s] = [g.sk[t.s] EXCEPT !.ph = "unlinking"]]
          OBVIOUS
        <4> QED
          BY <3>1, <4>1, <4>2, <4>3, SetSocketSound
      <3>2. CASE t.s \notin SockId
        <4>1. g \in SoundMemory /\ g.sk \in [SockId -> Socket]
          BY <1>4 DEF SoundMemory, Memory
        <4>2. [g EXCEPT !.sk[t.s].ph = "unlinking"] = [g EXCEPT !.sk = [g.sk EXCEPT ![t.s].ph = "unlinking"]]
          OBVIOUS
        <4>3. [g.sk EXCEPT ![t.s].ph = "unlinking"] \in [SockId -> Socket]
          BY <3>2, <4>1
        <4> QED
          BY <4>1, <4>2, <4>3 DEF SoundMemory, Sound, Memory
      <3> QED
        BY <3>1, <3>2
    <2>2. \E n \in SoundMemory : mem' = [mem EXCEPT ![w] = n]
      BY <1>4, <1>7, <2>1 DEF Unlink
    <2>3. mem' \in [Worker -> SoundMemory] /\ mem' \in [Worker -> Memory]
      BY <2>2, Put DEF TypeInv
    <2> QED
      BY <1>7, <2>3 DEF Unlink, TypeInv, TypeOK
  <1>8. CASE ClearCreds(w, t)
    <2>1. mem' \in [Worker -> SoundMemory] /\ mem' \in [Worker -> Memory]
      BY <1>4, <1>8, Put DEF ClearCreds, TypeInv
    <2> QED
      BY <1>8, <2>1 DEF ClearCreds, TypeInv, TypeOK
  <1>9. CASE Write(w, t)
    <2>1. [Drop(m, t) EXCEPT !.cycles = 0] \in SoundMemory
      <3>1. 0 \in 0..(MaxQrCycles - 1)
        BY BoundAssumption
      <3> QED
        BY <1>3, <3>1 DEF SoundMemory, Sound, Memory
    <2>2. \E n \in SoundMemory : mem' = [mem EXCEPT ![w] = n]
      BY <1>3, <1>4, <1>9, <2>1 DEF Write
    <2>3. mem' \in [Worker -> SoundMemory] /\ mem' \in [Worker -> Memory]
      BY <2>2, Put DEF TypeInv
    <2>4. Target[t.why] \in Status
      BY <1>5, TargetType
    <2>5. paused' \in BOOLEAN
      BY <1>9 DEF Write
    <2> QED
      BY <1>9, <2>3, <2>4, <2>5 DEF Write, TypeInv, TypeOK
  <1>10. CASE Release(w, t)
    <2>1. [Drop(m, t) EXCEPT !.leaseTimer = FALSE] \in SoundMemory
      BY <1>3 DEF SoundMemory, Sound, Memory
    <2>2. Connect([Drop(m, t) EXCEPT !.leaseTimer = FALSE], {}) \in SoundMemory
      BY <2>1, ConnectSound
    <2>3. \E n \in SoundMemory : mem' = [mem EXCEPT ![w] = n]
      BY <1>10, <2>1, <2>2 DEF Release
    <2>4. mem' \in [Worker -> SoundMemory] /\ mem' \in [Worker -> Memory]
      BY <2>3, Put DEF TypeInv
    <2>5. Freed(w) \in [owner: Worker \cup {None}, fresh: BOOLEAN]
      BY DEF Freed, TypeInv, TypeOK
    <2> QED
      BY <1>10, <2>4, <2>5 DEF Release, TypeInv, TypeOK
  <1>11. CASE ReadAuto(w, t)
    <2>1. [pc |-> "write", why |-> "off", s |-> t.s, n |-> 0] \in Task
      BY <1>5, BoundAssumption DEF Task, Target
    <2>2. Spawn(Drop(m, t), "write", "off", t.s, 0) \in SoundMemory
      BY <1>3, <2>1, SpawnSound
    <2>3. \E n \in SoundMemory : mem' = [mem EXCEPT ![w] = n]
      BY <1>4, <1>11, <2>2 DEF ReadAuto
    <2>4. mem' \in [Worker -> SoundMemory] /\ mem' \in [Worker -> Memory]
      BY <2>3, Put DEF TypeInv
    <2> QED
      BY <1>11, <2>4 DEF ReadAuto, TypeInv, TypeOK
  <1>12. CASE Backoff(w, t)
    <2>1. Drop(m, t).armed = m.armed /\ m.armed \in 0..MaxArmed /\ m.armed < MaxArmed
      BY <1>1, <1>12 DEF Drop, Memory, Backoff
    <2>2. Drop(m, t).armed + 1 \in 0..MaxArmed /\ Drop(m, t).armed + 1 > 0
      BY <2>1, BoundAssumption
    <2>3. [Drop(m, t) EXCEPT !.armed = @ + 1, !.tracked = TRUE] \in SoundMemory
      BY <1>3, <2>2 DEF SoundMemory, Sound, Memory
    <2>4. mem' \in [Worker -> SoundMemory] /\ mem' \in [Worker -> Memory]
      BY <1>12, <2>3, Put DEF Backoff, TypeInv
    <2>5. "RECONNECTING" \in Status
      BY DEF Status
    <2> QED
      BY <1>12, <2>4, <2>5 DEF Backoff, TypeInv, TypeOK
  <1>13. CASE CommandFails(w, t)
    <2>1. mem' \in [Worker -> SoundMemory] /\ mem' \in [Worker -> Memory]
      BY <1>3, <1>13, Put DEF CommandFails, TypeInv
    <2>2. used' \in [crash: 0..MaxCrash, stall: 0..MaxStall, fail: 0..MaxFail, cmd: 0..MaxCmd, lost: BOOLEAN]
      BY <1>13, BoundAssumption DEF CommandFails, TypeInv, TypeOK
    <2> QED
      BY <1>13, <2>1, <2>2 DEF CommandFails, TypeInv, TypeOK
  <1> QED
    BY <1>6, <1>7, <1>8, <1>9, <1>10, <1>11, <1>12, <1>13 DEF Step
LEMMA CommandsType ==
  ASSUME TypeInv, NEW w \in Worker, Commands(w)
  PROVE  TypeInv'
  <1> DEFINE m == mem[w]
  <1>1. m \in SoundMemory /\ m \in Memory
    BY DEF TypeInv, SoundMemory
  <1>2. PICK c \in cmds : TakeConnect(w, c) \/ TakeDisconnect(w, c) \/ TakeLogout(w, c)
    BY DEF Commands
  <1>3. c.op \in Ops /\ c.n \in 0..MaxCmd
    BY DEF TypeInv, TypeOK
  <1>4. cmds \ {c} \subseteq [op: Ops, n: 1..MaxCmd]
    BY DEF TypeInv, TypeOK
  <1>5. ClearTimers(m) \in SoundMemory
    BY <1>1, ClearTimersSound
  <1>6. ASSUME NEW k \in SoundMemory
        PROVE  /\ [k EXCEPT !.manualStop = TRUE] \in SoundMemory
               /\ [k EXCEPT !.manualStop = TRUE, !.sock = None] \in SoundMemory
    BY DEF SoundMemory, Sound, Memory
  <1>7. CASE TakeConnect(w, c)
    <2>1. [m EXCEPT !.cycles = 0] \in SoundMemory
      <3>1. 0 \in 0..(MaxQrCycles - 1)
        BY BoundAssumption
      <3> QED
        BY <1>1, <3>1 DEF SoundMemory, Sound, Memory
    <2>2. {c.n} \in SUBSET Waiters
      BY <1>3, <1>7 DEF Waiters, TakeConnect
    <2>3. mem' \in [Worker -> SoundMemory] /\ mem' \in [Worker -> Memory]
      BY <1>7, <2>1, <2>2, ConnectSound, Put DEF TakeConnect, TypeInv
    <2> QED
      BY <1>4, <1>7, <2>3 DEF TakeConnect, TypeInv, TypeOK
  <1>8. CASE TakeDisconnect(w, c)
    <2> DEFINE k == [EndSocket(ClearTimers(m)) EXCEPT !.manualStop = TRUE]
    <2>1. k \in SoundMemory
      BY <1>5, <1>6, EndSocketSound
    <2>2. mem' = [mem EXCEPT ![w] = Spawn(k, "write", "disconnect", None, c.n)]
      BY <1>8 DEF TakeDisconnect
    <2>3. [pc |-> "write", why |-> "disconnect", s |-> None, n |-> c.n] \in Task
      BY <1>3 DEF Task, Target
    <2>4. "disconnect" \in Ops
      BY <1>3, <1>8 DEF TakeDisconnect
    <2> HIDE DEF k
    <2>5. Spawn(k, "write", "disconnect", None, c.n) \in SoundMemory
      BY <2>1, <2>3, <2>4, SpawnSound
    <2>6. mem' \in [Worker -> SoundMemory] /\ mem' \in [Worker -> Memory]
      BY <2>2, <2>5, Put DEF TypeInv
    <2> QED
      BY <1>4, <1>8, <2>6 DEF TakeDisconnect, TypeInv, TypeOK
  <1>9. CASE TakeLogout(w, c)
    <2> DEFINE k  == [ClearTimers(m) EXCEPT !.manualStop = TRUE, !.sock = None]
               pc == IF m.sock = None THEN "clear" ELSE "unlink"
    <2>1. k \in SoundMemory
      BY <1>5, <1>6
    <2>2. mem' = [mem EXCEPT ![w] = Spawn(k, pc, "logout", m.sock, c.n)]
      BY <1>9 DEF TakeLogout
    <2>3. [pc |-> pc, why |-> "logout", s |-> m.sock, n |-> c.n] \in Task
      BY <1>1, <1>3 DEF Task, Target, Memory
    <2>4. "logout" \in Ops
      BY <1>3, <1>9 DEF TakeLogout
    <2> HIDE DEF k, pc
    <2>5. Spawn(k, pc, "logout", m.sock, c.n) \in SoundMemory
      BY <2>1, <2>3, <2>4, SpawnSound
    <2>6. mem' \in [Worker -> SoundMemory] /\ mem' \in [Worker -> Memory]
      BY <2>2, <2>5, Put DEF TypeInv
    <2> QED
      BY <1>4, <1>9, <2>6 DEF TakeLogout, TypeInv, TypeOK
  <1> QED
    BY <1>2, <1>7, <1>8, <1>9

LEMMA InFlightType ==
  ASSUME TypeInv, NEW w \in Worker
  PROVE  InFlight(w) \subseteq [op: Ops, n: 1..MaxCmd]
  <1>1. mem[w] \in Memory /\ Sound(mem[w])
    BY DEF TypeInv, SoundMemory
  <1>2. ASSUME NEW t \in mem[w].tasks, t.n # 0
        PROVE  [op |-> t.why, n |-> t.n] \in [op: Ops, n: 1..MaxCmd]
    <2>1. t.why \in Ops /\ t.n \in 0..MaxCmd
      BY <1>1, <1>2 DEF Sound, Memory, Task
    <2>2. t.n \in 1..MaxCmd
      BY <1>2, <2>1, BoundAssumption
    <2> QED
      BY <2>1, <2>2
  <1>3. ASSUME NEW n \in UNION {mem[w].conn[a].wait : a \in AttemptId}, n # 0
        PROVE  [op |-> "connect", n |-> n] \in [op: Ops, n: 1..MaxCmd]
    <2>1. PICK a \in AttemptId : n \in mem[w].conn[a].wait
      OBVIOUS
    <2>2. /\ mem[w].conn[a].wait \subseteq 0..MaxCmd
          /\ mem[w].conn[a].wait \subseteq {0} \/ "connect" \in Ops
      BY <1>1 DEF Sound, Memory, Conn
    <2>3. n # 0
      BY <1>3
    <2>4. n \in 1..MaxCmd /\ "connect" \in Ops
      BY <2>1, <2>2, <2>3, BoundAssumption
    <2> QED
      BY <2>4
  <1> DEFINE U == UNION {mem[w].conn[a].wait : a \in AttemptId}
  <1>4. {[op |-> t.why, n |-> t.n] : t \in {u \in mem[w].tasks : u.n # 0}}
          \subseteq [op: Ops, n: 1..MaxCmd]
    BY <1>2
  <1>5. \A n \in U \ {0} : [op |-> "connect", n |-> n] \in [op: Ops, n: 1..MaxCmd]
    BY <1>3
  <1>6. InFlight(w) = {[op |-> t.why, n |-> t.n] : t \in {u \in mem[w].tasks : u.n # 0}}
                        \cup {[op |-> "connect", n |-> n] : n \in U \ {0}}
    BY DEF InFlight
  <1> HIDE DEF U
  <1>7. {[op |-> "connect", n |-> n] : n \in U \ {0}} \subseteq [op: Ops, n: 1..MaxCmd]
    BY <1>5
  <1> QED
    BY <1>4, <1>6, <1>7

LEMMA LifeType ==
  ASSUME TypeInv, NEW w \in Worker, Life(w)
  PROVE  TypeInv'
  <1> DEFINE m == mem[w]
  <1>1. m \in SoundMemory /\ m \in Memory
    BY DEF TypeInv, SoundMemory
  <1>2. ASSUME NEW p \in {"up", "draining", "closing"}
        PROVE  [m EXCEPT !.proc = p] \in SoundMemory
    BY <1>1 DEF SoundMemory, Sound, Memory, Proc
  <1>3. Blank("booting") \in SoundMemory /\ Blank("dead") \in SoundMemory
    BY BlankSound DEF Proc
  <1>4. CASE Start(w)
    <2>1. mem' \in [Worker -> SoundMemory] /\ mem' \in [Worker -> Memory]
      BY <1>3, <1>4, Put DEF Start, TypeInv
    <2> QED
      BY <1>4, <2>1 DEF Start, TypeInv, TypeOK
  <1>5. CASE Bootstrap(w)
    <2>1. Connect([m EXCEPT !.proc = "up"], {}) \in SoundMemory
      BY <1>2, ConnectSound
    <2>2. \E n \in SoundMemory : mem' = [mem EXCEPT ![w] = n]
      BY <1>2, <1>5, <2>1 DEF Bootstrap
    <2>3. mem' \in [Worker -> SoundMemory] /\ mem' \in [Worker -> Memory]
      BY <2>2, Put DEF TypeInv
    <2> QED
      BY <1>5, <2>3 DEF Bootstrap, TypeInv, TypeOK
  <1>6. CASE Shutdown(w)
    <2>1. mem' = [mem EXCEPT ![w] = [m EXCEPT !.proc = "draining"]]
      BY <1>6 DEF Shutdown
    <2>2. mem' \in [Worker -> SoundMemory] /\ mem' \in [Worker -> Memory]
      BY <1>2, <2>1, Put DEF TypeInv
    <2>3. used' \in [crash: 0..MaxCrash, stall: 0..MaxStall, fail: 0..MaxFail, cmd: 0..MaxCmd, lost: BOOLEAN]
      BY <1>6, BoundAssumption DEF Shutdown, TypeInv, TypeOK
    <2> QED
      BY <1>6, <2>2, <2>3 DEF Shutdown, TypeInv, TypeOK
  <1>7. CASE Close(w)
    <2>1. redis' \in [owner: Worker \cup {None}, fresh: BOOLEAN]
      <3>1. redis' = Freed(w) \/ redis' = redis
        BY <1>7 DEF Close
      <3>2. Freed(w) \in [owner: Worker \cup {None}, fresh: BOOLEAN]
        BY DEF Freed, TypeInv, TypeOK
      <3> QED
        BY <3>1, <3>2 DEF TypeInv, TypeOK
    <2>2. ASSUME m.sock = None PROVE mem' \in [Worker -> SoundMemory]
      <3>1. mem' = [mem EXCEPT ![w] = [m EXCEPT !.proc = "closing"]]
        BY <1>7, <2>2 DEF Close
      <3> QED
        BY <1>2, <3>1, Put DEF TypeInv
    <2>3. ASSUME m.sock # None PROVE mem' \in [Worker -> SoundMemory]
      <3> DEFINE k == [m.sk[m.sock] EXCEPT !.ph = "ending"]
                 n == [m EXCEPT !.sk[m.sock] = k]
      <3>1. m.sock \in SockId /\ k \in Socket
        BY <1>1, <2>3 DEF Memory, Socket
      <3>2. n \in SoundMemory
        BY <1>1, <3>1, SetSocketSound
      <3>3. [n EXCEPT !.proc = "closing", !.manualStop = TRUE, !.leaseTimer = FALSE] \in SoundMemory
        BY <3>2 DEF SoundMemory, Sound, Memory, Proc
      <3>4. mem' = [mem EXCEPT ![w] =
                     [n EXCEPT !.proc = "closing", !.manualStop = TRUE, !.leaseTimer = FALSE]]
        BY <1>1, <1>7, <2>3 DEF Close, Memory
      <3> QED
        BY <3>3, <3>4, Put DEF TypeInv
    <2>4. mem' \in [Worker -> SoundMemory] /\ mem' \in [Worker -> Memory]
      <3>1. mem' \in [Worker -> SoundMemory]
        BY <2>2, <2>3
      <3> QED
        BY <3>1 DEF SoundMemory
    <2> QED
      BY <1>7, <2>1, <2>4 DEF Close, TypeInv, TypeOK
  <1>8. CASE Exit(w)
    <2>1. mem' \in [Worker -> SoundMemory] /\ mem' \in [Worker -> Memory]
      BY <1>3, <1>8, Put DEF Exit, TypeInv
    <2> QED
      BY <1>8, <2>1 DEF Exit, TypeInv, TypeOK
  <1>9. CASE Crash(w)
    <2>1. mem' \in [Worker -> SoundMemory] /\ mem' \in [Worker -> Memory]
      BY <1>3, <1>9, Put DEF Crash, TypeInv
    <2>2. cmds' \subseteq [op: Ops, n: 1..MaxCmd]
      BY <1>9, InFlightType DEF Crash, TypeInv, TypeOK
    <2>3. used' \in [crash: 0..MaxCrash, stall: 0..MaxStall, fail: 0..MaxFail, cmd: 0..MaxCmd, lost: BOOLEAN]
      BY <1>9, BoundAssumption DEF Crash, TypeInv, TypeOK
    <2> QED
      BY <1>9, <2>1, <2>2, <2>3 DEF Crash, TypeInv, TypeOK
  <1> QED
    BY <1>4, <1>5, <1>6, <1>7, <1>8, <1>9 DEF Life

LEMMA TypeStep == TypeInv /\ [Next]_vars => TypeInv'
  <1> SUFFICES ASSUME TypeInv, [Next]_vars PROVE TypeInv'
    OBVIOUS
  <1>1. CASE UNCHANGED vars
    BY <1>1 DEF vars, TypeInv, TypeOK
  <1>2. CASE Lapse
    BY <1>2 DEF Lapse, TypeInv, TypeOK
  <1>3. CASE Stall
    <2>1. used' \in [crash: 0..MaxCrash, stall: 0..MaxStall, fail: 0..MaxFail, cmd: 0..MaxCmd, lost: BOOLEAN]
      BY <1>3, BoundAssumption DEF Stall, TypeInv, TypeOK
    <2> QED
      BY <1>3, <2>1 DEF Stall, TypeInv, TypeOK
  <1>4. ASSUME NEW op \in Ops, Request(op)
        PROVE  TypeInv'
    <2>1. used.cmd + 1 \in 1..MaxCmd
      BY <1>4, BoundAssumption DEF Request, TypeInv, TypeOK
    <2>2. used' \in [crash: 0..MaxCrash, stall: 0..MaxStall, fail: 0..MaxFail, cmd: 0..MaxCmd, lost: BOOLEAN]
      BY <1>4, BoundAssumption DEF Request, TypeInv, TypeOK
    <2>3. cmds' \subseteq [op: Ops, n: 1..MaxCmd]
      BY <1>4, <2>1 DEF Request, TypeInv, TypeOK
    <2> QED
      BY <1>4, <2>2, <2>3 DEF Request, TypeInv, TypeOK
  <1>5. ASSUME NEW w \in Worker,
               \/ Connecting(w) \/ Timers(w) \/ Events(w) \/ Commands(w) \/ Life(w)
               \/ EnsureConnected(w) \/ \E a \in AttemptId : ConnectFails(w, a)
               \/ \E t \in mem[w].tasks : Step(w, t) \/ CommandFails(w, t)
        PROVE  TypeInv'
    BY <1>5, ConnectingType, ConnectFailsType, TimersType, EventsType, CommandsType, LifeType,
       StepType DEF Connecting
  <1> QED
    BY <1>1, <1>2, <1>3, <1>4, <1>5 DEF Next

\* Whatever the number of processes, sockets, commands and faults, every field
\* keeps its type; in particular the count of QR cycles stays below
\* MaxQrCycles, no tracked timer is missing from those armed and a job that
\* goes back to the queue is one that was requested.
THEOREM TypeCorrect == Spec => []TypeOK
  <1>1. Init => TypeInv
    BY TypeInit
  <1>2. TypeInv /\ [Next]_vars => TypeInv'
    BY TypeStep
  <1>3. TypeInv => TypeOK
    BY DEF TypeInv
  <1> QED
    BY <1>1, <1>2, <1>3, PTL DEF Spec

-----------------------------------------------------------------------------
(***************************************************************************)
(* Sockets.  In one process: every socket that is not closed is the        *)
(* registered one, and one attempt is in flight only while none is         *)
(* registered.  A close takes whatever socket is registered off the map,   *)
(* so this needs that no socket is ended while another one comes: no       *)
(* command, and no lease lost.                                             *)
(***************************************************************************)
OneSocket(m) ==
  /\ \A s \in SockId : m.sk[s].ph # "free" => m.sock = s
  /\ Attempts(m) # {} => m.sock = None
  /\ \A a, b \in Attempts(m) : a = b

SocketInv == ~used.lost => \A w \in Worker : OneSocket(mem[w])

\* The handlers that close or reconnect; the other two only write a status.
Chores(m) == {t \in m.tasks : t.why \notin {"qr", "open"}}

\* Nothing is under way that would dial.
Quieted(m) == m.sock = None /\ Attempts(m) = {} /\ m.armed = 0 /\ ~m.leaseRetry

\* Between two processes: what leads to a socket takes turns - a chore, a timer, a
\* retry, an attempt, the socket - so that the lease is not given back under an
\* attempt or a socket.
TakeTurns(m) ==
  /\ \A t \in m.tasks : t.why \in {"qr", "open"} => t.pc = "write"
  /\ \A t, u \in Chores(m) : t = u
  /\ Chores(m) # {} => Quieted(m)
  /\ m.armed \in {0, 1}
  /\ m.armed # 0 => m.sock = None /\ Attempts(m) = {} /\ ~m.leaseRetry
  /\ m.leaseRetry => m.sock = None /\ Attempts(m) = {}
  /\ \A s \in SockId : Live(m, s) => m.leaseTimer
  /\ \A a \in AttemptId : m.conn[a].pc \in {"creds", "state", "dial"} => m.leaseTimer
  /\ m.proc = "booting" => Quieted(m) /\ Chores(m) = {}

TurnsInv == ~used.lost => \A w \in Worker : TakeTurns(mem[w])

\* What the helpers leave alone.
Entry == {"proc", "sock", "sk", "conn", "tasks", "armed", "tracked", "leaseRetry", "leaseTimer",
          "manualStop", "leaseLost", "cycles"}
Shaped(m) ==
  /\ DOMAIN m = Entry /\ DOMAIN m.conn = AttemptId /\ DOMAIN m.sk = SockId
  /\ \A a \in AttemptId : DOMAIN m.conn[a] = {"pc", "out", "me", "wait"}
  /\ \A s \in SockId : DOMAIN m.sk[s] = {"ph", "me"}
SameSockets(m, n) == n.sock = m.sock /\ n.sk = m.sk
SameAttempts(m, n) == \A a \in AttemptId : n.conn[a].pc = m.conn[a].pc
SameTimers(m, n) ==
  n.armed = m.armed /\ n.leaseRetry = m.leaseRetry /\ n.leaseTimer = m.leaseTimer /\ n.proc = m.proc
Same(m, n) == Shaped(n) /\ SameSockets(m, n) /\ SameAttempts(m, n) /\ SameTimers(m, n)

LEMMA MemoryShaped ==
  ASSUME NEW m \in Memory
  PROVE  Shaped(m)
  BY DEF Memory, Shaped, Entry, Conn, Socket

LEMMA SpawnDoes ==
  ASSUME NEW m, Shaped(m), NEW pc, NEW why, NEW s, NEW k
  PROVE  /\ Same(m, Spawn(m, pc, why, s, k))
         /\ Spawn(m, pc, why, s, k).tasks = m.tasks \cup {[pc |-> pc, why |-> why, s |-> s, n |-> k]}
  BY DEF Spawn, Same, Shaped, Entry, SameSockets, SameAttempts, SameTimers

LEMMA DropDoes ==
  ASSUME NEW m, Shaped(m), NEW t
  PROVE  Same(m, Drop(m, t)) /\ Drop(m, t).tasks = m.tasks \ {t}
  BY DEF Drop, Same, Shaped, Entry, SameSockets, SameAttempts, SameTimers

LEMMA SameTwice ==
  ASSUME NEW m, NEW n, NEW k, Same(m, n), Same(n, k)
  PROVE  Same(m, k)
  BY DEF Same, SameSockets, SameAttempts, SameTimers

LEMMA GotoDoes ==
  ASSUME NEW m, Shaped(m), NEW t, NEW pc
  PROVE  /\ Same(m, Goto(m, t, pc))
         /\ Goto(m, t, pc).tasks = (m.tasks \ {t}) \cup {[pc |-> pc, why |-> t.why, s |-> t.s, n |-> t.n]}
  <1>1. Same(m, Drop(m, t)) /\ Drop(m, t).tasks = m.tasks \ {t}
    BY DropDoes
  <1>2. Shaped(Drop(m, t))
    BY <1>1 DEF Same
  <1>3. /\ Same(Drop(m, t), Goto(m, t, pc))
        /\ Goto(m, t, pc).tasks = Drop(m, t).tasks \cup {[pc |-> pc, why |-> t.why, s |-> t.s, n |-> t.n]}
    BY <1>2, SpawnDoes DEF Goto
  <1> QED
    BY <1>1, <1>3, SameTwice

LEMMA RescheduleDoes ==
  ASSUME NEW m, Shaped(m), NEW s
  PROVE  /\ Same(m, Reschedule(m, s))
         /\ \/ Reschedule(m, s).tasks = m.tasks
            \/ Reschedule(m, s).tasks = m.tasks \cup {[pc |-> "resched", why |-> "lost", s |-> s, n |-> 0]}
  <1>1. CASE Reschedule(m, s) = m
    BY <1>1 DEF Same, SameSockets, SameAttempts, SameTimers
  <1>2. CASE Reschedule(m, s) = Spawn(m, "resched", "lost", s, 0)
    BY <1>2, SpawnDoes
  <1> QED
    BY <1>1, <1>2 DEF Reschedule

\* connect(): nothing, or one attempt where there was none.
LEMMA ConnectDoes ==
  ASSUME NEW m, Shaped(m), NEW ns
  PROVE  /\ Shaped(Connect(m, ns)) /\ SameSockets(m, Connect(m, ns)) /\ SameTimers(m, Connect(m, ns))
         /\ Connect(m, ns).tasks = m.tasks
         /\ \/ SameAttempts(m, Connect(m, ns)) /\ (m.sock # None \/ Attempts(m) # {})
            \/ /\ m.sock = None /\ Attempts(m) = {}
               /\ \E a \in AttemptId : \A b \in AttemptId :
                    Connect(m, ns).conn[b].pc = IF b = a THEN "read" ELSE "idle"
  <1>1. CASE m.sock # None
    BY <1>1 DEF Connect, SameSockets, SameAttempts, SameTimers
  <1>2. CASE m.sock = None /\ Attempts(m) = {}
    <2> DEFINE r == [pc |-> "read", out |-> FALSE, me |-> FALSE, wait |-> ns]
               c == [m.conn EXCEPT ![Slot(m)] = r]
    <2>1. Slot(m) \in AttemptId
      <3>1. \E x \in AttemptId : x \notin Attempts(m)
        BY <1>2, SlotAssumption
      <3> QED
        BY <3>1, Zenon DEF Slot
    <2>2. Connect(m, ns) = [m EXCEPT !.conn = c, !.manualStop = FALSE]
      BY <1>2 DEF Connect, Begin
    <2>3. /\ DOMAIN c = AttemptId /\ \A b \in AttemptId : DOMAIN c[b] = {"pc", "out", "me", "wait"}
          /\ \A b \in AttemptId : c[b].pc = IF b = Slot(m) THEN "read" ELSE "idle"
      BY <1>2, <2>1 DEF Shaped, Attempts
    <2> HIDE DEF c
    <2> QED
      BY <1>2, <2>1, <2>2, <2>3 DEF Shaped, Entry, SameSockets, SameTimers
  <1>3. CASE m.sock = None /\ Attempts(m) # {}
    <2> DEFINE c == [a \in AttemptId |->
          IF a \in Attempts(m) THEN [m.conn[a] EXCEPT !.wait = @ \cup ns] ELSE m.conn[a]]
    <2>1. Connect(m, ns) = [m EXCEPT !.conn = c]
      BY <1>3 DEF Connect
    <2>2. /\ DOMAIN c = AttemptId /\ \A b \in AttemptId : DOMAIN c[b] = {"pc", "out", "me", "wait"}
          /\ \A b \in AttemptId : c[b].pc = m.conn[b].pc
      BY DEF Shaped
    <2> HIDE DEF c
    <2> QED
      BY <1>3, <2>1, <2>2 DEF Shaped, Entry, SameSockets, SameAttempts, SameTimers
  <1> QED
    BY <1>1, <1>2, <1>3

-----------------------------------------------------------------------------
(***************************************************************************)
(* The lease of a line, for any number of processes.                       *)
(*                                                                         *)
(* All of it supposes that no process id is used twice (config.ts, line 6: *)
(* the default id carries a UUID): a restarted process with a pinned id    *)
(* finds its own key and no interval to renew it.                          *)
(***************************************************************************)
\* A process that has not started, or is gone, has nothing in memory.
Dormant == \A w \in Worker : Alive(w) \/ mem[w] = Blank(mem[w].proc)

\* The key is never there before its owner.
NotYet == \A w \in Worker : mem[w].proc = "new" => redis.owner # w

\* HeldLeaseIsRenewed, strengthened to be inductive.
HeldInv == Dormant /\ (~Pinned => NotYet /\ HeldLeaseIsRenewed)

(***************************************************************************)
(* Most steps of a process touch neither its renewal interval, nor an      *)
(* answer that will start it, nor the key.                                 *)
(***************************************************************************)
\* An attempt has been told that the lease is ours.
Awaits(m) == \E a \in AttemptId : m.conn[a].pc = "held"
Tends(m)  == m.leaseTimer \/ Awaits(m)

Keeps(m, n) ==
  /\ Shaped(n) /\ n.proc = m.proc /\ n.leaseTimer = m.leaseTimer
  /\ Awaits(n) <=> Awaits(m)

Quiet(w) ==
  /\ Alive(w)
  /\ \E n : /\ mem' = [mem EXCEPT ![w] = n]
            /\ n.proc \notin {"new", "dead"} /\ (Tends(n) <=> Tends(mem[w]))
  /\ redis' = redis

LEMMA TendingIs ==
  ASSUME NEW w \in Worker
  PROVE  Tending(w) <=> Alive(w) /\ Tends(mem[w])
  BY DEF Tending, Renewing, Tends, Awaits

LEMMA SameKeeps ==
  ASSUME NEW m, NEW n, Same(m, n)
  PROVE  Keeps(m, n)
  BY DEF Same, SameTimers, SameAttempts, Keeps, Awaits

LEMMA HelpersKeep ==
  ASSUME NEW m, Shaped(m)
  PROVE  /\ \A ns : Keeps(m, Connect(m, ns))
         /\ Keeps(m, EndSocket(m))
         /\ Keeps(m, ClearTimers(m))
         /\ \A s : Keeps(m, Reschedule(m, s))
         /\ \A t : Keeps(m, Drop(m, t))
         /\ \A t, pc : Keeps(m, Goto(m, t, pc))
         /\ \A pc, why, s, n : Keeps(m, Spawn(m, pc, why, s, n))
         /\ \A a \in AttemptId : m.conn[a].pc # "held" => Keeps(m, LeaseBusy(m, a))
  <1>1. ASSUME NEW ns PROVE Keeps(m, Connect(m, ns))
    <2> DEFINE n == Connect(m, ns)
    <2>1. /\ Shaped(n) /\ SameTimers(m, n)
          /\ \/ SameAttempts(m, n)
             \/ /\ Attempts(m) = {}
                /\ \E a \in AttemptId : \A b \in AttemptId : n.conn[b].pc = IF b = a THEN "read" ELSE "idle"
      BY ConnectDoes
    <2> HIDE DEF n
    <2>2. Awaits(n) <=> Awaits(m)
      BY <2>1 DEF Awaits, SameAttempts, Attempts
    <2>3. Keeps(m, n)
      BY <2>1, <2>2 DEF Keeps, SameTimers
    <2> QED
      BY <2>3 DEF n
  <1>2. Keeps(m, EndSocket(m))
    BY DEF EndSocket, Keeps, Shaped, Entry, Awaits
  <1>3. Keeps(m, ClearTimers(m))
    BY DEF ClearTimers, Keeps, Shaped, Entry, Awaits
  <1>4. ASSUME NEW s PROVE Keeps(m, Reschedule(m, s))
    BY RescheduleDoes, SameKeeps
  <1>5. ASSUME NEW t PROVE Keeps(m, Drop(m, t))
    BY DropDoes, SameKeeps
  <1>6. ASSUME NEW t, NEW pc PROVE Keeps(m, Goto(m, t, pc))
    BY GotoDoes, SameKeeps
  <1>7. ASSUME NEW pc, NEW why, NEW s, NEW n PROVE Keeps(m, Spawn(m, pc, why, s, n))
    BY SpawnDoes, SameKeeps
  <1>8. ASSUME NEW a \in AttemptId, m.conn[a].pc # "held" PROVE Keeps(m, LeaseBusy(m, a))
    BY <1>8 DEF LeaseBusy, Keeps, Shaped, Entry, Awaits, Idle
  <1> QED
    BY <1>1, <1>2, <1>3, <1>4, <1>5, <1>6, <1>7, <1>8

\* Two helpers in a row.
LEMMA KeepsTwice ==
  ASSUME NEW m, NEW n, NEW k, Keeps(m, n), Keeps(n, k)
  PROVE  Keeps(m, k)
  BY DEF Keeps

LEMMA HelpersKeepOn ==
  ASSUME NEW m, NEW k, Keeps(m, k)
  PROVE  /\ \A ns : Keeps(m, Connect(k, ns))
         /\ Keeps(m, EndSocket(k))
         /\ \A s : Keeps(m, Reschedule(k, s))
         /\ \A pc, why, s, n : Keeps(m, Spawn(k, pc, why, s, n))
  <1>1. Shaped(k)
    BY DEF Keeps
  <1> QED
    BY <1>1, HelpersKeep, KeepsTwice

LEMMA KeepsIsQuiet ==
  ASSUME NEW w \in Worker, Alive(w), NEW n, Keeps(mem[w], n),
         mem' = [mem EXCEPT ![w] = n], redis' = redis
  PROVE  Quiet(w)
  BY DEF Quiet, Keeps, Tends, Alive

LEMMA AwakeMemory ==
  ASSUME TypeInv, NEW w \in Worker
  PROVE  Shaped(mem[w])
  BY MemoryShaped DEF TypeInv, TypeOK

\* A handler in flight is one of a living process.
LEMMA BusyIsAlive ==
  ASSUME TypeInv, Dormant, NEW w \in Worker, ~Alive(w)
  PROVE  /\ \A a \in AttemptId : mem[w].conn[a].pc = "idle"
         /\ \A s \in SockId : mem[w].sk[s].ph = "free"
         /\ mem[w].tasks = {} /\ mem[w].armed = 0 /\ mem[w].leaseRetry = FALSE
         /\ mem[w].leaseTimer = FALSE
  <1>1. PICK p : mem[w] = Blank(p)
    BY DEF Dormant
  <1> QED
    BY <1>1 DEF Blank, Idle, Unused

LEMMA QuietConnecting ==
  ASSUME TypeInv, Dormant, NEW w \in Worker, NEW a \in AttemptId,
         \/ ReadInstance(w, a) \/ LoadCreds(w, a) \/ SetConnecting(w, a) \/ Dial(w, a)
         \/ ConnectFails(w, a)
  PROVE  Quiet(w)
  <1> DEFINE m == mem[w]
             c == m.conn[a]
  <1>1. Shaped(m) /\ c.pc \notin {"idle", "held"} /\ DOMAIN c = {"pc", "out", "me", "wait"}
    BY AwakeMemory
       DEF ReadInstance, LoadCreds, SetConnecting, Dial, ConnectFails, Shaped
  <1>2. Alive(w)
    BY <1>1, BusyIsAlive
  <1>4. ASSUME NEW n, Keeps(m, n), mem' = [mem EXCEPT ![w] = n], redis' = redis
        PROVE  Quiet(w)
    BY <1>2, <1>4, KeepsIsQuiet
  <1>5. ASSUME NEW d, DOMAIN d = {"pc", "out", "me", "wait"}, d.pc # "held"
        PROVE  Keeps(m, [m EXCEPT !.conn = [m.conn EXCEPT ![a] = d]])
    BY <1>1, <1>5 DEF Keeps, Shaped, Entry, Awaits
  <1>i. Idle.pc = "idle" /\ DOMAIN Idle = {"pc", "out", "me", "wait"}
    BY DEF Idle
  <1>6. CASE ReadInstance(w, a)
    <2> DEFINE d == IF db.auto THEN [c EXCEPT !.pc = "lease", !.out = (db.status = "LOGGED_OUT")]
                    ELSE Idle
    <2>1. DOMAIN d = {"pc", "out", "me", "wait"} /\ d.pc # "held"
      BY <1>1, <1>i
    <2>2. mem' = [mem EXCEPT ![w] = [m EXCEPT !.conn = [m.conn EXCEPT ![a] = d]]] /\ redis' = redis
      BY <1>6 DEF ReadInstance
    <2> HIDE DEF d
    <2> QED
      BY <1>4, <1>5, <2>1, <2>2
  <1>7. CASE LoadCreds(w, a)
    <2> DEFINE d == [c EXCEPT !.pc = "state", !.me = db.linked /\ ~c.out]
    <2>1. DOMAIN d = {"pc", "out", "me", "wait"} /\ d.pc # "held"
      BY <1>1
    <2>2. mem' = [mem EXCEPT ![w] = [m EXCEPT !.conn = [m.conn EXCEPT ![a] = d]]] /\ redis' = redis
      BY <1>7 DEF LoadCreds
    <2> HIDE DEF d
    <2> QED
      BY <1>4, <1>5, <2>1, <2>2
  <1>8. CASE SetConnecting(w, a)
    <2> DEFINE d == [c EXCEPT !.pc = "dial"]
    <2>1. DOMAIN d = {"pc", "out", "me", "wait"} /\ d.pc # "held"
      BY <1>1
    <2>2. mem' = [mem EXCEPT ![w] = [m EXCEPT !.conn = [m.conn EXCEPT ![a] = d]]] /\ redis' = redis
      BY <1>8 DEF SetConnecting
    <2> HIDE DEF d
    <2> QED
      BY <1>4, <1>5, <2>1, <2>2
  <1>9. CASE Dial(w, a)
    <2>1. PICK s \in SockId :
            mem' = [mem EXCEPT ![w].sk[s] = [ph |-> "dial", me |-> mem[w].conn[a].me],
                               ![w].sock = s, ![w].conn[a] = Idle]
      BY <1>9 DEF Dial
    <2> DEFINE n == [m EXCEPT !.sk[s] = [ph |-> "dial", me |-> mem[w].conn[a].me],
                              !.sock = s, !.conn[a] = Idle]
    <2>2. mem' = [mem EXCEPT ![w] = n]
      <3>1. mem \in [Worker -> Memory]
        BY DEF TypeInv, TypeOK
      <3> QED
        BY <2>1, <3>1
    <2>3. Keeps(m, n)
      BY <1>1, <1>i DEF Keeps, Shaped, Entry, Awaits
    <2> QED
      BY <1>4, <1>9, <2>2, <2>3 DEF Dial
  <1>10. CASE ConnectFails(w, a)
    <2> DEFINE idle == [m EXCEPT !.conn = [m.conn EXCEPT ![a] = Idle]]
    <2>1. mem' = [mem EXCEPT ![w] = Reschedule(idle, None)] \/ mem' = [mem EXCEPT ![w] = idle]
      BY <1>10 DEF ConnectFails
    <2>2. Keeps(m, idle)
      BY <1>5, <1>i
    <2> HIDE DEF idle
    <2>3. Keeps(m, Reschedule(idle, None))
      BY <2>2, HelpersKeepOn
    <2> QED
      BY <1>4, <1>10, <2>1, <2>2, <2>3 DEF ConnectFails
  <1> QED
    BY <1>6, <1>7, <1>8, <1>9, <1>10

LEMMA QuietTimers ==
  ASSUME TypeInv, Dormant, NEW w \in Worker,
         ReconnectFires(w) \/ LeaseRetryFires(w) \/ EnsureConnected(w)
  PROVE  Quiet(w)
  <1> DEFINE m == mem[w]
  <1>1. Shaped(m)
    BY AwakeMemory
  <1>2. Alive(w)
    <2>1. CASE ReconnectFires(w)
      <3>1. m.armed # 0
        BY <2>1 DEF ReconnectFires
      <3> QED
        BY <3>1, BusyIsAlive
    <2>2. CASE LeaseRetryFires(w)
      BY <2>2, BusyIsAlive DEF LeaseRetryFires
    <2>3. CASE EnsureConnected(w)
      BY <2>3 DEF EnsureConnected, Serving, Alive
    <2> QED
      BY <2>1, <2>2, <2>3
  <1>3. CASE ReconnectFires(w)
    <2> DEFINE k == [mem[w] EXCEPT !.armed = @ - 1, !.tracked = FALSE]
    <2>1. Keeps(m, k)
      BY <1>1 DEF Keeps, Shaped, Entry, Awaits
    <2>2. mem' = [mem EXCEPT ![w] = Connect(k, {0})] /\ redis' = redis
      BY <1>3 DEF ReconnectFires
    <2> HIDE DEF k
    <2>3. Keeps(m, Connect(k, {0}))
      BY <2>1, HelpersKeepOn
    <2> QED
      BY <1>2, <2>2, <2>3, KeepsIsQuiet
  <1>4. CASE LeaseRetryFires(w)
    <2> DEFINE k == [m EXCEPT !.leaseRetry = FALSE]
    <2>1. Keeps(m, k)
      BY <1>1 DEF Keeps, Shaped, Entry, Awaits
    <2>2. mem' = [mem EXCEPT ![w] = Connect(k, {})] /\ redis' = redis
      BY <1>4 DEF LeaseRetryFires
    <2> HIDE DEF k
    <2>3. Keeps(m, Connect(k, {}))
      BY <2>1, HelpersKeepOn
    <2> QED
      BY <1>2, <2>2, <2>3, KeepsIsQuiet
  <1>5. CASE EnsureConnected(w)
    <2>1. mem' = [mem EXCEPT ![w] = Connect(m, {})] /\ redis' = redis
      BY <1>5 DEF EnsureConnected
    <2> QED
      BY <1>1, <1>2, <2>1, HelpersKeep, KeepsIsQuiet
  <1> QED
    BY <1>3, <1>4, <1>5

LEMMA QuietEvents ==
  ASSUME TypeInv, Dormant, NEW w \in Worker, Events(w)
  PROVE  Quiet(w) \/ UNCHANGED <<mem, redis>>
  <1> DEFINE m == mem[w]
  <1>1. Shaped(m)
    BY AwakeMemory
  <1>2. PICK s \in SockId : \/ QrEvent(w, s) \/ Scanned(w, s) \/ OpenEvent(w, s)
                            \/ SaveCreds(w, s) \/ CloseEvent(w, s)
    BY DEF Events
  <1>3. Alive(w)
    <2>1. m.sk[s].ph # "free"
      BY <1>2 DEF QrEvent, Scanned, OpenEvent, SaveCreds, CloseEvent, CloseCodes
    <2> QED
      BY <2>1, BusyIsAlive
  <1>4. CASE SaveCreds(w, s)
    BY <1>4 DEF SaveCreds
  <1>5. CASE Scanned(w, s)
    <2> DEFINE k == [m EXCEPT !.sk = [m.sk EXCEPT ![s] = [m.sk[s] EXCEPT !.me = TRUE]]]
    <2>1. mem' = [mem EXCEPT ![w] = k] /\ redis' = redis
      BY <1>5 DEF Scanned
    <2>2. Keeps(m, k)
      BY <1>1 DEF Keeps, Shaped, Entry, Awaits
    <2> HIDE DEF k
    <2> QED
      BY <1>3, <2>1, <2>2, KeepsIsQuiet
  <1>6. ASSUME NEW k, Keeps(m, k), NEW pc, NEW why,
               mem' = [mem EXCEPT ![w] = Spawn(k, pc, why, s, 0)], redis' = redis
        PROVE  Quiet(w)
    <2>1. Keeps(k, Spawn(k, pc, why, s, 0))
      BY <1>6, HelpersKeep DEF Keeps
    <2>2. Keeps(m, Spawn(k, pc, why, s, 0))
      BY <1>6, <2>1, KeepsTwice
    <2> QED
      BY <1>3, <1>6, <2>2, KeepsIsQuiet
  <1>7. CASE QrEvent(w, s)
    <2>1. Keeps(m, [mem[w] EXCEPT !.sk[s].ph = "qr"])
      BY <1>1 DEF Keeps, Shaped, Entry, Awaits
    <2> QED
      BY <1>6, <1>7, <2>1 DEF QrEvent
  <1>8. CASE OpenEvent(w, s)
    <2>1. Keeps(m, [mem[w] EXCEPT !.sk[s].ph = "open"])
      BY <1>1 DEF Keeps, Shaped, Entry, Awaits
    <2> QED
      BY <1>6, <1>8, <2>1 DEF OpenEvent
  <1>9. CASE CloseEvent(w, s)
    <2>1. Keeps(m, [mem[w] EXCEPT !.sk[s] = Unused, !.sock = None])
      BY <1>1 DEF Keeps, Shaped, Entry, Awaits, Unused
    <2> QED
      BY <1>6, <1>9, <2>1 DEF CloseEvent
  <1> QED
    BY <1>2, <1>4, <1>5, <1>7, <1>8, <1>9

LEMMA QuietSteps ==
  ASSUME TypeInv, Dormant, NEW w \in Worker, NEW t \in mem[w].tasks,
         Step(w, t) \/ CommandFails(w, t), ~Release(w, t)
  PROVE  Quiet(w)
  <1> DEFINE m == mem[w]
  <1>1. Shaped(m)
    BY AwakeMemory
  <1>2. Alive(w)
    BY BusyIsAlive
  <1>3. ASSUME NEW n, Keeps(m, n), mem' = [mem EXCEPT ![w] = n], redis' = redis
        PROVE  Quiet(w)
    BY <1>2, <1>3, KeepsIsQuiet
  <1>4. Keeps(m, Drop(m, t)) /\ \A pc : Keeps(m, Goto(m, t, pc))
    BY <1>1, HelpersKeep
  <1>5. CASE Before(w, t)
    <2>1. Keeps(m, [Drop(m, t) EXCEPT !.leaseLost = FALSE])
      BY <1>4 DEF Keeps, Shaped, Entry, Awaits
    <2>2. Keeps(m, [Goto(m, t, "write") EXCEPT !.cycles = 0])
      BY <1>4 DEF Keeps, Shaped, Entry, Awaits
    <2>3. Keeps(m, [Drop(m, t) EXCEPT !.cycles = @ + 1])
      BY <1>4 DEF Keeps, Shaped, Entry, Awaits
    <2>4. Keeps(m, Reschedule([Drop(m, t) EXCEPT !.cycles = @ + 1], t.s))
      <3> DEFINE k == [Drop(m, t) EXCEPT !.cycles = @ + 1]
      <3> HIDE DEF k
      <3>1. Keeps(k, Reschedule(k, t.s))
        BY <2>3, HelpersKeep DEF Keeps, k
      <3> QED
        BY <2>3, <3>1, KeepsTwice DEF k
    <2>5. Keeps(m, Reschedule(Drop(m, t), t.s))
      BY <1>4, HelpersKeepOn
    <2>6. \E n : Keeps(m, n) /\ mem' = [mem EXCEPT ![w] = n]
      BY <1>4, <1>5, <2>1, <2>2, <2>4, <2>5 DEF Before
    <2> QED
      BY <1>3, <1>5, <2>6 DEF Before
  <1>6. CASE Unlink(w, t)
    <2>1. Keeps(m, [Goto(m, t, "clear") EXCEPT !.sk[t.s].ph = "unlinking"])
      BY <1>4 DEF Keeps, Shaped, Entry, Awaits
    <2>2. \E n : Keeps(m, n) /\ mem' = [mem EXCEPT ![w] = n]
      BY <1>4, <1>6, <2>1 DEF Unlink
    <2> QED
      BY <1>3, <1>6, <2>2 DEF Unlink
  <1>7. CASE ClearCreds(w, t)
    BY <1>3, <1>4, <1>7 DEF ClearCreds
  <1>8. CASE Write(w, t)
    <2>1. Keeps(m, [Drop(m, t) EXCEPT !.cycles = 0])
      BY <1>4 DEF Keeps, Shaped, Entry, Awaits
    <2>2. \E n : Keeps(m, n) /\ mem' = [mem EXCEPT ![w] = n]
      BY <1>4, <1>8, <2>1 DEF Write
    <2> QED
      BY <1>3, <1>8, <2>2 DEF Write
  <1>9. CASE ReadAuto(w, t)
    <2>1. Keeps(m, Spawn(Drop(m, t), "write", "off", t.s, 0))
      BY <1>4, HelpersKeepOn
    <2>2. \E n : Keeps(m, n) /\ mem' = [mem EXCEPT ![w] = n]
      BY <1>4, <1>9, <2>1 DEF ReadAuto
    <2> QED
      BY <1>3, <1>9, <2>2 DEF ReadAuto
  <1>10. CASE Backoff(w, t)
    <2>1. Keeps(m, [Drop(mem[w], t) EXCEPT !.armed = @ + 1, !.tracked = TRUE])
      BY <1>4 DEF Keeps, Shaped, Entry, Awaits
    <2> QED
      BY <1>3, <1>10, <2>1 DEF Backoff
  <1>11. CASE CommandFails(w, t)
    BY <1>3, <1>4, <1>11 DEF CommandFails
  <1> QED
    BY <1>5, <1>6, <1>7, <1>8, <1>9, <1>10, <1>11 DEF Step

LEMMA QuietCommands ==
  ASSUME TypeInv, NEW w \in Worker, Commands(w)
  PROVE  Quiet(w)
  <1> DEFINE m == mem[w]
  <1>1. Shaped(m)
    BY AwakeMemory
  <1>2. PICK c \in cmds : TakeConnect(w, c) \/ TakeDisconnect(w, c) \/ TakeLogout(w, c)
    BY DEF Commands
  <1>3. Alive(w)
    BY <1>2 DEF TakeConnect, TakeDisconnect, TakeLogout, Takes, Serving, Alive
  <1>4. CASE TakeConnect(w, c)
    <2>1. Keeps(m, [m EXCEPT !.cycles = 0])
      BY <1>1 DEF Keeps, Shaped, Entry, Awaits
    <2>2. Keeps(m, Connect([m EXCEPT !.cycles = 0], {c.n}))
      <3> DEFINE k == [m EXCEPT !.cycles = 0]
      <3> HIDE DEF k
      <3>1. Keeps(k, Connect(k, {c.n}))
        BY <2>1, HelpersKeep DEF Keeps, k
      <3> QED
        BY <2>1, <3>1, KeepsTwice DEF k
    <2> QED
      BY <1>3, <1>4, <2>2, KeepsIsQuiet DEF TakeConnect
  <1>5. CASE TakeDisconnect(w, c)
    <2> DEFINE k == [EndSocket(ClearTimers(m)) EXCEPT !.manualStop = TRUE]
    <2>1. Keeps(m, ClearTimers(m))
      BY <1>1, HelpersKeep
    <2>2. Keeps(m, EndSocket(ClearTimers(m)))
      BY <2>1, HelpersKeepOn
    <2>3. Keeps(m, k)
      BY <2>2 DEF Keeps, Shaped, Entry, Awaits
    <2>4. mem' = [mem EXCEPT ![w] = Spawn(k, "write", "disconnect", None, c.n)] /\ redis' = redis
      BY <1>5 DEF TakeDisconnect
    <2> HIDE DEF k
    <2>5. Keeps(m, Spawn(k, "write", "disconnect", None, c.n))
      BY <2>3, HelpersKeepOn
    <2> QED
      BY <1>3, <2>4, <2>5, KeepsIsQuiet
  <1>6. CASE TakeLogout(w, c)
    <2> DEFINE k  == [ClearTimers(m) EXCEPT !.manualStop = TRUE, !.sock = None]
               pc == IF m.sock = None THEN "clear" ELSE "unlink"
    <2>1. Keeps(m, ClearTimers(m))
      BY <1>1, HelpersKeep
    <2>2. Keeps(m, k)
      BY <2>1 DEF Keeps, Shaped, Entry, Awaits
    <2>3. mem' = [mem EXCEPT ![w] = Spawn(k, pc, "logout", m.sock, c.n)] /\ redis' = redis
      BY <1>6 DEF TakeLogout
    <2> HIDE DEF k, pc
    <2>4. Keeps(m, Spawn(k, pc, "logout", m.sock, c.n))
      BY <2>2, HelpersKeepOn
    <2> QED
      BY <1>3, <2>3, <2>4, KeepsIsQuiet
  <1> QED
    BY <1>2, <1>4, <1>5, <1>6
(***************************************************************************)
(* The steps that do concern the lease.                                    *)
(***************************************************************************)
\* Redis' answer that the lease is ours: a free key is set, our own is found.
Holds(w) ==
  /\ Alive(w)
  /\ \E n : mem' = [mem EXCEPT ![w] = n] /\ n.proc = mem[w].proc /\ Tends(n)
  /\ \/ redis.owner = None /\ redis' = [owner |-> w, fresh |-> TRUE]
     \/ redis.owner = w /\ redis' = [redis EXCEPT !.fresh = @ /\ Tending(w)]

\* releaseLease.  Where a socket is single and steps take turns, no attempt is
\* told meanwhile that the lease is ours.
LetsGo(w) ==
  /\ Alive(w)
  /\ \E n : /\ mem' = [mem EXCEPT ![w] = n]
            /\ n.proc \notin {"new", "dead"} /\ ~n.leaseTimer
            /\ OneSocket(mem[w]) /\ TakeTurns(mem[w]) => ~Tends(n)
  /\ redis' = Freed(w)

\* The process ends.
Gone(w) == Alive(w) /\ mem' = [mem EXCEPT ![w] = Blank("dead")] /\ redis' = redis

LeaseStep(w) ==
  Quiet(w) \/ Holds(w) \/ LetsGo(w) \/ Gone(w) \/ Renew(w) \/ LeaseLost(w) \/ Start(w)

LEMMA HoldsSteps ==
  ASSUME TypeInv, Dormant, NEW w \in Worker, NEW a \in AttemptId,
         GetLease(w, a) \/ SetLease(w, a) \/ AnswerLease(w, a)
  PROVE  Quiet(w) \/ Holds(w)
  <1> DEFINE m == mem[w]
             c == m.conn[a]
             g(pc) == [m EXCEPT !.conn = [m.conn EXCEPT ![a] = [c EXCEPT !.pc = pc]]]
  <1>1. Shaped(m) /\ c.pc # "idle" /\ DOMAIN c = {"pc", "out", "me", "wait"}
    BY AwakeMemory DEF GetLease, SetLease, AnswerLease, Shaped
  <1>2. Alive(w) /\ w # None
    BY <1>1, BusyIsAlive, SlotAssumption
  <1>3. ASSUME c.pc # "held", NEW pc, pc # "held", mem' = [mem EXCEPT ![w] = g(pc)], redis' = redis
        PROVE  Quiet(w)
    <2>1. Keeps(m, g(pc))
      BY <1>1, <1>3 DEF Keeps, Shaped, Entry, Awaits
    <2> HIDE DEF g
    <2> QED
      BY <1>2, <1>3, <2>1, KeepsIsQuiet
  <1>4. g("held").proc = m.proc /\ Tends(g("held"))
    BY <1>1 DEF Shaped, Entry, Tends, Awaits
  <1>5. CASE GetLease(w, a)
    <2>1. mem' = [mem EXCEPT ![w] = g(Found(w))]
      BY <1>5 DEF GetLease
    <2>2. redis' = [redis EXCEPT !.fresh = @ /\ (redis.owner = w => Tending(w))]
      BY <1>5 DEF GetLease
    <2>3. CASE redis.owner = w
      <3>0. Found(w) = "held"
        BY <1>2, <2>3 DEF Found
      <3>1. mem' = [mem EXCEPT ![w] = g("held")]
        BY <2>1, <3>0
      <3>2. redis' = [redis EXCEPT !.fresh = @ /\ Tending(w)]
        BY <2>2, <2>3
      <3> HIDE DEF g
      <3> QED
        BY <1>2, <1>4, <2>3, <3>1, <3>2 DEF Holds
    <2>4. CASE redis.owner # w
      <3>1. c.pc # "held"
        BY <1>5 DEF GetLease
      <3>2. redis' = redis
        BY <2>2, <2>4 DEF TypeInv, TypeOK
      <3>3. Found(w) # "held"
        <4>1. CASE redis.owner = None
          BY <2>4, <4>1 DEF Found
        <4>2. CASE redis.owner # None
          BY <2>4, <4>2 DEF Found
        <4> QED
          BY <4>1, <4>2
      <3> HIDE DEF g
      <3> QED
        BY <1>3, <2>1, <3>1, <3>2, <3>3
    <2> QED
      BY <2>3, <2>4
  <1>6. CASE SetLease(w, a)
    <2>1. CASE redis.owner = None
      <3>1. mem' = [mem EXCEPT ![w] = g("held")] /\ redis' = [owner |-> w, fresh |-> TRUE]
        BY <1>6, <2>1 DEF SetLease
      <3> HIDE DEF g
      <3> QED
        BY <1>2, <1>4, <2>1, <3>1 DEF Holds
    <2>2. CASE redis.owner # None
      <3>1. mem' = [mem EXCEPT ![w] = g("busy")] /\ redis' = redis /\ c.pc # "held"
        BY <1>6, <2>2 DEF SetLease
      <3> HIDE DEF g
      <3> QED
        BY <1>3, <3>1
    <2> QED
      BY <2>1, <2>2
  <1>7. CASE AnswerLease(w, a)
    <2>1. CASE c.pc = "held"
      <3> DEFINE n == LeaseHeld(m, a)
      <3>1. mem' = [mem EXCEPT ![w] = n] /\ redis' = redis
        BY <1>7, <2>1 DEF AnswerLease
      <3>2. n.proc = m.proc /\ n.leaseTimer
        BY <1>1 DEF LeaseHeld, Shaped, Entry
      <3>3. Tends(m)
        BY <2>1 DEF Tends, Awaits
      <3> HIDE DEF n
      <3>4. Tends(n) /\ n.proc \notin {"new", "dead"}
        BY <1>2, <3>2 DEF Tends, Alive
      <3> QED
        BY <1>2, <3>1, <3>3, <3>4 DEF Quiet
    <2>2. CASE c.pc # "held"
      <3>1. mem' = [mem EXCEPT ![w] = LeaseBusy(m, a)] /\ redis' = redis
        BY <1>7, <2>2 DEF AnswerLease
      <3>2. Keeps(m, LeaseBusy(m, a))
        BY <1>1, <2>2, HelpersKeep
      <3> QED
        BY <1>2, <3>1, <3>2, KeepsIsQuiet
    <2> QED
      BY <2>1, <2>2
  <1> QED
    BY <1>5, <1>6, <1>7

LEMMA ReleaseStep ==
  ASSUME TypeInv, Dormant, NEW w \in Worker, NEW t \in mem[w].tasks, Release(w, t)
  PROVE  LetsGo(w)
  <1> DEFINE m == mem[w]
             d == Drop(m, t)
             k == [d EXCEPT !.leaseTimer = FALSE]
  <1>1. Shaped(m) /\ Alive(w)
    BY AwakeMemory, BusyIsAlive
  <1>2. Shaped(k) /\ k.proc = m.proc /\ k.leaseTimer = FALSE /\ (Awaits(k) <=> Awaits(m))
    <2>1. Keeps(m, d)
      BY <1>1, HelpersKeep
    <2> HIDE DEF d
    <2> QED
      BY <2>1 DEF Keeps, Shaped, Entry, Awaits
  <1>3. mem' = [mem EXCEPT ![w] = IF t.why = "loggedOut" THEN Connect(k, {}) ELSE k]
    BY DEF Release
  <1> HIDE DEF k
  <1>4. Keeps(k, Connect(k, {}))
    BY <1>2, HelpersKeep
  <1>5. PICK n : /\ mem' = [mem EXCEPT ![w] = n] /\ n.proc = m.proc /\ n.leaseTimer = FALSE
                 /\ Awaits(n) <=> Awaits(m)
    BY <1>2, <1>3, <1>4 DEF Keeps
  <1>6. redis' = Freed(w) /\ t.pc = "release"
    BY DEF Release
  <1>7. TakeTurns(m) => ~Awaits(m)
    BY <1>6 DEF TakeTurns, Chores, Quieted, Attempts, Awaits
  <1> QED
    BY <1>1, <1>5, <1>6, <1>7 DEF LetsGo, Alive, Tends

LEMMA LifeSteps ==
  ASSUME TypeInv, NEW w \in Worker, Life(w)
  PROVE  Quiet(w) \/ LetsGo(w) \/ Gone(w) \/ Start(w)
  <1> DEFINE m == mem[w]
  <1>1. Shaped(m)
    BY AwakeMemory
  <1>2. ASSUME NEW p PROVE /\ [m EXCEPT !.proc = p].proc = p
                           /\ Tends([m EXCEPT !.proc = p]) <=> Tends(m)
                           /\ Shaped([m EXCEPT !.proc = p])
    BY <1>1 DEF Shaped, Entry, Tends, Awaits
  <1>3. CASE Start(w)
    BY <1>3
  <1>4. CASE Bootstrap(w)
    <2> DEFINE k == [m EXCEPT !.proc = "up"]
    <2>1. k.proc = "up" /\ (Tends(k) <=> Tends(m)) /\ Shaped(k)
      BY <1>2
    <2>2. mem' = [mem EXCEPT ![w] = Connect(k, {})] \/ mem' = [mem EXCEPT ![w] = k]
      BY <1>4 DEF Bootstrap
    <2> HIDE DEF k
    <2>3. Keeps(k, Connect(k, {}))
      BY <2>1, HelpersKeep
    <2>4. \E n : mem' = [mem EXCEPT ![w] = n] /\ n.proc = "up" /\ (Tends(n) <=> Tends(m))
      BY <2>1, <2>2, <2>3 DEF Keeps, Tends
    <2> QED
      BY <1>4, <2>4 DEF Bootstrap, Quiet, Alive
  <1>5. CASE Shutdown(w)
    <2>1. mem' = [mem EXCEPT ![w] = [m EXCEPT !.proc = "draining"]] /\ redis' = redis
      BY <1>5 DEF Shutdown
    <2> QED
      BY <1>2, <1>5, <2>1 DEF Shutdown, Quiet, Alive
  <1>6. CASE Close(w)
    <2>1. Alive(w)
      BY <1>6 DEF Close, Alive
    <2>2. CASE m.sock = None
      <3>1. mem' = [mem EXCEPT ![w] = [m EXCEPT !.proc = "closing"]] /\ redis' = redis
        BY <1>6, <2>2 DEF Close
      <3> QED
        BY <1>2, <2>1, <3>1 DEF Quiet
    <2>3. CASE m.sock # None
      <3> DEFINE n == [m EXCEPT !.proc = "closing", !.manualStop = TRUE,
                                !.sk[mem[w].sock].ph = "ending", !.leaseTimer = FALSE]
      <3>1. mem' = [mem EXCEPT ![w] = n] /\ redis' = Freed(w)
        BY <1>6, <2>3 DEF Close
      <3>2. n.proc = "closing" /\ n.leaseTimer = FALSE /\ n.conn = m.conn
        BY <1>1 DEF Shaped, Entry
      <3> HIDE DEF n
      <3>3. OneSocket(m) => ~Tends(n)
        BY <2>3, <3>2 DEF OneSocket, Attempts, Tends, Awaits
      <3> QED
        BY <2>1, <3>1, <3>2, <3>3 DEF LetsGo
    <2> QED
      BY <2>2, <2>3
  <1>7. CASE Exit(w)
    BY <1>7 DEF Exit, Gone, Alive
  <1>8. CASE Crash(w)
    BY <1>8 DEF Crash, Gone
  <1> QED
    BY <1>3, <1>4, <1>5, <1>6, <1>7, <1>8 DEF Life

LEMMA StepKinds ==
  ASSUME TypeInv, Dormant, [Next]_vars
  PROVE  \/ \E w \in Worker : LeaseStep(w)
         \/ Lapse \/ Stall
         \/ UNCHANGED <<mem, redis>>
  <1>1. CASE UNCHANGED vars
    BY <1>1 DEF vars
  <1>2. CASE Lapse \/ Stall
    BY <1>2
  <1>3. CASE \E op \in Ops : Request(op)
    BY <1>3 DEF Request
  <1>4. ASSUME NEW w \in Worker,
               \/ Connecting(w) \/ Timers(w) \/ Events(w) \/ Commands(w) \/ Life(w)
               \/ EnsureConnected(w) \/ \E a \in AttemptId : ConnectFails(w, a)
               \/ \E t \in mem[w].tasks : Step(w, t) \/ CommandFails(w, t)
        PROVE  LeaseStep(w) \/ UNCHANGED <<mem, redis>>
    <2>1. CASE Connecting(w)
      BY <2>1, QuietConnecting, HoldsSteps DEF Connecting, LeaseStep
    <2>2. CASE Timers(w) \/ EnsureConnected(w)
      BY <2>2, QuietTimers DEF Timers, LeaseStep
    <2>3. CASE Events(w)
      BY <2>3, QuietEvents DEF LeaseStep
    <2>4. CASE Commands(w)
      BY <2>4, QuietCommands DEF LeaseStep
    <2>5. CASE Life(w)
      BY <2>5, LifeSteps DEF LeaseStep
    <2>6. CASE \E a \in AttemptId : ConnectFails(w, a)
      BY <2>6, QuietConnecting DEF LeaseStep
    <2>7. CASE \E t \in mem[w].tasks : Step(w, t) \/ CommandFails(w, t)
      BY <2>7, QuietSteps, ReleaseStep DEF LeaseStep
    <2> QED
      BY <1>4, <2>1, <2>2, <2>3, <2>4, <2>5, <2>6, <2>7
  <1> QED
    BY <1>1, <1>2, <1>3, <1>4 DEF Next
LEMMA HeldInit == Init => HeldInv
  <1> SUFFICES ASSUME Init PROVE HeldInv
    OBVIOUS
  <1>1. \A w \in Worker : mem[w] = Blank("new") /\ mem[w].proc = "new"
    BY DEF Init, Blank
  <1>2. \A w \in Worker : redis.owner # w
    BY SlotAssumption DEF Init
  <1> QED
    BY <1>1, <1>2 DEF HeldInv, Dormant, NotYet, HeldLeaseIsRenewed

\* What a step of w does to the memory of one process v.
LEMMA OneProcess ==
  ASSUME TypeInv, NEW w \in Worker, NEW n, mem' = [mem EXCEPT ![w] = n], NEW v \in Worker
  PROVE  mem'[v] = IF v = w THEN n ELSE mem[v]
  BY DEF TypeInv, TypeOK

\* HeldInv, one process at a time.
Held(v) ==
  /\ Alive(v) \/ mem[v] = Blank(mem[v].proc)
  /\ ~Pinned => /\ mem[v].proc = "new" => redis.owner # v
                /\ redis.owner = v /\ Alive(v) => Tends(mem[v])

LEMMA HeldStep ==
  ASSUME TypeInv, HeldInv, [Next]_vars
  PROVE  HeldInv'
  <1> SUFFICES ASSUME NEW v \in Worker PROVE Held(v)'
    BY DEF HeldInv, Dormant, NotYet, HeldLeaseIsRenewed, Held, Tending, Renewing, Tends, Awaits, Alive
  <1>1. Held(v)
    BY TendingIs DEF HeldInv, Dormant, NotYet, HeldLeaseIsRenewed, Held
  <1>2. v # None
    BY SlotAssumption
  <1>3. CASE UNCHANGED <<mem, redis>>
    BY <1>1, <1>3 DEF Held, Alive
  <1>4. CASE Lapse \/ Stall
    <2>1. mem' = mem /\ redis'.owner = None
      BY <1>4 DEF Lapse, Stall
    <2> QED
      BY <1>1, <1>2, <2>1 DEF Held, Alive
  <1>5. ASSUME NEW w \in Worker, LeaseStep(w)
        PROVE  Held(v)'
    <2>1. CASE Quiet(w)
      <3>1. PICK n : /\ mem' = [mem EXCEPT ![w] = n]
                     /\ n.proc \notin {"new", "dead"} /\ (Tends(n) <=> Tends(mem[w]))
        BY <2>1 DEF Quiet
      <3>2. mem'[v] = IF v = w THEN n ELSE mem[v]
        BY <3>1, OneProcess
      <3>3. Alive(w) /\ redis' = redis
        BY <2>1 DEF Quiet
      <3> QED
        BY <1>1, <3>1, <3>2, <3>3 DEF Held, Alive
    <2>2. CASE Holds(w)
      <3>1. PICK n : mem' = [mem EXCEPT ![w] = n] /\ n.proc = mem[w].proc /\ Tends(n)
        BY <2>2 DEF Holds
      <3>2. mem'[v] = IF v = w THEN n ELSE mem[v]
        BY <3>1, OneProcess
      <3>3. Alive(w) /\ redis'.owner = w
        BY <2>2 DEF Holds, TypeInv, TypeOK
      <3> QED
        BY <1>1, <3>1, <3>2, <3>3 DEF Held, Alive
    <2>3. CASE LetsGo(w)
      <3>1. PICK n : /\ mem' = [mem EXCEPT ![w] = n]
                     /\ n.proc \notin {"new", "dead"} /\ ~n.leaseTimer
        BY <2>3 DEF LetsGo
      <3>2. mem'[v] = IF v = w THEN n ELSE mem[v]
        BY <3>1, OneProcess
      <3>3. redis'.owner # w /\ (redis'.owner = v => redis.owner = v)
        BY <1>2, <2>3, SlotAssumption DEF LetsGo, Freed
      <3> QED
        BY <1>1, <3>1, <3>2, <3>3 DEF Held, Alive
    <2>4. CASE Gone(w)
      <3>1. mem'[v] = IF v = w THEN Blank("dead") ELSE mem[v]
        BY <2>4, OneProcess DEF Gone
      <3>2. Blank("dead").proc = "dead" /\ redis' = redis
        BY <2>4 DEF Blank, Gone
      <3> QED
        BY <1>1, <3>1, <3>2 DEF Held, Alive
    <2>5. CASE Renew(w)
      <3>1. mem' = mem /\ redis'.owner = redis.owner
        BY <2>5 DEF Renew, TypeInv, TypeOK
      <3> QED
        BY <1>1, <3>1 DEF Held, Alive
    <2>6. CASE LeaseLost(w)
      <3>1. redis.owner # w /\ redis' = redis /\ Alive(w)
        BY <2>6 DEF LeaseLost, Renewing
      <3>2. PICK n : mem' = [mem EXCEPT ![w] = n] /\ n.proc = mem[w].proc
        <4> DEFINE k == [mem[w] EXCEPT !.leaseLost = TRUE, !.leaseTimer = FALSE]
        <4>1. Shaped(k) /\ k.proc = mem[w].proc
          BY AwakeMemory DEF Shaped, Entry
        <4>2. mem' = [mem EXCEPT ![w] = mem[w]] \/ mem' = [mem EXCEPT ![w] = EndSocket(k)]
          BY <2>6 DEF LeaseLost
        <4> HIDE DEF k
        <4>3. Keeps(k, EndSocket(k))
          BY <4>1, HelpersKeep
        <4> QED
          BY <4>1, <4>2, <4>3 DEF Keeps
      <3>3. mem'[v] = IF v = w THEN n ELSE mem[v]
        BY <3>2, OneProcess
      <3> QED
        BY <1>1, <3>1, <3>2, <3>3 DEF Held, Alive
    <2>7. CASE Start(w)
      <3>1. /\ mem' = [mem EXCEPT ![w] = Blank("booting")] /\ redis' = redis
            /\ ~Pinned => mem[w].proc = "new"
        BY <2>7 DEF Start
      <3>2. mem'[v] = IF v = w THEN Blank("booting") ELSE mem[v]
        BY <3>1, OneProcess
      <3>3. Blank("booting").proc = "booting"
        BY DEF Blank
      <3> QED
        BY <1>1, <3>1, <3>2, <3>3 DEF Held, Alive
    <2> QED
      BY <1>5, <2>1, <2>2, <2>3, <2>4, <2>5, <2>6, <2>7 DEF LeaseStep
  <1>6. Dormant
    BY DEF HeldInv
  <1> QED
    BY <1>3, <1>4, <1>5, <1>6, StepKinds

\* As long as no process id is used twice, a process never sits on the lease
\* of a line without renewing it, whatever commands, closes, failures and
\* crashes come its way.
THEOREM HeldLease ==
  ASSUME ~Pinned
  PROVE  Spec => []HeldLeaseIsRenewed
  <1> DEFINE Inv == TypeInv /\ HeldInv
  <1>1. Init => Inv
    BY TypeInit, HeldInit
  <1>2. Inv /\ [Next]_vars => Inv'
    BY TypeStep, HeldStep
  <1>3. Inv => HeldLeaseIsRenewed
    BY DEF HeldInv
  <1> QED
    BY <1>1, <1>2, <1>3, PTL DEF Spec

-----------------------------------------------------------------------------
(***************************************************************************)
(* The kinds of steps of a process that concern its sockets: from memory m *)
(* to memory n.                                                            *)
(***************************************************************************)
AttemptGoes(m, n, a, pc) == \A b \in AttemptId : n.conn[b].pc = IF b = a THEN pc ELSE m.conn[b].pc
SocketGoes(m, n, s, ph) == \A o \in SockId : n.sk[o].ph = IF o = s THEN ph ELSE m.sk[o].ph
Connects(m, n) ==
  /\ SameSockets(m, n) /\ SameTimers(m, n) /\ n.tasks = m.tasks
  /\ \/ SameAttempts(m, n) /\ (m.sock # None \/ Attempts(m) # {})
     \/ m.sock = None /\ Attempts(m) = {} /\ \E a \in AttemptId : \A b \in AttemptId :
                                               n.conn[b].pc = IF b = a THEN "read" ELSE "idle"

Dialing == {"creds", "state", "dial"}

AttemptGoesOn(m, n) == \E a \in AttemptId, pc \in ConnPc :
  /\ m.conn[a].pc # "idle" /\ AttemptGoes(m, n, a, pc) /\ (pc \in Dialing => m.conn[a].pc \in Dialing)
  /\ SameSockets(m, n) /\ SameTimers(m, n) /\ n.tasks = m.tasks

AttemptGivesUp(m, n) == \E a \in AttemptId :
  /\ m.conn[a].pc # "idle" /\ AttemptGoes(m, n, a, "idle") /\ SameSockets(m, n)
  /\ \/ n.leaseTimer = m.leaseTimer /\ n.armed = m.armed /\ n.proc = m.proc /\ n.tasks = m.tasks
     \/ SameTimers(m, n) /\ \E x : n.tasks = m.tasks \cup {x} /\ x.why = "lost"

AttemptHasLease(m, n) == \E a \in AttemptId :
  /\ m.conn[a].pc # "idle" /\ AttemptGoes(m, n, a, "creds")
  /\ SameSockets(m, n) /\ n.leaseTimer /\ ~n.leaseRetry /\ n.armed = m.armed /\ n.proc = m.proc
  /\ n.tasks = m.tasks

AttemptDials(m, n) == \E a \in AttemptId, s \in SockId :
  /\ m.conn[a].pc = "dial" /\ AttemptGoes(m, n, a, "idle")
  /\ SocketGoes(m, n, s, "dial") /\ n.sock = s
  /\ SameTimers(m, n) /\ n.tasks = m.tasks

\* A timer, a retry, the bootstrap or a message calls connect().
Called(m, n) == \E k :
  /\ SameSockets(m, k) /\ SameAttempts(m, k) /\ k.tasks = m.tasks /\ k.leaseTimer = m.leaseTimer
  /\ \/ m.armed > 0 /\ k.armed = m.armed - 1 /\ k.leaseRetry = m.leaseRetry /\ k.proc = m.proc /\ Connects(k, n)
     \/ m.leaseRetry /\ ~k.leaseRetry /\ k.armed = m.armed /\ k.proc = m.proc /\ Connects(k, n)
     \/ /\ m.proc = "booting" /\ k.proc = "up" /\ k.armed = m.armed /\ k.leaseRetry = m.leaseRetry
        /\ n = k \/ Connects(k, n)
     \/ Sends /\ k = m /\ Connects(k, n)

SocketReports(m, n) == \E s \in SockId, ph \in {"dial", "qr", "open"} :
  /\ Live(m, s) /\ SocketGoes(m, n, s, ph) /\ n.sock = m.sock
  /\ SameAttempts(m, n) /\ SameTimers(m, n)
  /\ \/ n.tasks = m.tasks
     \/ \E x : n.tasks = m.tasks \cup {x} /\ x.why \in {"qr", "open"} /\ x.pc = "write"

SocketCloses(m, n) == \E s \in SockId :
  /\ m.sk[s].ph # "free" /\ SocketGoes(m, n, s, "free") /\ n.sock = None
  /\ SameAttempts(m, n) /\ SameTimers(m, n)
  /\ \E x : n.tasks = m.tasks \cup {x} /\ x.why \notin {"qr", "open"}

ChoreGoesOn(m, n) == \E t \in m.tasks :
  /\ n.sock = m.sock /\ SameAttempts(m, n) /\ SameTimers(m, n)
  /\ \A o \in SockId : n.sk[o].ph = m.sk[o].ph \/ (Live(m, o) /\ n.sk[o].ph = "unlinking")
  /\ \/ n.tasks = m.tasks \ {t}
     \/ /\ t.pc # "write" \/ t.why \notin {"qr", "open"}
        /\ \E x : n.tasks = (m.tasks \ {t}) \cup {x} /\ (x.why = t.why \/ x.why \notin {"qr", "open"})

ChoreArms(m, n) == \E t \in m.tasks :
  /\ t.pc = "backoff" /\ n.tasks = m.tasks \ {t} /\ n.armed = m.armed + 1
  /\ SameSockets(m, n) /\ SameAttempts(m, n)
  /\ n.leaseRetry = m.leaseRetry /\ n.leaseTimer = m.leaseTimer /\ n.proc = m.proc

ChoreReleases(m, n) == \E t \in m.tasks : \E k :
  /\ t.pc = "release" /\ k.tasks = m.tasks \ {t} /\ ~k.leaseTimer
  /\ SameSockets(m, k) /\ SameAttempts(m, k)
  /\ k.armed = m.armed /\ k.leaseRetry = m.leaseRetry /\ k.proc = m.proc
  /\ n = k \/ Connects(k, n)

ProcessEnds(m, n) ==
  /\ n.proc # "booting" /\ SameAttempts(m, n) /\ n.armed = m.armed /\ n.leaseRetry = m.leaseRetry
  /\ n.tasks = m.tasks /\ n.sock = m.sock
  /\ \/ n.sk = m.sk /\ n.leaseTimer = m.leaseTimer
     \/ m.sock # None /\ SocketGoes(m, n, m.sock, "ending")

Orderly(m, n) ==
  /\ OneSocket(m) => OneSocket(n)
  /\ ~Sends /\ OneSocket(m) /\ TakeTurns(m) => TakeTurns(n)

LEMMA AttemptsOrderly ==
  ASSUME NEW m, NEW n,
         AttemptGoesOn(m, n) \/ AttemptGivesUp(m, n) \/ AttemptHasLease(m, n) \/ AttemptDials(m, n)
  PROVE  Orderly(m, n)
  <1>1. CASE AttemptGoesOn(m, n)
    BY <1>1, SMTT(30) DEF AttemptGoesOn, Orderly, OneSocket, TakeTurns, Quieted, Attempts, AttemptGoes, SameSockets, SameTimers,
       Live, Dialing, Chores
  <1>2. CASE AttemptGivesUp(m, n)
    <2>1. PICK a \in AttemptId :
            /\ m.conn[a].pc # "idle" /\ AttemptGoes(m, n, a, "idle") /\ SameSockets(m, n)
            /\ \/ n.leaseTimer = m.leaseTimer /\ n.armed = m.armed /\ n.proc = m.proc /\ n.tasks = m.tasks
               \/ SameTimers(m, n) /\ \E x : n.tasks = m.tasks \cup {x} /\ x.why = "lost"
      BY <1>2 DEF AttemptGivesUp
    <2>2. OneSocket(m) => OneSocket(n) /\ Attempts(n) = {} /\ m.sock = None
      BY <2>1 DEF OneSocket, Attempts, AttemptGoes, SameSockets
    <2>3. ASSUME ~Sends, OneSocket(m), TakeTurns(m)
          PROVE  TakeTurns(n)
      <3>a. Attempts(m) # {} /\ Attempts(n) = {} /\ n.sock = None /\ n.sk = m.sk
        BY <2>1, <2>2, <2>3 DEF Attempts, SameSockets
      <3>b. Chores(m) = {} /\ m.armed = 0 /\ m.proc # "booting" /\ ~m.leaseRetry
        BY <2>3, <3>a DEF TakeTurns, Quieted
      <3>c. \A s \in SockId : ~Live(n, s)
        BY <2>2, <2>3, <3>a, SlotAssumption DEF OneSocket, Live
      <3>d. \A b \in AttemptId : n.conn[b].pc = "idle"
        BY <3>a DEF Attempts
      <3>1. /\ Chores(m) = {} /\ m.armed = 0 /\ m.proc # "booting" /\ ~m.leaseRetry
            /\ \A s \in SockId : ~Live(n, s)
            /\ \A b \in AttemptId : n.conn[b].pc = "idle"
        BY <3>b, <3>c, <3>d
      <3>2. CASE n.tasks = m.tasks
        BY <2>1, <2>2, <2>3, <3>1, <3>2 DEF TakeTurns, Quieted, Chores, SameSockets, SameTimers
      <3>3. ASSUME NEW x, n.tasks = m.tasks \cup {x}, x.why = "lost", SameTimers(m, n)
            PROVE  TakeTurns(n)
        BY <2>1, <2>2, <2>3, <3>1, <3>3 DEF TakeTurns, Quieted, Chores, SameSockets, SameTimers
      <3> QED
        BY <2>1, <3>2, <3>3
    <2> QED
      BY <2>2, <2>3 DEF Orderly
  <1>3. CASE AttemptHasLease(m, n)
    BY <1>3 DEF AttemptHasLease, Orderly, OneSocket, TakeTurns, Quieted, Attempts, AttemptGoes, SameSockets, SameTimers,
       Live, Chores
  <1>4. CASE AttemptDials(m, n)
    BY <1>4, SlotAssumption DEF AttemptDials, Orderly, OneSocket, TakeTurns, Quieted, Attempts, AttemptGoes, SocketGoes,
       SameTimers, Live, Chores
  <1> QED
    BY <1>1, <1>2, <1>3, <1>4

LEMMA ConnectsOrderly ==
  ASSUME NEW m, NEW n, Connects(m, n), OneSocket(m)
  PROVE  /\ OneSocket(n)
         /\ m.proc # "booting" /\ Chores(m) = {} /\ m.armed = 0 /\ ~m.leaseRetry /\ TakeTurns(m) => TakeTurns(n)
  BY DEF Connects, OneSocket, TakeTurns, Quieted, Attempts, SameSockets, SameTimers, SameAttempts, Live, Chores

LEMMA CalledOrderly ==
  ASSUME NEW m, NEW n, Called(m, n)
  PROVE  Orderly(m, n)
  <1>1. PICK k :
          /\ SameSockets(m, k) /\ SameAttempts(m, k) /\ k.tasks = m.tasks /\ k.leaseTimer = m.leaseTimer
          /\ \/ /\ m.armed > 0 /\ k.armed = m.armed - 1 /\ k.leaseRetry = m.leaseRetry /\ k.proc = m.proc
                /\ Connects(k, n)
             \/ m.leaseRetry /\ ~k.leaseRetry /\ k.armed = m.armed /\ k.proc = m.proc /\ Connects(k, n)
             \/ /\ m.proc = "booting" /\ k.proc = "up" /\ k.armed = m.armed /\ k.leaseRetry = m.leaseRetry
                /\ n = k \/ Connects(k, n)
             \/ Sends /\ k = m /\ Connects(k, n)
    BY DEF Called
  <1>2. OneSocket(m) => OneSocket(k)
    BY <1>1 DEF OneSocket, Attempts, SameSockets, SameAttempts
  <1>3. ASSUME ~Sends, OneSocket(m), TakeTurns(m)
        PROVE  TakeTurns(k) /\ k.proc # "booting" /\ Chores(k) = {} /\ k.armed = 0 /\ ~k.leaseRetry
    BY <1>1, <1>3 DEF TakeTurns, Quieted, Attempts, SameSockets, SameAttempts, Live, Chores
  <1> QED
    BY <1>1, <1>2, <1>3, ConnectsOrderly DEF Orderly

LEMMA SocketsOrderly ==
  ASSUME NEW m, NEW n, SocketReports(m, n) \/ SocketCloses(m, n)
  PROVE  Orderly(m, n)
  <1>1. CASE SocketReports(m, n)
    <2>1. PICK s \in SockId, ph \in {"dial", "qr", "open"} :
            /\ Live(m, s) /\ SocketGoes(m, n, s, ph) /\ n.sock = m.sock
            /\ SameAttempts(m, n) /\ SameTimers(m, n)
            /\ \/ n.tasks = m.tasks
               \/ \E x : n.tasks = m.tasks \cup {x} /\ x.why \in {"qr", "open"} /\ x.pc = "write"
      BY <1>1 DEF SocketReports
    <2>2. Attempts(n) = Attempts(m)
      BY <2>1 DEF SameAttempts, Attempts
    <2>3. OneSocket(m) => OneSocket(n)
      BY <2>1, <2>2 DEF OneSocket, SocketGoes, Live
    <2>4. Chores(n) = Chores(m)
      BY <2>1 DEF Chores
    <2>5. Quieted(m) => Quieted(n)
      BY <2>1, <2>2 DEF Quieted, SameTimers
    <2>6. ASSUME TakeTurns(m)
          PROVE  TakeTurns(n)
      <3>1. \A t \in n.tasks : t.why \in {"qr", "open"} => t.pc = "write"
        BY <2>1, <2>6 DEF TakeTurns
      <3>2. \A o \in SockId : Live(n, o) => Live(m, o)
        BY <2>1 DEF SocketGoes, Live
      <3>3. \A o \in SockId : Live(n, o) => n.leaseTimer
        BY <2>1, <2>6, <3>2 DEF TakeTurns, SameTimers
      <3>4. \A a \in AttemptId : n.conn[a].pc \in {"creds", "state", "dial"} => n.leaseTimer
        BY <2>1, <2>6 DEF TakeTurns, SameAttempts, SameTimers
      <3> QED
        BY <2>1, <2>2, <2>4, <2>5, <2>6, <3>1, <3>3, <3>4 DEF TakeTurns, SameTimers
    <2> QED
      BY <2>3, <2>6 DEF Orderly
  <1>2. CASE SocketCloses(m, n)
    <2>0. PICK s \in SockId :
            /\ m.sk[s].ph # "free" /\ SocketGoes(m, n, s, "free") /\ n.sock = None
            /\ SameAttempts(m, n) /\ SameTimers(m, n)
            /\ \E x : n.tasks = m.tasks \cup {x} /\ x.why \notin {"qr", "open"}
      BY <1>2 DEF SocketCloses
    <2>1. PICK x :
            /\ m.sk[s].ph # "free" /\ SocketGoes(m, n, s, "free") /\ n.sock = None
            /\ SameAttempts(m, n) /\ SameTimers(m, n)
            /\ n.tasks = m.tasks \cup {x} /\ x.why \notin {"qr", "open"}
      BY <2>0
    <2>2. s # None
      BY SlotAssumption
    <2>3. OneSocket(m) => /\ OneSocket(n) /\ m.sock = s /\ Attempts(m) = {} /\ Attempts(n) = {}
                          /\ \A o \in SockId : ~Live(n, o)
      BY <2>1, <2>2 DEF OneSocket, Attempts, SocketGoes, SameAttempts, Live
    <2>4. ASSUME ~Sends, OneSocket(m), TakeTurns(m)
          PROVE  TakeTurns(n)
      <3>1. Chores(m) = {} /\ m.armed = 0 /\ ~m.leaseRetry /\ m.proc # "booting"
        BY <2>2, <2>3, <2>4 DEF TakeTurns, Quieted
      <3>2. Chores(n) = {x}
        BY <2>1, <3>1 DEF Chores
      <3>3. \A t \in n.tasks : t.why \in {"qr", "open"} => t.pc = "write"
        BY <2>1, <2>4 DEF TakeTurns
      <3>4. Quieted(n)
        BY <2>1, <2>3, <2>4, <3>1 DEF Quieted, SameTimers
      <3> QED
        BY <2>1, <2>3, <2>4, <3>1, <3>2, <3>3, <3>4 DEF TakeTurns, Quieted, SameAttempts, SameTimers, Attempts
    <2> QED
      BY <2>3, <2>4 DEF Orderly
  <1> QED
    BY <1>1, <1>2

LEMMA ChoresOrderly ==
  ASSUME NEW m, NEW n, ChoreGoesOn(m, n) \/ ChoreArms(m, n) \/ ChoreReleases(m, n)
  PROVE  Orderly(m, n)
  <1>1. CASE ChoreGoesOn(m, n)
    BY <1>1, SMTT(30) DEF ChoreGoesOn, Orderly, OneSocket, TakeTurns, Quieted, Attempts, SameAttempts, SameTimers, Live, Chores
  <1>2. CASE ChoreArms(m, n)
    BY <1>2 DEF ChoreArms, Orderly, OneSocket, TakeTurns, Quieted, Attempts, SameAttempts, SameSockets, Live, Chores
  <1>3. CASE ChoreReleases(m, n)
    <2>0. PICK t \in m.tasks : \E k :
            /\ t.pc = "release" /\ k.tasks = m.tasks \ {t} /\ ~k.leaseTimer
            /\ SameSockets(m, k) /\ SameAttempts(m, k)
            /\ k.armed = m.armed /\ k.leaseRetry = m.leaseRetry /\ k.proc = m.proc
            /\ n = k \/ Connects(k, n)
      BY <1>3 DEF ChoreReleases
    <2>1. PICK k :
            /\ t.pc = "release" /\ k.tasks = m.tasks \ {t} /\ ~k.leaseTimer
            /\ SameSockets(m, k) /\ SameAttempts(m, k)
            /\ k.armed = m.armed /\ k.leaseRetry = m.leaseRetry /\ k.proc = m.proc
            /\ n = k \/ Connects(k, n)
      BY <2>0
    <2>2. OneSocket(m) => OneSocket(k)
      BY <2>1 DEF OneSocket, Attempts, SameSockets, SameAttempts
    <2>3. ASSUME ~Sends, OneSocket(m), TakeTurns(m)
          PROVE  TakeTurns(k) /\ k.proc # "booting" /\ Chores(k) = {} /\ k.armed = 0 /\ ~k.leaseRetry
      <3>1. t \in Chores(m) /\ Quieted(m) /\ m.proc # "booting"
        BY <2>1, <2>3 DEF TakeTurns, Chores
      <3>2. Chores(k) = {}
        BY <2>1, <2>3, <3>1 DEF TakeTurns, Chores
      <3>a. Quieted(k) /\ \A a \in AttemptId : k.conn[a].pc = "idle"
        BY <2>1, <3>1 DEF Quieted, Attempts, SameSockets, SameAttempts
      <3>b. \A s \in SockId : ~Live(k, s)
        BY <2>2, <2>3, <3>a, SlotAssumption DEF Quieted, OneSocket, Live
      <3>3. Quieted(k) /\ (\A s \in SockId : ~Live(k, s)) /\ \A a \in AttemptId : k.conn[a].pc = "idle"
        BY <3>a, <3>b
      <3> QED
        BY <2>1, <2>3, <3>1, <3>2, <3>3 DEF TakeTurns, Quieted
    <2> QED
      BY <2>1, <2>2, <2>3, ConnectsOrderly DEF Orderly
  <1> QED
    BY <1>1, <1>2, <1>3

LEMMA EndsOrderly ==
  ASSUME NEW m, NEW n, ProcessEnds(m, n)
  PROVE  Orderly(m, n)
  BY DEF ProcessEnds, Orderly, OneSocket, TakeTurns, Quieted, Attempts, SameAttempts, SocketGoes, Live, Chores

LEMMA BlankOrderly ==
  ASSUME NEW m, NEW p \in Proc
  PROVE  Orderly(m, Blank(p))
  BY DEF Orderly, OneSocket, TakeTurns, Quieted, Attempts, Live, Chores, Blank, Unused, Idle
-----------------------------------------------------------------------------
(***************************************************************************)
(* Every step of a process is of one of these kinds.                       *)
(***************************************************************************)
Orders(w) == \E n : mem' = [mem EXCEPT ![w] = n] /\ Orderly(mem[w], n)

LEMMA ShapedMemory ==
  ASSUME TypeInv, NEW w \in Worker
  PROVE  Shaped(mem[w])
  BY MemoryShaped DEF TypeInv, TypeOK

\* One attempt changes, and nothing else that counts.
LEMMA SetConnDoes ==
  ASSUME NEW m, Shaped(m), NEW a \in AttemptId, NEW d
  PROVE  LET n == [m EXCEPT !.conn = [m.conn EXCEPT ![a] = d]]
         IN  SameSockets(m, n) /\ SameTimers(m, n) /\ n.tasks = m.tasks /\ AttemptGoes(m, n, a, d.pc)
  BY DEF Shaped, Entry, SameSockets, SameTimers, AttemptGoes

LEMMA SetPcDoes ==
  ASSUME NEW m, Shaped(m), NEW a \in AttemptId, NEW pc \in ConnPc, m.conn[a].pc # "idle",
         pc \in Dialing => m.conn[a].pc \in Dialing,
         NEW d, d.pc = pc, NEW n, n = [m EXCEPT !.conn = [m.conn EXCEPT ![a] = d]]
  PROVE  Orderly(m, n)
  <1>1. AttemptGoesOn(m, n)
    BY SetConnDoes DEF AttemptGoesOn
  <1> QED
    BY <1>1, AttemptsOrderly

LEMMA LeaseOrders ==
  ASSUME NEW m, Shaped(m), NEW a \in AttemptId, m.conn[a].pc # "idle"
  PROVE  Orderly(m, LeaseBusy(m, a)) /\ Orderly(m, LeaseHeld(m, a))
  <1>1. AttemptGivesUp(m, LeaseBusy(m, a))
    <2> DEFINE n == LeaseBusy(m, a)
    <2>1. /\ SameSockets(m, n) /\ n.tasks = m.tasks /\ n.leaseTimer = m.leaseTimer
          /\ n.armed = m.armed /\ n.proc = m.proc /\ AttemptGoes(m, n, a, "idle")
      BY DEF LeaseBusy, Shaped, Entry, SameSockets, AttemptGoes, Idle
    <2> QED
      BY <2>1 DEF AttemptGivesUp
  <1>2. AttemptHasLease(m, LeaseHeld(m, a))
    <2> DEFINE n == LeaseHeld(m, a)
    <2>1. /\ SameSockets(m, n) /\ n.tasks = m.tasks /\ n.leaseTimer /\ ~n.leaseRetry
          /\ n.armed = m.armed /\ n.proc = m.proc /\ AttemptGoes(m, n, a, "creds")
      BY DEF LeaseHeld, Shaped, Entry, SameSockets, AttemptGoes
    <2> QED
      BY <2>1 DEF AttemptHasLease
  <1> QED
    BY <1>1, <1>2, AttemptsOrderly

LEMMA ConnectingOrders ==
  ASSUME TypeInv, NEW w \in Worker, NEW a \in AttemptId,
         \/ ReadInstance(w, a) \/ GetLease(w, a) \/ SetLease(w, a) \/ AnswerLease(w, a) \/ LoadCreds(w, a)
         \/ SetConnecting(w, a) \/ Dial(w, a) \/ ConnectFails(w, a)
  PROVE  Orders(w)
  <1> DEFINE m == mem[w]
             c == m.conn[a]
  <1>1. /\ Shaped(m) /\ m.conn[a].pc # "idle" /\ mem \in [Worker -> Memory]
        /\ DOMAIN c = {"pc", "out", "me", "wait"}
    BY ShapedMemory DEF TypeInv, TypeOK, Shaped, ReadInstance, GetLease, SetLease, AnswerLease, LoadCreds, SetConnecting, Dial,
       ConnectFails
  <1>2. ASSUME NEW d, mem' = [mem EXCEPT ![w] = [m EXCEPT !.conn = [m.conn EXCEPT ![a] = d]]],
               d.pc \in ConnPc, d.pc \in Dialing => c.pc \in Dialing
        PROVE  Orders(w)
    BY <1>1, <1>2, SetPcDoes DEF Orders
  <1>3. Orderly(m, LeaseBusy(m, a)) /\ Orderly(m, LeaseHeld(m, a))
    BY <1>1, LeaseOrders
  <1>4. CASE ReadInstance(w, a)
    <2> DEFINE d == IF db.auto THEN [c EXCEPT !.pc = "lease", !.out = (db.status = "LOGGED_OUT")]
                    ELSE Idle
    <2>1. d.pc \in ConnPc /\ d.pc \notin Dialing
      BY <1>1 DEF ConnPc, Dialing, Idle
    <2>2. mem' = [mem EXCEPT ![w] = [m EXCEPT !.conn = [m.conn EXCEPT ![a] = d]]]
      BY <1>4 DEF ReadInstance
    <2> QED
      BY <1>2, <2>1, <2>2
  <1>g. ASSUME NEW pc, pc \in ConnPc \ Dialing,
               mem' = [mem EXCEPT ![w] = [m EXCEPT !.conn = [m.conn EXCEPT ![a] = [c EXCEPT !.pc = pc]]]]
        PROVE  Orders(w)
    <2> DEFINE d == [c EXCEPT !.pc = pc]
    <2>1. d.pc = pc
      BY <1>1
    <2> HIDE DEF d
    <2> QED
      BY <1>2, <1>g, <2>1 DEF d
  <1>5. CASE GetLease(w, a)
    <2>1. Found(w) \in ConnPc \ Dialing
      BY DEF Found, ConnPc, Dialing
    <2>2. mem' = [mem EXCEPT ![w] = [m EXCEPT !.conn = [m.conn EXCEPT ![a] = [c EXCEPT !.pc = Found(w)]]]]
      BY <1>5 DEF GetLease
    <2> QED
      BY <1>g, <2>1, <2>2
  <1>6. CASE SetLease(w, a)
    <2>1. PICK pc \in {"held", "busy"} : mem' = [mem EXCEPT ![w].conn[a].pc = pc]
      BY <1>6 DEF SetLease
    <2>2. mem' = [mem EXCEPT ![w] = [m EXCEPT !.conn = [m.conn EXCEPT ![a] = [c EXCEPT !.pc = pc]]]]
      BY <2>1
    <2>3. pc \in ConnPc \ Dialing
      BY DEF ConnPc, Dialing
    <2> QED
      BY <1>g, <2>2, <2>3
  <1>a. CASE AnswerLease(w, a)
    <2>1. mem' = [mem EXCEPT ![w] = LeaseBusy(m, a)] \/ mem' = [mem EXCEPT ![w] = LeaseHeld(m, a)]
      BY <1>a DEF AnswerLease
    <2> QED
      BY <1>3, <2>1 DEF Orders
  <1>7. CASE LoadCreds(w, a)
    <2> DEFINE d == [c EXCEPT !.pc = "state", !.me = db.linked /\ ~c.out]
    <2>1. d.pc = "state" /\ c.pc = "creds"
      BY <1>1, <1>7 DEF LoadCreds
    <2>2. mem' = [mem EXCEPT ![w] = [m EXCEPT !.conn = [m.conn EXCEPT ![a] = d]]]
      BY <1>7 DEF LoadCreds
    <2> HIDE DEF d
    <2> QED
      BY <1>2, <2>1, <2>2 DEF ConnPc, Dialing
  <1>8. CASE SetConnecting(w, a)
    <2> DEFINE d == [c EXCEPT !.pc = "dial"]
    <2>1. d.pc = "dial" /\ c.pc = "state"
      BY <1>1, <1>8 DEF SetConnecting
    <2>2. mem' = [mem EXCEPT ![w] = [m EXCEPT !.conn = [m.conn EXCEPT ![a] = d]]]
      BY <1>8 DEF SetConnecting
    <2> HIDE DEF d
    <2> QED
      BY <1>2, <2>1, <2>2 DEF ConnPc, Dialing
  <1>9. CASE Dial(w, a)
    <2>1. PICK s \in SockId :
            mem' = [mem EXCEPT ![w].sk[s] = [ph |-> "dial", me |-> mem[w].conn[a].me],
                               ![w].sock = s, ![w].conn[a] = Idle]
      BY <1>9 DEF Dial
    <2> DEFINE n == [m EXCEPT !.sk[s] = [ph |-> "dial", me |-> mem[w].conn[a].me],
                              !.sock = s, !.conn[a] = Idle]
    <2>2. mem' = [mem EXCEPT ![w] = n]
      BY <1>1, <2>1
    <2>3. /\ AttemptGoes(m, n, a, "idle") /\ SocketGoes(m, n, s, "dial") /\ n.sock = s
          /\ SameTimers(m, n) /\ n.tasks = m.tasks
      BY <1>1 DEF Shaped, Entry, SameTimers, AttemptGoes, SocketGoes, Idle
    <2>4. AttemptDials(m, n)
      BY <1>9, <2>3 DEF AttemptDials, Dial
    <2> QED
      BY <2>2, <2>4, AttemptsOrderly DEF Orders
  <1>10. CASE ConnectFails(w, a)
    <2> DEFINE k == [m EXCEPT !.conn = [m.conn EXCEPT ![a] = Idle]]
    <2>1. /\ SameSockets(m, k) /\ SameTimers(m, k) /\ k.tasks = m.tasks /\ AttemptGoes(m, k, a, "idle")
          /\ Shaped(k)
      <3>1. Idle.pc = "idle" /\ DOMAIN Idle = {"pc", "out", "me", "wait"}
        BY DEF Idle
      <3>2. SameSockets(m, k) /\ SameTimers(m, k) /\ k.tasks = m.tasks /\ AttemptGoes(m, k, a, "idle")
        BY <1>1, <3>1, SetConnDoes
      <3>3. Shaped(k)
        BY <1>1, <3>1 DEF Shaped, Entry
      <3> QED
        BY <3>2, <3>3
    <2>2. mem' = [mem EXCEPT ![w] = Reschedule(k, None)] \/ mem' = [mem EXCEPT ![w] = k]
      BY <1>10 DEF ConnectFails
    <2> HIDE DEF k
    <2>3. AttemptGivesUp(m, k)
      BY <1>1, <2>1 DEF AttemptGivesUp, SameTimers
    <2>4. AttemptGivesUp(m, Reschedule(k, None))
      <3> DEFINE n == Reschedule(k, None)
                 x == [pc |-> "resched", why |-> "lost", s |-> None, n |-> 0]
      <3>1. /\ Same(k, n) /\ x.why = "lost"
            /\ n.tasks = k.tasks \/ n.tasks = k.tasks \cup {x}
        BY <2>1, RescheduleDoes
      <3> HIDE DEF n, x
      <3>2. AttemptGoes(m, n, a, "idle") /\ SameSockets(m, n) /\ SameTimers(m, n)
        BY <2>1, <3>1 DEF Same, SameSockets, SameTimers, SameAttempts, AttemptGoes
      <3>3. n.tasks = m.tasks \/ \E u : n.tasks = m.tasks \cup {u} /\ u.why = "lost"
        BY <2>1, <3>1
      <3>4. AttemptGivesUp(m, n)
        BY <1>1, <3>2, <3>3 DEF AttemptGivesUp, SameTimers
      <3> QED
        BY <3>4 DEF n
    <2> QED
      BY <2>2, <2>3, <2>4, AttemptsOrderly DEF Orders
  <1> QED
    BY <1>4, <1>5, <1>6, <1>7, <1>8, <1>9, <1>10, <1>a

LEMMA CallersOrder ==
  ASSUME TypeInv, NEW w \in Worker,
         ReconnectFires(w) \/ LeaseRetryFires(w) \/ EnsureConnected(w) \/ Bootstrap(w)
  PROVE  Orders(w)
  <1> DEFINE m == mem[w]
  <1>1. Shaped(m)
    BY ShapedMemory
  <1>2. ASSUME NEW k, Shaped(k), NEW ns
        PROVE  Connects(k, Connect(k, ns))
    BY <1>2, ConnectDoes DEF Connects
  <1>3. ASSUME NEW n, mem' = [mem EXCEPT ![w] = n], Called(m, n)
        PROVE  Orders(w)
    BY <1>3, CalledOrderly DEF Orders
  <1>4. CASE ReconnectFires(w)
    <2> DEFINE k == [mem[w] EXCEPT !.armed = @ - 1, !.tracked = FALSE]
    <2>1. /\ SameSockets(m, k) /\ SameAttempts(m, k) /\ k.tasks = m.tasks /\ k.leaseTimer = m.leaseTimer
          /\ k.armed = m.armed - 1 /\ k.leaseRetry = m.leaseRetry /\ k.proc = m.proc /\ Shaped(k)
      BY <1>1 DEF Shaped, Entry, SameSockets, SameAttempts
    <2>2. mem' = [mem EXCEPT ![w] = Connect(k, {0})] /\ m.armed > 0
      BY <1>4 DEF ReconnectFires
    <2> HIDE DEF k
    <2>3. Connects(k, Connect(k, {0}))
      BY <1>2, <2>1
    <2> QED
      BY <1>3, <2>1, <2>2, <2>3 DEF Called
  <1>5. CASE LeaseRetryFires(w)
    <2> DEFINE k == [m EXCEPT !.leaseRetry = FALSE]
    <2>1. /\ SameSockets(m, k) /\ SameAttempts(m, k) /\ k.tasks = m.tasks /\ k.leaseTimer = m.leaseTimer
          /\ k.armed = m.armed /\ ~k.leaseRetry /\ k.proc = m.proc /\ Shaped(k)
      BY <1>1 DEF Shaped, Entry, SameSockets, SameAttempts
    <2>2. mem' = [mem EXCEPT ![w] = Connect(k, {})] /\ m.leaseRetry
      BY <1>5 DEF LeaseRetryFires
    <2> HIDE DEF k
    <2>3. Connects(k, Connect(k, {}))
      BY <1>2, <2>1
    <2> QED
      BY <1>3, <2>1, <2>2, <2>3 DEF Called
  <1>6. CASE EnsureConnected(w)
    <2>1. mem' = [mem EXCEPT ![w] = Connect(m, {})] /\ Sends
      BY <1>6 DEF EnsureConnected
    <2>2. Connects(m, Connect(m, {}))
      BY <1>1, <1>2
    <2>3. SameSockets(m, m) /\ SameAttempts(m, m)
      BY DEF SameSockets, SameAttempts
    <2> QED
      BY <1>3, <2>1, <2>2, <2>3 DEF Called
  <1>7. CASE Bootstrap(w)
    <2> DEFINE k == [m EXCEPT !.proc = "up"]
    <2>1. /\ SameSockets(m, k) /\ SameAttempts(m, k) /\ k.tasks = m.tasks /\ k.leaseTimer = m.leaseTimer
          /\ k.armed = m.armed /\ k.leaseRetry = m.leaseRetry /\ k.proc = "up" /\ Shaped(k)
      BY <1>1 DEF Shaped, Entry, SameSockets, SameAttempts
    <2>2. /\ mem' = [mem EXCEPT ![w] = Connect(k, {})] \/ mem' = [mem EXCEPT ![w] = k]
          /\ m.proc = "booting"
      BY <1>7 DEF Bootstrap
    <2> HIDE DEF k
    <2>3. Connects(k, Connect(k, {}))
      BY <1>2, <2>1
    <2>4. Called(m, k)
      BY <2>1, <2>2 DEF Called
    <2>5. Called(m, Connect(k, {}))
      BY <2>1, <2>2, <2>3 DEF Called
    <2> QED
      BY <1>3, <2>2, <2>4, <2>5
  <1> QED
    BY <1>4, <1>5, <1>6, <1>7

LEMMA EventsOrder ==
  ASSUME TypeInv, NEW w \in Worker, NEW s \in SockId,
         QrEvent(w, s) \/ Scanned(w, s) \/ OpenEvent(w, s) \/ CloseEvent(w, s)
  PROVE  Orders(w)
  <1> DEFINE m == mem[w]
  <1>1. Shaped(m)
    BY ShapedMemory
  <1>2. ASSUME NEW k, Shaped(k), SocketGoes(m, k, s, k.sk[s].ph), k.sock = m.sock,
               SameAttempts(m, k), SameTimers(m, k), k.tasks = m.tasks,
               k.sk[s].ph \in {"dial", "qr", "open"}, Live(m, s), NEW why \in {"qr", "open"}
        PROVE  SocketReports(m, k) /\ SocketReports(m, Spawn(k, "write", why, s, 0))
    <2> DEFINE n == Spawn(k, "write", why, s, 0)
               x == [pc |-> "write", why |-> why, s |-> s, n |-> 0]
    <2>1. Same(k, n) /\ n.tasks = k.tasks \cup {x}
      BY <1>2, SpawnDoes
    <2>2. x.why \in {"qr", "open"} /\ x.pc = "write"
      OBVIOUS
    <2> HIDE DEF n, x
    <2>3. SocketReports(m, k)
      BY <1>2 DEF SocketReports
    <2>4. /\ SocketGoes(m, n, s, k.sk[s].ph) /\ n.sock = m.sock
          /\ SameAttempts(m, n) /\ SameTimers(m, n)
      BY <1>2, <2>1 DEF Same, SocketGoes, SameSockets, SameAttempts, SameTimers
    <2>5. SocketReports(m, n)
      BY <1>2, <2>1, <2>2, <2>4 DEF SocketReports
    <2> QED
      BY <2>3, <2>5 DEF n
  <1>3. CASE QrEvent(w, s)
    <2> DEFINE k == [mem[w] EXCEPT !.sk[s].ph = "qr"]
    <2>1. /\ Shaped(k) /\ SocketGoes(m, k, s, k.sk[s].ph) /\ k.sock = m.sock
          /\ SameAttempts(m, k) /\ SameTimers(m, k) /\ k.tasks = m.tasks /\ k.sk[s].ph = "qr"
      BY <1>1 DEF Shaped, Entry, SocketGoes, SameAttempts, SameTimers
    <2>2. mem' = [mem EXCEPT ![w] = Spawn(k, "write", "qr", s, 0)] /\ Live(m, s)
      BY <1>3 DEF QrEvent, Live
    <2> HIDE DEF k
    <2>3. SocketReports(m, Spawn(k, "write", "qr", s, 0))
      BY <1>2, <2>1, <2>2
    <2> QED
      BY <2>2, <2>3, SocketsOrderly DEF Orders
  <1>4. CASE OpenEvent(w, s)
    <2> DEFINE k == [mem[w] EXCEPT !.sk[s].ph = "open"]
    <2>1. /\ Shaped(k) /\ SocketGoes(m, k, s, k.sk[s].ph) /\ k.sock = m.sock
          /\ SameAttempts(m, k) /\ SameTimers(m, k) /\ k.tasks = m.tasks /\ k.sk[s].ph = "open"
      BY <1>1 DEF Shaped, Entry, SocketGoes, SameAttempts, SameTimers
    <2>2. mem' = [mem EXCEPT ![w] = Spawn(k, "write", "open", s, 0)] /\ Live(m, s)
      BY <1>4 DEF OpenEvent, Live
    <2> HIDE DEF k
    <2>3. SocketReports(m, Spawn(k, "write", "open", s, 0))
      BY <1>2, <2>1, <2>2
    <2> QED
      BY <2>2, <2>3, SocketsOrderly DEF Orders
  <1>5. CASE Scanned(w, s)
    <2> DEFINE k == [m EXCEPT !.sk = [m.sk EXCEPT ![s] = [m.sk[s] EXCEPT !.me = TRUE]]]
    <2>1. /\ Shaped(k) /\ SocketGoes(m, k, s, k.sk[s].ph) /\ k.sock = m.sock
          /\ SameAttempts(m, k) /\ SameTimers(m, k) /\ k.tasks = m.tasks /\ k.sk[s].ph = m.sk[s].ph
      BY <1>1 DEF Shaped, Entry, SocketGoes, SameAttempts, SameTimers
    <2>2. mem' = [mem EXCEPT ![w] = k] /\ Live(m, s) /\ m.sk[s].ph = "qr"
      BY <1>5 DEF Scanned, Live
    <2> HIDE DEF k
    <2>3. SocketReports(m, k)
      BY <1>2, <2>1, <2>2
    <2> QED
      BY <2>2, <2>3, SocketsOrderly DEF Orders
  <1>6. CASE CloseEvent(w, s)
    <2> DEFINE k == [mem[w] EXCEPT !.sk[s] = Unused, !.sock = None]
    <2>1. /\ Shaped(k) /\ SocketGoes(m, k, s, "free") /\ k.sock = None
          /\ SameAttempts(m, k) /\ SameTimers(m, k) /\ k.tasks = m.tasks
      BY <1>1 DEF Shaped, Entry, SocketGoes, SameAttempts, SameTimers, Unused
    <2>2. PICK why : mem' = [mem EXCEPT ![w] = Spawn(k, "before", why, s, 0)] /\ why \notin {"qr", "open"}
      <3>1. PICK code \in CloseCodes(m.sk[s]) :
              mem' = [mem EXCEPT ![w] = Spawn(k, "before",
                        IF m.manualStop THEN "manual"
                        ELSE IF code = "lost" /\ ~m.sk[s].me THEN "unscanned" ELSE code, s, 0)]
        BY <1>6 DEF CloseEvent
      <3>2. code \in {"lost", "loggedOut", "replaced"}
        BY <3>1, BoundAssumption DEF CloseCodes
      <3> DEFINE y == IF m.manualStop THEN "manual"
                      ELSE IF code = "lost" /\ ~m.sk[s].me THEN "unscanned" ELSE code
      <3>3. y \notin {"qr", "open"}
        BY <3>2
      <3>4. mem' = [mem EXCEPT ![w] = Spawn(k, "before", y, s, 0)]
        BY <3>1
      <3> HIDE DEF y, k
      <3> QED
        BY <3>3, <3>4
    <2>3. m.sk[s].ph # "free"
      BY <1>6 DEF CloseEvent, CloseCodes
    <2> HIDE DEF k
    <2> DEFINE n == Spawn(k, "before", why, s, 0)
               x == [pc |-> "before", why |-> why, s |-> s, n |-> 0]
    <2>4. Same(k, n) /\ n.tasks = k.tasks \cup {x} /\ x.why \notin {"qr", "open"}
      BY <2>1, <2>2, SpawnDoes
    <2>5. mem' = [mem EXCEPT ![w] = n]
      BY <2>2
    <2> HIDE DEF n, x
    <2>6. SocketGoes(m, n, s, "free") /\ n.sock = None /\ SameAttempts(m, n) /\ SameTimers(m, n)
      BY <2>1, <2>4 DEF Same, SocketGoes, SameSockets, SameAttempts, SameTimers
    <2>7. SocketCloses(m, n)
      BY <2>1, <2>3, <2>4, <2>6 DEF SocketCloses
    <2> QED
      BY <2>5, <2>7, SocketsOrderly DEF Orders
  <1> QED
    BY <1>3, <1>4, <1>5, <1>6
LEMMA SetFieldDoes ==
  ASSUME NEW m, Shaped(m), NEW v
  PROVE  /\ Same(m, [m EXCEPT !.cycles = v]) /\ [m EXCEPT !.cycles = v].tasks = m.tasks
         /\ Same(m, [m EXCEPT !.leaseLost = v]) /\ [m EXCEPT !.leaseLost = v].tasks = m.tasks
  BY DEF Same, Shaped, Entry, SameSockets, SameAttempts, SameTimers

\* What a handler does when it ends, goes on, or hands over to another one.
GoesOn(m, n, t) ==
  /\ Same(m, n)
  /\ \/ n.tasks = m.tasks \ {t}
     \/ /\ t.pc # "write" \/ t.why \notin {"qr", "open"}
        /\ \E x : n.tasks = (m.tasks \ {t}) \cup {x} /\ (x.why = t.why \/ x.why \notin {"qr", "open"})

LEMMA GoesOnOrders ==
  ASSUME NEW m, NEW n, NEW t \in m.tasks, GoesOn(m, n, t)
  PROVE  Orderly(m, n)
  <1>1. ChoreGoesOn(m, n)
    BY DEF ChoreGoesOn, GoesOn, Same, SameSockets
  <1> QED
    BY <1>1, ChoresOrderly

LEMMA HandlersGoOn ==
  ASSUME NEW m, Shaped(m), NEW t
  PROVE  /\ GoesOn(m, Drop(m, t), t) /\ Drop(m, t).tasks = m.tasks \ {t} /\ Shaped(Drop(m, t))
         /\ (t.pc # "write" \/ t.why \notin {"qr", "open"}) =>
              \A pc : GoesOn(m, Goto(m, t, pc), t) /\ Shaped(Goto(m, t, pc))
         /\ t.pc # "write" =>
              \A pc, why, s : why \notin {"qr", "open"} => GoesOn(m, Spawn(Drop(m, t), pc, why, s, 0), t)
         /\ t.pc # "write" =>
              \A k, s : Same(m, k) /\ k.tasks = m.tasks \ {t} => GoesOn(m, Reschedule(k, s), t)
  <1>1. Same(m, Drop(m, t)) /\ Drop(m, t).tasks = m.tasks \ {t} /\ Shaped(Drop(m, t))
    BY DropDoes DEF Same
  <1>2. ASSUME t.pc # "write" \/ t.why \notin {"qr", "open"}, NEW pc
        PROVE  GoesOn(m, Goto(m, t, pc), t) /\ Shaped(Goto(m, t, pc))
    <2> DEFINE x == [pc |-> pc, why |-> t.why, s |-> t.s, n |-> t.n]
               n == Goto(m, t, pc)
    <2>1. Same(m, n) /\ n.tasks = (m.tasks \ {t}) \cup {x} /\ x.why = t.why
      BY GotoDoes
    <2> HIDE DEF n, x
    <2>2. GoesOn(m, n, t) /\ Shaped(n)
      BY <1>2, <2>1 DEF GoesOn, Same
    <2> QED
      BY <2>2 DEF n
  <1>3. ASSUME t.pc # "write", NEW pc, NEW why, NEW s, why \notin {"qr", "open"}
        PROVE  GoesOn(m, Spawn(Drop(m, t), pc, why, s, 0), t)
    <2> DEFINE x == [pc |-> pc, why |-> why, s |-> s, n |-> 0]
               k == Drop(m, t)
               n == Spawn(k, pc, why, s, 0)
    <2>1. Same(k, n) /\ n.tasks = k.tasks \cup {x} /\ x.why = why
      BY <1>1, SpawnDoes
    <2>2. Same(m, k) /\ k.tasks = m.tasks \ {t}
      BY <1>1
    <2> HIDE DEF n, x, k
    <2>3. GoesOn(m, n, t)
      BY <1>3, <2>1, <2>2, SameTwice DEF GoesOn
    <2> QED
      BY <2>3 DEF n, k
  <1>4. ASSUME t.pc # "write", NEW k, NEW s, Same(m, k), k.tasks = m.tasks \ {t}
        PROVE  GoesOn(m, Reschedule(k, s), t)
    <2> DEFINE x == [pc |-> "resched", why |-> "lost", s |-> s, n |-> 0]
               n == Reschedule(k, s)
    <2>1. Same(k, n) /\ (n.tasks = k.tasks \/ n.tasks = k.tasks \cup {x}) /\ x.why = "lost"
      BY <1>4, RescheduleDoes DEF Same
    <2> HIDE DEF n, x
    <2>3. GoesOn(m, n, t)
      BY <1>4, <2>1, SameTwice DEF GoesOn
    <2> QED
      BY <2>3 DEF n
  <1>5. GoesOn(m, Drop(m, t), t)
    BY <1>1 DEF GoesOn
  <1> QED
    BY <1>1, <1>2, <1>3, <1>4, <1>5

LEMMA FieldGoesOn ==
  ASSUME NEW m, NEW n, NEW t, GoesOn(m, n, t), NEW v
  PROVE  GoesOn(m, [n EXCEPT !.cycles = v], t) /\ GoesOn(m, [n EXCEPT !.leaseLost = v], t)
  <1> DEFINE i == [n EXCEPT !.cycles = v]
             j == [n EXCEPT !.leaseLost = v]
  <1>1. Shaped(n)
    BY DEF GoesOn, Same
  <1>2. Same(n, i) /\ i.tasks = n.tasks /\ Same(n, j) /\ j.tasks = n.tasks
    BY <1>1, SetFieldDoes
  <1> HIDE DEF i, j
  <1>3. GoesOn(m, i, t) /\ GoesOn(m, j, t)
    BY <1>2, SameTwice DEF GoesOn
  <1> QED
    BY <1>3 DEF i, j

LEMMA ChoresOrder ==
  ASSUME TypeInv, NEW w \in Worker, NEW t \in mem[w].tasks, Step(w, t) \/ CommandFails(w, t)
  PROVE  Orders(w)
  <1> DEFINE m == mem[w]
  <1>1. Shaped(m)
    BY ShapedMemory
  <1>2. ASSUME NEW n, mem' = [mem EXCEPT ![w] = n], GoesOn(m, n, t)
        PROVE  Orders(w)
    BY <1>2, GoesOnOrders DEF Orders
  <1>3. CASE Before(w, t)
    <2> DEFINE gone == Drop(m, t)
    <2>1. t.pc # "write" /\ GoesOn(m, gone, t) /\ Shaped(gone) /\ Same(m, gone) /\ gone.tasks = m.tasks \ {t}
      BY <1>1, <1>3, HandlersGoOn, DropDoes DEF Before
    <2>2. \A pc : GoesOn(m, Goto(m, t, pc), t)
      BY <1>1, <2>1, HandlersGoOn
    <2>3. GoesOn(m, [gone EXCEPT !.leaseLost = FALSE], t)
      BY <2>1, FieldGoesOn
    <2>4. GoesOn(m, [Goto(m, t, "write") EXCEPT !.cycles = 0], t)
      BY <2>2, FieldGoesOn
    <2>5. GoesOn(m, Reschedule([gone EXCEPT !.cycles = @ + 1], t.s), t)
      <3> DEFINE k == [gone EXCEPT !.cycles = @ + 1]
      <3>1. Same(gone, k) /\ k.tasks = gone.tasks
        BY <2>1, SetFieldDoes
      <3> HIDE DEF k
      <3>2. Same(m, k) /\ k.tasks = m.tasks \ {t}
        BY <2>1, <3>1, SameTwice
      <3>3. GoesOn(m, Reschedule(k, t.s), t)
        BY <1>1, <2>1, <3>2, HandlersGoOn
      <3> QED
        BY <3>3 DEF k
    <2>6. GoesOn(m, Reschedule(gone, t.s), t)
      BY <1>1, <2>1, HandlersGoOn
    <2>7. \E n : GoesOn(m, n, t) /\ mem' = [mem EXCEPT ![w] = n]
      BY <1>3, <2>2, <2>3, <2>4, <2>5, <2>6 DEF Before
    <2> QED
      BY <1>2, <2>7
  <1>4. CASE Unlink(w, t)
    <2> DEFINE k == Goto(m, t, "clear")
               n == [k EXCEPT !.sk[t.s].ph = "unlinking"]
    <2>1. t.pc # "write" /\ GoesOn(m, k, t) /\ Shaped(k)
      BY <1>1, <1>4, HandlersGoOn DEF Unlink
    <2>2. \/ mem' = [mem EXCEPT ![w] = k]
          \/ mem' = [mem EXCEPT ![w] = n] /\ Live(k, t.s)
      BY <1>4 DEF Unlink
    <2>3. ASSUME Live(k, t.s)
          PROVE  Orderly(m, n)
      <3> HIDE DEF k
      <3>1. /\ n.sock = k.sock /\ SameAttempts(k, n) /\ SameTimers(k, n) /\ n.tasks = k.tasks
            /\ \A o \in SockId : n.sk[o].ph = k.sk[o].ph \/ (o = t.s /\ n.sk[o].ph = "unlinking")
        BY <2>1 DEF Shaped, Entry, SameAttempts, SameTimers
      <3> HIDE DEF n
      <3>2. \A o \in SockId : n.sk[o].ph = m.sk[o].ph \/ (Live(m, o) /\ n.sk[o].ph = "unlinking")
        BY <2>1, <2>3, <3>1 DEF GoesOn, Same, SameSockets, Live
      <3>3. n.sock = m.sock /\ SameAttempts(m, n) /\ SameTimers(m, n)
        BY <2>1, <3>1 DEF GoesOn, Same, SameSockets, SameAttempts, SameTimers
      <3>4. \/ n.tasks = m.tasks \ {t}
            \/ /\ t.pc # "write" \/ t.why \notin {"qr", "open"}
               /\ \E x : n.tasks = (m.tasks \ {t}) \cup {x} /\ (x.why = t.why \/ x.why \notin {"qr", "open"})
        BY <2>1, <3>1 DEF GoesOn
      <3>5. ChoreGoesOn(m, n)
        BY <3>2, <3>3, <3>4 DEF ChoreGoesOn
      <3> QED
        BY <3>5, ChoresOrderly
    <2> QED
      BY <1>2, <2>1, <2>2, <2>3 DEF Orders
  <1>5. CASE ClearCreds(w, t)
    <2>1. mem' = [mem EXCEPT ![w] = Goto(m, t, "write")] /\ t.pc # "write"
      BY <1>5 DEF ClearCreds
    <2> QED
      BY <1>1, <1>2, <2>1, HandlersGoOn
  <1>6. CASE Write(w, t)
    <2>1. GoesOn(m, Drop(m, t), t)
      BY <1>1, HandlersGoOn
    <2>2. GoesOn(m, [Drop(m, t) EXCEPT !.cycles = 0], t)
      BY <2>1, FieldGoesOn
    <2>3. t.why \notin {"qr", "open"} => GoesOn(m, Goto(m, t, "release"), t)
      BY <1>1, HandlersGoOn
    <2>4. \E n : GoesOn(m, n, t) /\ mem' = [mem EXCEPT ![w] = n]
      BY <1>6, <2>1, <2>2, <2>3 DEF Write
    <2> QED
      BY <1>2, <2>4
  <1>7. CASE ReadAuto(w, t)
    <2>1. t.pc # "write"
      BY <1>7 DEF ReadAuto
    <2>2. GoesOn(m, Goto(m, t, "backoff"), t) /\ GoesOn(m, Spawn(Drop(m, t), "write", "off", t.s, 0), t)
      BY <1>1, <2>1, HandlersGoOn
    <2>3. \E n : GoesOn(m, n, t) /\ mem' = [mem EXCEPT ![w] = n]
      BY <1>7, <2>2 DEF ReadAuto
    <2> QED
      BY <1>2, <2>3
  <1>8. CASE CommandFails(w, t)
    BY <1>1, <1>2, <1>8, HandlersGoOn DEF CommandFails
  <1>9. CASE Backoff(w, t)
    <2> DEFINE k == Drop(mem[w], t)
               n == [k EXCEPT !.armed = @ + 1, !.tracked = TRUE]
    <2>1. Shaped(k) /\ Same(m, k) /\ k.tasks = m.tasks \ {t}
      BY <1>1, DropDoes DEF Same
    <2>2. mem' = [mem EXCEPT ![w] = n] /\ t.pc = "backoff"
      BY <1>9 DEF Backoff
    <2> HIDE DEF k
    <2>3. /\ n.tasks = k.tasks /\ n.armed = k.armed + 1 /\ SameSockets(k, n) /\ SameAttempts(k, n)
          /\ n.leaseRetry = k.leaseRetry /\ n.leaseTimer = k.leaseTimer /\ n.proc = k.proc
      BY <2>1 DEF Shaped, Entry, SameSockets, SameAttempts
    <2> HIDE DEF n
    <2>4. ChoreArms(m, n)
      BY <2>1, <2>2, <2>3 DEF ChoreArms, Same, SameSockets, SameAttempts, SameTimers
    <2> QED
      BY <2>2, <2>4, ChoresOrderly DEF Orders
  <1>10. CASE Release(w, t)
    <2> DEFINE d == Drop(m, t)
               k == [d EXCEPT !.leaseTimer = FALSE]
    <2>1. Shaped(d) /\ Same(m, d) /\ d.tasks = m.tasks \ {t}
      BY <1>1, DropDoes DEF Same
    <2>2. /\ mem' = [mem EXCEPT ![w] = Connect(k, {})] \/ mem' = [mem EXCEPT ![w] = k]
          /\ t.pc = "release"
      BY <1>10 DEF Release
    <2> HIDE DEF d
    <2>3. /\ Shaped(k) /\ k.tasks = d.tasks /\ ~k.leaseTimer /\ SameSockets(d, k) /\ SameAttempts(d, k)
          /\ k.armed = d.armed /\ k.leaseRetry = d.leaseRetry /\ k.proc = d.proc
      BY <2>1 DEF Shaped, Entry, SameSockets, SameAttempts
    <2> HIDE DEF k
    <2>4. /\ SameSockets(m, k) /\ SameAttempts(m, k) /\ k.tasks = m.tasks \ {t}
          /\ k.armed = m.armed /\ k.leaseRetry = m.leaseRetry /\ k.proc = m.proc
      BY <2>1, <2>3 DEF Same, SameSockets, SameAttempts, SameTimers
    <2>5. Connects(k, Connect(k, {}))
      BY <2>3, ConnectDoes DEF Connects
    <2>6. ChoreReleases(m, k)
      BY <2>2, <2>3, <2>4 DEF ChoreReleases
    <2>7. ChoreReleases(m, Connect(k, {}))
      BY <2>2, <2>3, <2>4, <2>5 DEF ChoreReleases
    <2> QED
      BY <2>2, <2>6, <2>7, ChoresOrderly DEF Orders
  <1> QED
    BY <1>3, <1>4, <1>5, <1>6, <1>7, <1>8, <1>9, <1>10 DEF Step

LEMMA LifeOrders ==
  ASSUME TypeInv, NEW w \in Worker,
         Start(w) \/ Shutdown(w) \/ Close(w) \/ Exit(w) \/ Crash(w)
  PROVE  Orders(w)
  <1> DEFINE m == mem[w]
  <1>1. Shaped(m)
    BY ShapedMemory
  <1>2. CASE Start(w) \/ Exit(w) \/ Crash(w)
    BY <1>2, BlankOrderly DEF Start, Exit, Crash, Orders, Proc
  <1>3. ASSUME NEW n, mem' = [mem EXCEPT ![w] = n], ProcessEnds(m, n)
        PROVE  Orders(w)
    BY <1>3, EndsOrderly DEF Orders
  <1>4. ASSUME NEW p, p # "booting", mem' = [mem EXCEPT ![w] = [m EXCEPT !.proc = p]]
        PROVE  Orders(w)
    <2> DEFINE n == [m EXCEPT !.proc = p]
    <2>1. ProcessEnds(m, n)
      BY <1>1, <1>4 DEF Shaped, Entry, ProcessEnds, SameAttempts
    <2> QED
      BY <1>3, <1>4, <2>1
  <1>5. CASE Shutdown(w)
    <2>1. mem' = [mem EXCEPT ![w] = [m EXCEPT !.proc = "draining"]]
      BY <1>5 DEF Shutdown
    <2> QED
      BY <1>4, <2>1
  <1>6. CASE Close(w)
    <2>1. CASE m.sock = None
      <3>1. mem' = [mem EXCEPT ![w] = [m EXCEPT !.proc = "closing"]]
        BY <1>6, <2>1 DEF Close
      <3> QED
        BY <1>4, <3>1
    <2>2. CASE m.sock # None
      <3> DEFINE n == [m EXCEPT !.proc = "closing", !.manualStop = TRUE,
                                !.sk[m.sock].ph = "ending", !.leaseTimer = FALSE]
      <3>1. mem' = [mem EXCEPT ![w] = n]
        BY <1>6, <2>2 DEF Close
      <3>2. m.sock \in SockId
        BY <2>2 DEF TypeInv, TypeOK, Memory
      <3>3. /\ SocketGoes(m, n, m.sock, "ending") /\ n.sock = m.sock
            /\ n.proc # "booting" /\ SameAttempts(m, n) /\ n.armed = m.armed /\ n.leaseRetry = m.leaseRetry
            /\ n.tasks = m.tasks
        BY <1>1, <3>2 DEF Shaped, Entry, SocketGoes, SameAttempts
      <3>4. ProcessEnds(m, n)
        BY <2>2, <3>3 DEF ProcessEnds
      <3> QED
        BY <1>3, <3>1, <3>4
    <2> QED
      BY <2>1, <2>2
  <1> QED
    BY <1>2, <1>5, <1>6
-----------------------------------------------------------------------------
(***************************************************************************)
(* The steps of the whole worker, and the two theorems.                    *)
(***************************************************************************)
\* Where no command exists, every step leaves the memories alone, is an orderly
\* step of one process, or is that of a process that finds its lease gone.
LEMMA EveryStepIsOrderly ==
  ASSUME Ops = {}, TypeInv, [Next]_vars
  PROVE  mem' = mem \/ \E w \in Worker : Orders(w) \/ LeaseLost(w)
  <1>1. CASE UNCHANGED vars
    BY <1>1 DEF vars
  <1>2. CASE Lapse \/ Stall \/ \E op \in Ops : Request(op)
    BY <1>2 DEF Lapse, Stall, Request
  <1>3. ASSUME NEW w \in Worker,
               \/ Connecting(w) \/ Timers(w) \/ Events(w) \/ Commands(w) \/ Life(w)
               \/ EnsureConnected(w) \/ \E a \in AttemptId : ConnectFails(w, a)
               \/ \E t \in mem[w].tasks : Step(w, t) \/ CommandFails(w, t)
        PROVE  mem' = mem \/ Orders(w) \/ LeaseLost(w)
    <2>1. CASE Connecting(w)
      BY <2>1, ConnectingOrders DEF Connecting
    <2>2. CASE Timers(w) \/ EnsureConnected(w)
      BY <2>2, CallersOrder DEF Timers, Renew
    <2>3. CASE Events(w)
      BY <2>3, EventsOrder DEF Events, SaveCreds
    <2>4. CASE Commands(w)
      BY <2>4 DEF Commands, TypeInv, TypeOK
    <2>5. CASE Life(w)
      BY <2>5, LifeOrders, CallersOrder DEF Life
    <2>6. CASE \E a \in AttemptId : ConnectFails(w, a)
      BY <2>6, ConnectingOrders
    <2>7. CASE \E t \in mem[w].tasks : Step(w, t) \/ CommandFails(w, t)
      BY <2>7, ChoresOrder
    <2> QED
      BY <1>3, <2>1, <2>2, <2>3, <2>4, <2>5, <2>6, <2>7
  <1> QED
    BY <1>1, <1>2, <1>3 DEF Next

\* What a process found out about its lease is not forgotten.
LEMMA LostStep ==
  ASSUME TypeInv, [Next]_vars
  PROVE  used.lost' = used.lost \/ (used.lost' /\ \E w \in Worker : LeaseLost(w))
  <1>1. CASE UNCHANGED vars
    BY <1>1 DEF vars
  <1>2. CASE Lapse \/ Stall \/ \E op \in Ops : Request(op)
    BY <1>2 DEF Lapse, Stall, Request, TypeInv, TypeOK
  <1>3. ASSUME NEW w \in Worker,
               \/ Connecting(w) \/ Timers(w) \/ Events(w) \/ Commands(w) \/ Life(w)
               \/ EnsureConnected(w) \/ \E a \in AttemptId : ConnectFails(w, a)
               \/ \E t \in mem[w].tasks : Step(w, t) \/ CommandFails(w, t)
        PROVE  used.lost' = used.lost \/ (used.lost' /\ LeaseLost(w))
    <2>1. CASE Connecting(w)
      BY <2>1 DEF Connecting, ReadInstance, GetLease, SetLease, AnswerLease, LoadCreds, SetConnecting, Dial
    <2>2. CASE Timers(w)
      BY <2>2 DEF Timers, ReconnectFires, LeaseRetryFires, Renew, LeaseLost, TypeInv, TypeOK
    <2>3. CASE Events(w)
      BY <2>3 DEF Events, QrEvent, Scanned, OpenEvent, SaveCreds, CloseEvent
    <2>4. CASE Commands(w)
      BY <2>4 DEF Commands, TakeConnect, TakeDisconnect, TakeLogout
    <2>5. CASE Life(w)
      BY <2>5 DEF Life, Start, Bootstrap, Shutdown, Close, Exit, Crash, TypeInv, TypeOK
    <2>6. CASE EnsureConnected(w) \/ \E a \in AttemptId : ConnectFails(w, a)
      BY <2>6 DEF EnsureConnected, ConnectFails, TypeInv, TypeOK
    <2>7. CASE \E t \in mem[w].tasks : CommandFails(w, t)
      BY <2>7 DEF CommandFails, TypeInv, TypeOK
    <2>8. CASE \E t \in mem[w].tasks : Step(w, t)
      BY <2>8 DEF Step, Before, Unlink, ClearCreds, Write, Release, ReadAuto, Backoff
    <2> QED
      BY <1>3, <2>1, <2>2, <2>3, <2>4, <2>5, <2>6, <2>7, <2>8
  <1> QED
    BY <1>1, <1>2, <1>3 DEF Next

LEMMA SocketStep ==
  ASSUME Ops = {}, TypeInv, SocketInv, [Next]_vars
  PROVE  SocketInv' /\ (~Sends /\ TurnsInv => TurnsInv')
  <1> SUFFICES ASSUME ~used.lost' PROVE SocketInv' /\ (~Sends /\ TurnsInv => TurnsInv')
    BY DEF SocketInv, TurnsInv
  <1>0. ~used.lost /\ \A w \in Worker : ~LeaseLost(w)
    <2>1. ~used.lost
      BY LostStep
    <2>2. ASSUME NEW w \in Worker, LeaseLost(w) PROVE FALSE
      BY <2>2 DEF LeaseLost, TypeInv, TypeOK
    <2> QED
      BY <2>1, <2>2
  <1>1. CASE mem' = mem
    BY <1>0, <1>1 DEF SocketInv, TurnsInv
  <1>2. ASSUME NEW w \in Worker, Orders(w)
        PROVE  SocketInv' /\ (~Sends /\ TurnsInv => TurnsInv')
    <2>1. PICK n : mem' = [mem EXCEPT ![w] = n] /\ Orderly(mem[w], n)
      BY <1>2 DEF Orders
    <2>2. \A v \in Worker : mem'[v] = IF v = w THEN n ELSE mem[v]
      BY <2>1, OneProcess
    <2>3. ASSUME NEW v \in Worker PROVE OneSocket(mem'[v])
      BY <1>0, <2>1, <2>2 DEF Orderly, SocketInv
    <2>4. ASSUME ~Sends, TurnsInv, NEW v \in Worker PROVE TakeTurns(mem'[v])
      BY <1>0, <2>1, <2>2, <2>4 DEF Orderly, SocketInv, TurnsInv
    <2> QED
      BY <2>3, <2>4 DEF SocketInv, TurnsInv
  <1> QED
    BY <1>0, <1>1, <1>2, EveryStepIsOrderly

LEMMA SocketInit == Init => SocketInv /\ TurnsInv
  <1>1. OneSocket(Blank("new"))
    BY DEF OneSocket, Attempts, Blank, Unused, Idle
  <1>2. TakeTurns(Blank("new"))
    BY DEF TakeTurns, Quieted, Attempts, Chores, Live, Blank, Unused, Idle
  <1>3. Init => \A w \in Worker : mem[w] = Blank("new")
    BY DEF Init
  <1> QED
    BY <1>1, <1>2, <1>3 DEF SocketInv, TurnsInv

\* connect() never leaves a process with two open sockets for the line, whatever
\* timers, retries, messages and the bootstrap call it, where no command comes
\* between and as long as no process has found its lease gone.
THEOREM OneSocketHolds ==
  ASSUME Ops = {}
  PROVE  Spec => []OneSocketPerProcess
  <1> DEFINE Inv == TypeInv /\ SocketInv
  <1>1. Init => Inv
    BY TypeInit, SocketInit
  <1>2. Inv /\ [Next]_vars => Inv'
    BY TypeStep, SocketStep
  <1>3. Inv => OneSocketPerProcess
    BY DEF SocketInv, OneSocket, OneSocketPerProcess, Live
  <1> QED
    BY <1>1, <1>2, <1>3, PTL DEF Spec

-----------------------------------------------------------------------------
(***************************************************************************)
(* Two processes, no id used twice.  Besides, no key disappears under a    *)
(* process that renews it, and no command or message calls connect() out   *)
(* of turn: an attempt that is told of the key just before its own process *)
(* deletes it renews a key that is gone (releaseLease, lines 1383-1393,    *)
(* under ensureLease).  A step that concerns the lease is then a step of   *)
(* the abstract lease.  What a step does to the keepers comes first.       *)
(***************************************************************************)
\* Who keeps the lease is its owner, and renewed it in time.
KeptInv == \A w \in Worker : Tending(w) => redis.owner = w /\ redis.fresh

LEMMA TendsThen ==
  ASSUME NEW w, NEW n, mem'[w] = n
  PROVE  Tending(w)' <=> n.proc \notin {"new", "dead"} /\ Tends(n)
  BY DEF Tending, Renewing, Alive, Tends, Awaits

\* A step of one process leaves the others as they were.
LEMMA OthersTend ==
  ASSUME NEW w, mem'[w] = mem[w]
  PROVE  Tending(w)' <=> Tending(w)
  BY DEF Tending, Renewing, Alive

LEMMA KeepersStep ==
  ASSUME ~Pinned, TypeInv, HeldInv, NEW w \in Worker, OneSocket(mem[w]), TakeTurns(mem[w])
  PROVE  /\ Quiet(w) => Keepers' = Keepers /\ redis' = redis
         /\ Holds(w) => /\ Keepers' = Keepers \cup {w}
                        /\ redis'.owner = w /\ redis.owner \in {None, w}
                        /\ (redis.owner = None \/ (redis.fresh /\ Tending(w))) => redis'.fresh
         /\ LetsGo(w) => Keepers' = Keepers \ {w} /\ redis' = Freed(w)
         /\ Gone(w) => Keepers' = Keepers \ {w} /\ redis' = redis
         /\ Start(w) => Keepers' = Keepers /\ redis' = redis
  <1>1. ASSUME Quiet(w) PROVE Keepers' = Keepers /\ redis' = redis
    <2>1. PICK n : /\ mem' = [mem EXCEPT ![w] = n]
                   /\ n.proc \notin {"new", "dead"} /\ (Tends(n) <=> Tends(mem[w]))
      BY <1>1 DEF Quiet
    <2>2. ASSUME NEW v \in Worker PROVE Tending(v)' <=> Tending(v)
      <3>1. mem'[v] = IF v = w THEN n ELSE mem[v]
        BY <2>1, OneProcess
      <3>2. CASE v = w
        BY <1>1, <2>1, <3>1, <3>2, TendsThen, TendingIs DEF Quiet
      <3>3. CASE v # w
        BY <3>1, <3>3, OthersTend
      <3> QED
        BY <3>2, <3>3
    <2> QED
      BY <1>1, <2>2 DEF Keepers, Quiet
  <1>2. ASSUME Holds(w)
        PROVE  /\ Keepers' = Keepers \cup {w}
               /\ redis'.owner = w /\ redis.owner \in {None, w}
               /\ (redis.owner = None \/ (redis.fresh /\ Tending(w))) => redis'.fresh
    <2>1. PICK n : /\ mem' = [mem EXCEPT ![w] = n]
                   /\ n.proc = mem[w].proc /\ Tends(n)
      BY <1>2 DEF Holds
    <2>2. ASSUME NEW v \in Worker PROVE Tending(v)' <=> (Tending(v) \/ v = w)
      <3>1. mem'[v] = IF v = w THEN n ELSE mem[v]
        BY <2>1, OneProcess
      <3>2. CASE v = w
        BY <1>2, <2>1, <3>1, <3>2, TendsThen DEF Holds, Alive
      <3>3. CASE v # w
        BY <3>1, <3>3, OthersTend
      <3> QED
        BY <3>2, <3>3
    <2>3. Keepers' = Keepers \cup {w}
      BY <2>2 DEF Keepers
    <2>4. CASE redis.owner = None
      BY <1>2, <2>3, <2>4, SlotAssumption DEF Holds
    <2>5. CASE redis.owner = w
      <3>1. redis' = [redis EXCEPT !.fresh = @ /\ Tending(w)]
        BY <1>2, <2>5, SlotAssumption DEF Holds
      <3>2. redis'.owner = w /\ redis'.fresh = (redis.fresh /\ Tending(w))
        BY <2>5, <3>1 DEF TypeInv, TypeOK
      <3> QED
        BY <2>3, <2>5, <3>2, SlotAssumption
    <2> QED
      BY <1>2, <2>4, <2>5 DEF Holds
  <1>3. ASSUME LetsGo(w) PROVE Keepers' = Keepers \ {w} /\ redis' = Freed(w)
    <2>1. PICK n : /\ mem' = [mem EXCEPT ![w] = n]
                   /\ n.proc \notin {"new", "dead"} /\ ~Tends(n)
      BY <1>3 DEF LetsGo
    <2>2. ASSUME NEW v \in Worker PROVE Tending(v)' <=> (Tending(v) /\ v # w)
      <3>1. mem'[v] = IF v = w THEN n ELSE mem[v]
        BY <2>1, OneProcess
      <3>2. CASE v = w
        BY <2>1, <3>1, <3>2, TendsThen
      <3>3. CASE v # w
        BY <3>1, <3>3, OthersTend
      <3> QED
        BY <3>2, <3>3
    <2> QED
      BY <1>3, <2>2 DEF Keepers, LetsGo
  <1>4. ASSUME Gone(w) PROVE Keepers' = Keepers \ {w} /\ redis' = redis
    <2>1. mem' = [mem EXCEPT ![w] = Blank("dead")] /\ Blank("dead").proc = "dead"
      BY <1>4 DEF Gone, Blank
    <2>2. ASSUME NEW v \in Worker PROVE Tending(v)' <=> (Tending(v) /\ v # w)
      <3>1. mem'[v] = IF v = w THEN Blank("dead") ELSE mem[v]
        BY <2>1, OneProcess
      <3>2. CASE v = w
        BY <2>1, <3>1, <3>2, TendsThen
      <3>3. CASE v # w
        BY <3>1, <3>3, OthersTend
      <3> QED
        BY <3>2, <3>3
    <2> QED
      BY <1>4, <2>2 DEF Keepers, Gone
  <1>5. ASSUME Start(w) PROVE Keepers' = Keepers /\ redis' = redis
    <2>1. mem' = [mem EXCEPT ![w] = Blank("booting")] /\ mem[w].proc = "new"
      BY <1>5 DEF Start
    <2>2. ~Tends(Blank("booting"))
      BY DEF Blank, Tends, Awaits, Idle
    <2>3. ASSUME NEW v \in Worker PROVE Tending(v)' <=> Tending(v)
      <3>1. mem'[v] = IF v = w THEN Blank("booting") ELSE mem[v]
        BY <2>1, OneProcess
      <3>2. CASE v = w
        BY <2>1, <2>2, <3>1, <3>2, TendsThen DEF Tending, Renewing, Alive
      <3>3. CASE v # w
        BY <3>1, <3>3, OthersTend
      <3> QED
        BY <3>2, <3>3
    <2> QED
      BY <1>5, <2>3 DEF Keepers, Start
  <1> QED
    BY <1>1, <1>2, <1>3, <1>4, <1>5

LEMMA KeptInit == Init => KeptInv
  BY DEF Init, KeptInv, Tending, Renewing, Alive, Blank

\* The invariant and the refinement, for the same case split.
LEMMA KeptStep ==
  ASSUME ~Pinned, MaxStall = 0, TypeInv, HeldInv, KeptInv, [Next]_vars,
         \A w \in Worker : OneSocket(mem[w]) /\ TakeTurns(mem[w])
  PROVE  KeptInv' /\ [Lease!Next]_Lease!leaseVars
  <1> DEFINE Goal == KeptInv' /\ [Lease!Next]_Lease!leaseVars
  <1>1. \A v \in Worker : v # None
    BY SlotAssumption
  <1>2. \A v : v \in Keepers <=> v \in Worker /\ Tending(v)
    BY DEF Keepers
  <1>3. \A v \in Keepers : redis.owner = v /\ redis.fresh
    BY <1>2 DEF KeptInv
  <1>4. ASSUME \A v \in Keepers' : redis'.owner = v /\ redis'.fresh PROVE KeptInv'
    BY <1>4 DEF KeptInv, Keepers
  <1>5. CASE UNCHANGED <<mem, redis>>
    BY <1>5 DEF KeptInv, Tending, Renewing, Alive, Keepers, Lease!leaseVars
  <1>6. CASE Lapse
    <2>1. mem' = mem /\ redis' = [owner |-> None, fresh |-> FALSE] /\ redis.owner # None
      BY <1>6 DEF Lapse
    <2>2. Keepers' = Keepers
      BY <2>1 DEF Keepers, Tending, Renewing, Alive
    <2>3. Keepers = {}
      BY <1>2, <1>3, <1>6 DEF Lapse
    <2>4. Lease!Expire
      BY <2>1, <2>2, <2>3 DEF Lease!Expire
    <2> QED
      BY <1>4, <2>2, <2>3, <2>4 DEF Lease!Next
  <1>7. CASE Stall
    BY <1>7 DEF Stall, TypeInv, TypeOK
  <1>8. ASSUME NEW w \in Worker, LeaseStep(w)
        PROVE  Goal
    <2>1. CASE Quiet(w) \/ Start(w)
      <3>1. Keepers' = Keepers /\ redis' = redis
        BY <2>1, KeepersStep
      <3> QED
        BY <1>3, <1>4, <3>1 DEF Lease!leaseVars
    <2>2. CASE Holds(w)
      <3>1. /\ Keepers' = Keepers \cup {w}
            /\ redis'.owner = w /\ redis.owner \in {None, w}
            /\ (redis.owner = None \/ (redis.fresh /\ Tending(w))) => redis'.fresh
        BY <2>2, KeepersStep
      <3>2. CASE redis.owner = None
        <4>1. Keepers = {}
          BY <1>1, <1>2, <1>3, <3>2
        <4>2. Lease!Take(w)
          BY <3>1, <3>2 DEF Lease!Take
        <4> QED
          BY <1>4, <3>1, <3>2, <4>1, <4>2 DEF Lease!Next
      <3>3. CASE redis.owner = w
        <4>1. Alive(w)
          BY <2>2 DEF Holds
        <4>2. Tending(w)
          BY <3>3, <4>1 DEF HeldInv, HeldLeaseIsRenewed
        <4>3. w \in Keepers /\ redis.fresh
          BY <1>2, <1>3, <4>2
        <4>4. Keepers' = Keepers /\ redis'.owner = redis.owner /\ redis'.fresh
          BY <3>1, <3>3, <4>2, <4>3
        <4> QED
          BY <1>3, <1>4, <4>4 DEF Lease!leaseVars
      <3> QED
        BY <3>1, <3>2, <3>3
    <2>3. CASE LetsGo(w)
      <3>1. Keepers' = Keepers \ {w} /\ redis' = Freed(w)
        BY <2>3, KeepersStep
      <3>2. \A v \in Keepers' : redis' = redis
        BY <1>3, <3>1 DEF Freed
      <3>3. redis'.owner = IF redis.owner = w THEN None ELSE redis.owner
        BY <3>1 DEF Freed
      <3>4. Lease!GiveBack(w)
        BY <3>1, <3>3 DEF Lease!GiveBack
      <3> QED
        BY <1>3, <1>4, <3>1, <3>2, <3>4 DEF Lease!Next
    <2>4. CASE Gone(w)
      <3>1. Keepers' = Keepers \ {w} /\ redis' = redis
        BY <2>4, KeepersStep
      <3>2. Lease!Vanish(w)
        BY <3>1 DEF Lease!Vanish
      <3> QED
        BY <1>3, <1>4, <3>1, <3>2 DEF Lease!Next
    <2>5. CASE Renew(w)
      <3>1. mem' = mem /\ redis' = [redis EXCEPT !.fresh = TRUE]
        BY <2>5 DEF Renew
      <3>2. redis'.owner = redis.owner /\ redis'.fresh
        BY <3>1 DEF TypeInv, TypeOK
      <3>3. Keepers' = Keepers
        BY <3>1 DEF Keepers, Tending, Renewing, Alive
      <3> QED
        BY <1>3, <1>4, <3>2, <3>3 DEF Lease!leaseVars
    <2>6. CASE LeaseLost(w)
      BY <2>6 DEF LeaseLost, KeptInv, Tending
    <2> QED
      BY <1>8, <2>1, <2>2, <2>3, <2>4, <2>5, <2>6 DEF LeaseStep
  <1>9. Dormant
    BY DEF HeldInv
  <1> QED
    BY <1>5, <1>6, <1>7, <1>8, <1>9, StepKinds

\* All that holds of two processes, together.
OrderInv == TypeInv /\ HeldInv /\ KeptInv /\ SocketInv /\ TurnsInv /\ ~used.lost

LEMMA OrderInit == Init => OrderInv
  <1>1. Init => ~used.lost
    BY DEF Init
  <1> QED
    BY <1>1, TypeInit, HeldInit, KeptInit, SocketInit DEF OrderInv

LEMMA OrderStep ==
  ASSUME ~Pinned, MaxStall = 0, Ops = {}, ~Sends, OrderInv, [Next]_vars
  PROVE  OrderInv' /\ [Lease!Next]_Lease!leaseVars
  <1>1. TypeInv /\ HeldInv /\ KeptInv /\ SocketInv /\ TurnsInv /\ ~used.lost
    BY DEF OrderInv
  <1>2. \A w \in Worker : OneSocket(mem[w]) /\ TakeTurns(mem[w])
    BY <1>1 DEF SocketInv, TurnsInv
  <1>3. TypeInv' /\ HeldInv'
    BY <1>1, TypeStep, HeldStep
  <1>4. SocketInv' /\ TurnsInv'
    BY <1>1, SocketStep
  <1>5. KeptInv' /\ [Lease!Next]_Lease!leaseVars
    BY <1>1, <1>2, KeptStep
  <1>6. ASSUME NEW w \in Worker, LeaseLost(w) PROVE FALSE
    BY <1>1, <1>6 DEF LeaseLost, KeptInv, Tending
  <1>7. ~used.lost'
    BY <1>1, <1>6, LostStep
  <1> QED
    BY <1>3, <1>4, <1>5, <1>7 DEF OrderInv

\* Two processes never both renew the lease of a line, as long as no id is
\* used twice, no key disappears under a process that renews it, and neither a
\* command nor a message calls connect() while a handler releases the lease.
THEOREM OneKeeperAtATime ==
  ASSUME ~Pinned, MaxStall = 0, Ops = {}, ~Sends
  PROVE  Spec => []OneKeeper
  <1>1. OrderInv /\ [Next]_vars => OrderInv'
    BY OrderStep
  <1>2. OrderInv => OneKeeper
    BY DEF OrderInv, KeptInv, OneKeeper
  <1> QED
    BY OrderInit, <1>1, <1>2, PTL DEF Spec

\* Under the same conditions ensureLease, the renewals and releaseLease are an
\* implementation of the exclusive lease, whatever the rest of the class does.
THEOREM LeaseRefined ==
  ASSUME ~Pinned, MaxStall = 0, Ops = {}, ~Sends
  PROVE  Spec => ImplementsLease
  <1>1. OrderInv /\ [Next]_vars => OrderInv'
    BY OrderStep
  <1>2. OrderInv /\ [Next]_vars => [Lease!Next]_Lease!leaseVars
    BY OrderStep
  <1>3. Init => Lease!Init
    BY DEF Init, Lease!Init, Keepers, Tending, Renewing, Alive, Blank, Idle
  <1> QED
    BY OrderInit, <1>1, <1>2, <1>3, PTL DEF Spec, ImplementsLease, Lease!Spec

\* What the implementation is worth: in the abstract lease only the owner keeps
\* the lease alive, so a lapse or a release always precedes the next keeper.
THEOREM LeaseIsExclusive == Lease!Spec => []Lease!Exclusive
  <1>1. Lease!Init => Lease!Exclusive
    BY DEF Lease!Init, Lease!Exclusive
  <1>2. Lease!Exclusive /\ [Lease!Next]_Lease!leaseVars => Lease!Exclusive'
    <2> SUFFICES ASSUME Lease!Exclusive, [Lease!Next]_Lease!leaseVars PROVE Lease!Exclusive'
      OBVIOUS
    <2>1. Keepers \subseteq Worker /\ None \notin Worker
      BY SlotAssumption DEF Keepers
    <2>2. CASE UNCHANGED Lease!leaseVars
      BY <2>2 DEF Lease!leaseVars, Lease!Exclusive
    <2>3. ASSUME NEW h \in Worker, Lease!Take(h) \/ Lease!GiveBack(h) \/ Lease!Vanish(h)
          PROVE  Lease!Exclusive'
      BY <2>1, <2>3 DEF Lease!Take, Lease!GiveBack, Lease!Vanish, Lease!Exclusive
    <2>4. CASE Lease!Expire
      BY <2>4 DEF Lease!Expire, Lease!Exclusive
    <2> QED
      BY <2>2, <2>3, <2>4 DEF Lease!Next
  <1> QED
    BY <1>1, <1>2, PTL DEF Lease!Spec

\* A process with an open socket renews the lease of the line, so two of them
\* are one (README.md line 324), where neither a command nor a message calls
\* connect() out of turn and the lease is not lost.
THEOREM OneWorkerHolds ==
  ASSUME ~Pinned, MaxStall = 0, Ops = {}, ~Sends
  PROVE  Spec => []OneWorkerHasTheSocket
  <1>1. OrderInv /\ [Next]_vars => OrderInv'
    BY OrderStep
  <1>2. OrderInv => OneWorkerHasTheSocket
    <2> SUFFICES ASSUME OrderInv, NEW v \in Worker, NEW w \in Worker, LiveOn(v), LiveOn(w)
                 PROVE  v = w
      BY DEF OneWorkerHasTheSocket
    <2>1. ASSUME NEW u \in Worker, LiveOn(u)
          PROVE  redis.owner = u
      <3>1. TakeTurns(mem[u])
        BY DEF OrderInv, TurnsInv
      <3>2. mem[u].leaseTimer
        BY <2>1, <3>1 DEF LiveOn, TakeTurns
      <3>3. TypeInv /\ Dormant /\ KeptInv
        BY DEF OrderInv, HeldInv
      <3>4. Alive(u)
        BY <2>1, <3>3, BusyIsAlive DEF LiveOn, Live
      <3> QED
        BY <3>2, <3>3, <3>4 DEF KeptInv, Tending, Renewing
    <2> QED
      BY <2>1
  <1> QED
    BY OrderInit, <1>1, <1>2, PTL DEF Spec

\* Where neither a key disappears nor connect() is called out of turn, no process
\* finds its lease gone: what the promises about sockets and lines leave out (a
\* lost lease) does not happen there.
THEOREM LeaseIsNotLost ==
  ASSUME ~Pinned, MaxStall = 0, Ops = {}, ~Sends
  PROVE  Spec => []~used.lost
  <1>1. OrderInv /\ [Next]_vars => OrderInv'
    BY OrderStep
  <1>2. OrderInv => ~used.lost
    BY DEF OrderInv
  <1> QED
    BY OrderInit, <1>1, <1>2, PTL DEF Spec

-----------------------------------------------------------------------------
(***************************************************************************)
(* No line is forgotten.  That a process has something under way for the   *)
(* line is not inductive: a handler that only writes a status leads to     *)
(* nothing, and one that closes leads on only while neither manualStop nor *)
(* leaseLost tells it to stop.  So: in a process that serves both are      *)
(* clear, every handler is at an await its kind has, and what is under way *)
(* is more than the writing of a status.  One process runs at a time, for  *)
(* it is the row that tells the bootstrap of the next one what to do.      *)
(***************************************************************************)
Service == {"booting", "up"}

\* The awaits each kind of handler stands at, where no command exists.
Courses ==
  {<<"qr", "write">>, <<"open", "write">>}
    \cup {<<"lost", pc>> : pc \in {"before", "resched", "backoff"}}
    \cup {<<"unscanned", pc>> : pc \in {"before", "write", "release"}}
    \cup {<<"loggedOut", pc>> : pc \in {"before", "clear", "write", "release"}}

\* Nothing tells the handlers of the process to leave the line alone.
Calm(m) == ~m.manualStop /\ ~m.leaseLost

\* The handlers in flight, and a line that gives up after its last QR is paused.
OnCourse(m, p) ==
  \A t \in m.tasks : <<t.why, t.pc>> \in Courses /\ (t.why = "unscanned" /\ t.pc = "release" => p)

\* Something leads to a socket.
Underway(m) ==
  \/ m.sock # None \/ \E s \in SockId : m.sk[s].ph \in {"ending", "unlinking"}
  \/ Attempts(m) # {} \/ m.armed > 0 \/ m.leaseRetry \/ Chores(m) # {}

\* What holds of the memory of a serving process, given the status of the row
\* and whether the line is paused.
Minded(m, st, p) ==
  /\ Calm(m) /\ OnCourse(m, p)
  /\ p \/ Underway(m) \/ (m.tasks = {} /\ (m.proc = "booting" \/ st = "LOGGED_OUT"))

MindedInv ==
  ~used.lost => /\ db.auto
                /\ \A w \in Worker : Serving(w) => Minded(mem[w], db.status, paused)
                /\ \A v, w \in Worker : Alive(v) /\ Alive(w) => v = w

\* A step of process w that keeps it so.
Minds(w) ==
  /\ Alive(w) /\ db'.auto = db.auto
  /\ \E n : /\ mem' = [mem EXCEPT ![w] = n]
            /\ n.proc \in Service =>
                 /\ mem[w].proc \in Service
                 /\ Minded(mem[w], db.status, paused) => Minded(n, db'.status, paused')

\* The helpers give no order to stop.
LEMMA HelpersStayCalm ==
  ASSUME NEW m, Shaped(m), Calm(m)
  PROVE  /\ \A pc, why, s, k : Calm(Spawn(m, pc, why, s, k))
         /\ \A t : Calm(Drop(m, t))
         /\ \A t, pc : Calm(Goto(m, t, pc))
         /\ \A s : Calm(Reschedule(m, s))
         /\ \A ns : Calm(Connect(m, ns))
         /\ \A c : Calm([m EXCEPT !.conn = c])
         /\ \A v : Calm([m EXCEPT !.cycles = v])
  <1>1. ASSUME NEW pc, NEW why, NEW s, NEW k PROVE Calm(Spawn(m, pc, why, s, k))
    BY DEF Shaped, Entry, Calm, Spawn
  <1>2. ASSUME NEW t PROVE Calm(Drop(m, t))
    BY DEF Shaped, Entry, Calm, Drop
  <1>3. ASSUME NEW t, NEW pc PROVE Calm(Goto(m, t, pc))
    BY DEF Shaped, Entry, Calm, Goto, Drop, Spawn
  <1>4. ASSUME NEW s PROVE Calm(Reschedule(m, s))
    BY <1>1 DEF Reschedule
  <1>5. ASSUME NEW ns PROVE Calm(Connect(m, ns))
    BY DEF Shaped, Entry, Calm, Connect, Begin
  <1>6. ASSUME NEW c PROVE Calm([m EXCEPT !.conn = c])
    BY DEF Shaped, Entry, Calm
  <1>7. ASSUME NEW v PROVE Calm([m EXCEPT !.cycles = v])
    BY DEF Shaped, Entry, Calm
  <1> QED
    BY <1>1, <1>2, <1>3, <1>4, <1>5, <1>6, <1>7

\* After connect() there is a socket or an attempt.
LEMMA ConnectLeads ==
  ASSUME NEW k, Shaped(k), NEW ns
  PROVE  Underway(Connect(k, ns)) /\ Connect(k, ns).tasks = k.tasks /\ Connect(k, ns).proc = k.proc
  <1> DEFINE n == Connect(k, ns)
  <1>1. /\ SameSockets(k, n) /\ SameTimers(k, n) /\ n.tasks = k.tasks
        /\ \/ SameAttempts(k, n) /\ (k.sock # None \/ Attempts(k) # {})
           \/ \E a \in AttemptId : \A b \in AttemptId : n.conn[b].pc = IF b = a THEN "read" ELSE "idle"
    BY ConnectDoes
  <1> HIDE DEF n
  <1>2. n.sock # None \/ Attempts(n) # {}
    BY <1>1 DEF SameSockets, SameAttempts, Attempts
  <1>3. Underway(n) /\ n.tasks = k.tasks /\ n.proc = k.proc
    BY <1>1, <1>2 DEF Underway, SameTimers
  <1> QED
    BY <1>3 DEF n

\* An attempt in flight leads to a socket, at whatever await it stands.
LEMMA AttemptLeads ==
  ASSUME NEW m, Shaped(m), NEW a \in AttemptId, NEW d, d.pc # "idle", NEW p, NEW st, NEW st2,
         Minded(m, st, p)
  PROVE  Minded([m EXCEPT !.conn = [m.conn EXCEPT ![a] = d]], st2, p)
  <1> DEFINE n == [m EXCEPT !.conn = [m.conn EXCEPT ![a] = d]]
  <1>1. n.tasks = m.tasks /\ AttemptGoes(m, n, a, d.pc)
    BY SetConnDoes
  <1>2. Calm(n)
    BY HelpersStayCalm DEF Minded
  <1> HIDE DEF n
  <1>3. Underway(n)
    BY <1>1 DEF Underway, Attempts, AttemptGoes
  <1>4. Minded(n, st2, p)
    BY <1>1, <1>2, <1>3 DEF Minded, OnCourse
  <1> QED
    BY <1>4 DEF n

LEMMA LeaseLeads ==
  ASSUME NEW m, Shaped(m), NEW a \in AttemptId, NEW p, NEW st, Minded(m, st, p)
  PROVE  Minded(LeaseBusy(m, a), st, p) /\ Minded(LeaseHeld(m, a), st, p)
  <1>1. Calm(m) /\ OnCourse(m, p)
    BY DEF Minded
  <1>2. /\ LeaseBusy(m, a).tasks = m.tasks /\ Calm(LeaseBusy(m, a)) /\ LeaseBusy(m, a).leaseRetry
    BY <1>1 DEF LeaseBusy, Shaped, Entry, Calm
  <1>3. /\ LeaseHeld(m, a).tasks = m.tasks /\ Calm(LeaseHeld(m, a))
        /\ LeaseHeld(m, a).conn[a].pc = "creds"
    BY <1>1 DEF LeaseHeld, Shaped, Entry, Calm
  <1>4. Underway(LeaseBusy(m, a)) /\ Underway(LeaseHeld(m, a))
    BY <1>2, <1>3 DEF Underway, Attempts
  <1> QED
    BY <1>1, <1>2, <1>3, <1>4 DEF Minded, OnCourse

LEMMA ConnectingMinds ==
  ASSUME MaxFail = 0, TypeInv, Dormant, db.auto, NEW w \in Worker, NEW a \in AttemptId,
         \/ ReadInstance(w, a) \/ GetLease(w, a) \/ SetLease(w, a) \/ AnswerLease(w, a)
         \/ LoadCreds(w, a) \/ SetConnecting(w, a) \/ Dial(w, a) \/ ConnectFails(w, a)
  PROVE  Minds(w)
  <1> DEFINE m == mem[w]
             c == m.conn[a]
  <1>1. /\ Shaped(m) /\ m.conn[a].pc # "idle" /\ mem \in [Worker -> Memory]
        /\ DOMAIN c = {"pc", "out", "me", "wait"} /\ DOMAIN db = {"status", "auto", "linked"}
    BY ShapedMemory DEF TypeInv, TypeOK, Shaped, ReadInstance, GetLease, SetLease, AnswerLease, LoadCreds,
       SetConnecting, Dial, ConnectFails
  <1>2. Alive(w)
    BY <1>1, BusyIsAlive
  <1>3. ASSUME NEW d, mem' = [mem EXCEPT ![w] = [m EXCEPT !.conn = [m.conn EXCEPT ![a] = d]]],
               d.pc # "idle", db'.auto = db.auto, paused' = paused
        PROVE  Minds(w)
    <2> DEFINE n == [m EXCEPT !.conn = [m.conn EXCEPT ![a] = d]]
    <2>1. n.proc = m.proc
      BY <1>1, SetConnDoes DEF SameTimers
    <2>2. Minded(m, db.status, paused) => Minded(n, db'.status, paused')
      BY <1>1, <1>3, AttemptLeads
    <2>3. mem' = [mem EXCEPT ![w] = n]
      BY <1>3
    <2> HIDE DEF n
    <2> QED
      BY <1>2, <1>3, <2>1, <2>2, <2>3 DEF Minds
  <1>4. CASE ReadInstance(w, a)
    <2> DEFINE d == [c EXCEPT !.pc = "lease", !.out = (db.status = "LOGGED_OUT")]
    <2>1. d.pc # "idle"
      BY <1>1
    <2>2. mem' = [mem EXCEPT ![w] = [m EXCEPT !.conn = [m.conn EXCEPT ![a] = d]]]
      BY <1>4 DEF ReadInstance
    <2> HIDE DEF d
    <2> QED
      BY <1>3, <1>4, <2>1, <2>2 DEF ReadInstance
  <1>5. ASSUME mem' = [mem EXCEPT ![w] = LeaseBusy(m, a)] \/ mem' = [mem EXCEPT ![w] = LeaseHeld(m, a)],
               db' = db, paused' = paused
        PROVE  Minds(w)
    <2>1. LeaseBusy(m, a).proc = m.proc /\ LeaseHeld(m, a).proc = m.proc
      BY <1>1 DEF Shaped, Entry, LeaseBusy, LeaseHeld
    <2>2. Minded(m, db.status, paused) => /\ Minded(LeaseBusy(m, a), db.status, paused)
                                          /\ Minded(LeaseHeld(m, a), db.status, paused)
      BY <1>1, LeaseLeads
    <2> QED
      BY <1>2, <1>5, <2>1, <2>2 DEF Minds
  <1>6. CASE GetLease(w, a) \/ SetLease(w, a)
    <2>1. PICK pc : /\ mem' = [mem EXCEPT ![w] = [m EXCEPT !.conn = [m.conn EXCEPT ![a] = [c EXCEPT !.pc = pc]]]]
                    /\ pc # "idle"
      <3>1. Found(w) # "idle" /\ (IF redis.owner = None THEN "held" ELSE "busy") # "idle"
        BY DEF Found
      <3> QED
        BY <1>6, <3>1 DEF GetLease, SetLease
    <2> DEFINE d == [c EXCEPT !.pc = pc]
    <2>2. d.pc # "idle"
      BY <1>1, <2>1
    <2>3. mem' = [mem EXCEPT ![w] = [m EXCEPT !.conn = [m.conn EXCEPT ![a] = d]]]
      BY <2>1
    <2> HIDE DEF d
    <2> QED
      BY <1>3, <1>6, <2>2, <2>3 DEF GetLease, SetLease
  <1>7. CASE AnswerLease(w, a)
    <2>1. mem' = [mem EXCEPT ![w] = LeaseBusy(m, a)] \/ mem' = [mem EXCEPT ![w] = LeaseHeld(m, a)]
      BY <1>7 DEF AnswerLease
    <2> QED
      BY <1>5, <1>7, <2>1 DEF AnswerLease
  <1>8. CASE LoadCreds(w, a)
    <2> DEFINE me == db.linked /\ ~c.out
               d == [c EXCEPT !.pc = "state", !.me = me]
    <2>1. d.pc # "idle"
      BY <1>1
    <2>2. /\ mem' = [mem EXCEPT ![w] = [m EXCEPT !.conn = [m.conn EXCEPT ![a] = d]]]
          /\ db' = [db EXCEPT !.linked = me] /\ paused' = paused
      BY <1>8 DEF LoadCreds
    <2> HIDE DEF d, me
    <2>3. db'.auto = db.auto
      BY <1>1, <2>2
    <2> QED
      BY <1>3, <2>1, <2>2, <2>3
  <1>9. CASE SetConnecting(w, a)
    <2> DEFINE d == [c EXCEPT !.pc = "dial"]
    <2>1. d.pc # "idle"
      BY <1>1
    <2>2. /\ mem' = [mem EXCEPT ![w] = [m EXCEPT !.conn = [m.conn EXCEPT ![a] = d]]]
          /\ db' = [db EXCEPT !.status = "CONNECTING"] /\ paused' = paused
      BY <1>9 DEF SetConnecting
    <2> HIDE DEF d
    <2>3. db'.auto = db.auto
      BY <1>1, <2>2
    <2> QED
      BY <1>3, <2>1, <2>2, <2>3
  <1>10. CASE Dial(w, a)
    <2>1. PICK s \in SockId :
            mem' = [mem EXCEPT ![w].sk[s] = [ph |-> "dial", me |-> mem[w].conn[a].me],
                               ![w].sock = s, ![w].conn[a] = Idle]
      BY <1>10 DEF Dial
    <2> DEFINE n == [m EXCEPT !.sk[s] = [ph |-> "dial", me |-> mem[w].conn[a].me],
                              !.sock = s, !.conn[a] = Idle]
    <2>2. mem' = [mem EXCEPT ![w] = n]
      BY <1>1, <2>1
    <2>3. /\ n.sock = s /\ s # None /\ n.proc = m.proc /\ n.tasks = m.tasks
          /\ n.manualStop = m.manualStop /\ n.leaseLost = m.leaseLost
      BY <1>1, SlotAssumption DEF Shaped, Entry
    <2> HIDE DEF n
    <2>4. Minded(m, db.status, paused) => Minded(n, db.status, paused)
      BY <2>3 DEF Minded, OnCourse, Calm, Underway
    <2>5. db' = db /\ paused' = paused
      BY <1>10 DEF Dial
    <2> QED
      BY <1>2, <2>2, <2>3, <2>4, <2>5 DEF Minds
  <1>11. ~ConnectFails(w, a)
    BY DEF ConnectFails, TypeInv, TypeOK
  <1> QED
    BY <1>4, <1>6, <1>7, <1>8, <1>9, <1>10, <1>11

LEMMA CallersMind ==
  ASSUME TypeInv, Dormant, db.auto, NEW w \in Worker,
         ReconnectFires(w) \/ LeaseRetryFires(w) \/ EnsureConnected(w) \/ Bootstrap(w)
  PROVE  Minds(w)
  <1> DEFINE m == mem[w]
  <1>1. Shaped(m)
    BY ShapedMemory
  <1>2. /\ Alive(w) /\ db' = db /\ paused' = paused
    <2>1. db' = db /\ paused' = paused
      BY DEF ReconnectFires, LeaseRetryFires, EnsureConnected, Bootstrap
    <2>2. CASE EnsureConnected(w) \/ Bootstrap(w)
      BY <2>1, <2>2 DEF EnsureConnected, Bootstrap, Serving, Alive
    <2>3. CASE ReconnectFires(w) \/ LeaseRetryFires(w)
      <3>1. m.armed > 0 \/ m.leaseRetry
        BY <2>3 DEF ReconnectFires, LeaseRetryFires
      <3>2. ~Alive(w) => m.armed = 0 /\ m.leaseRetry = FALSE
        BY BusyIsAlive
      <3> QED
        BY <2>1, <3>1, <3>2
    <2> QED
      BY <2>2, <2>3
  <1>3. ASSUME NEW k, Shaped(k), k.tasks = m.tasks, Calm(m) => Calm(k), k.proc \in Service => m.proc \in Service,
               NEW ns, mem' = [mem EXCEPT ![w] = Connect(k, ns)]
        PROVE  Minds(w)
    <2> DEFINE n == Connect(k, ns)
    <2>1. Underway(n) /\ n.tasks = m.tasks /\ n.proc = k.proc
      BY <1>3, ConnectLeads
    <2>2. Calm(m) => Calm(n)
      BY <1>3, HelpersStayCalm
    <2>3. mem' = [mem EXCEPT ![w] = n]
      BY <1>3
    <2> HIDE DEF n
    <2>4. Minded(m, db.status, paused) => Minded(n, db.status, paused)
      BY <2>1, <2>2 DEF Minded, OnCourse
    <2> QED
      BY <1>2, <1>3, <2>1, <2>3, <2>4 DEF Minds
  <1>4. CASE ReconnectFires(w)
    <2> DEFINE k == [mem[w] EXCEPT !.armed = @ - 1, !.tracked = FALSE]
    <2>1. Shaped(k) /\ k.tasks = m.tasks /\ (Calm(m) => Calm(k)) /\ k.proc = m.proc
      BY <1>1 DEF Shaped, Entry, Calm
    <2>2. mem' = [mem EXCEPT ![w] = Connect(k, {0})]
      BY <1>4 DEF ReconnectFires
    <2> HIDE DEF k
    <2> QED
      BY <1>3, <2>1, <2>2
  <1>5. CASE LeaseRetryFires(w)
    <2> DEFINE k == [m EXCEPT !.leaseRetry = FALSE]
    <2>1. Shaped(k) /\ k.tasks = m.tasks /\ (Calm(m) => Calm(k)) /\ k.proc = m.proc
      BY <1>1 DEF Shaped, Entry, Calm
    <2>2. mem' = [mem EXCEPT ![w] = Connect(k, {})]
      BY <1>5 DEF LeaseRetryFires
    <2> HIDE DEF k
    <2> QED
      BY <1>3, <2>1, <2>2
  <1>6. CASE EnsureConnected(w)
    <2>1. mem' = [mem EXCEPT ![w] = Connect(m, {})]
      BY <1>6 DEF EnsureConnected
    <2> QED
      BY <1>1, <1>3, <2>1
  <1>7. CASE Bootstrap(w)
    <2> DEFINE k == [m EXCEPT !.proc = "up"]
    <2>1. /\ Shaped(k) /\ k.tasks = m.tasks /\ (Calm(m) => Calm(k)) /\ m.proc \in Service
          /\ Underway(m) => Underway(k)
      BY <1>1, <1>7 DEF Shaped, Entry, Calm, Bootstrap, Service, Underway, Attempts, Chores
    <2>2. \/ mem' = [mem EXCEPT ![w] = Connect(k, {})]
          \/ db.status = "LOGGED_OUT" /\ mem' = [mem EXCEPT ![w] = k]
      BY <1>7 DEF Bootstrap
    <2> HIDE DEF k
    <2>3. CASE db.status = "LOGGED_OUT" /\ mem' = [mem EXCEPT ![w] = k]
      <3>1. Minded(m, db.status, paused) => Minded(k, db.status, paused)
        BY <2>1, <2>3 DEF Minded, OnCourse
      <3> QED
        BY <1>2, <2>1, <2>3, <3>1 DEF Minds
    <2> QED
      BY <1>3, <2>1, <2>2, <2>3
  <1> QED
    BY <1>4, <1>5, <1>6, <1>7

LEMMA EventsMind ==
  ASSUME "replaced" \notin Codes, TypeInv, Dormant, ~used.lost, SocketInv, NEW w \in Worker, NEW s \in SockId,
         QrEvent(w, s) \/ Scanned(w, s) \/ OpenEvent(w, s) \/ CloseEvent(w, s)
  PROVE  Minds(w)
  <1> DEFINE m == mem[w]
  <1>1. Shaped(m) /\ OneSocket(m) /\ s # None /\ DOMAIN db = {"status", "auto", "linked"}
    BY ShapedMemory, SlotAssumption DEF SocketInv, TypeInv, TypeOK
  <1>2. m.sk[s].ph # "free"
    BY DEF QrEvent, Scanned, OpenEvent, CloseEvent, CloseCodes
  <1>3. Alive(w) /\ m.sock = s
    BY <1>1, <1>2, BusyIsAlive DEF OneSocket
  <1>4. ASSUME NEW k, Shaped(k), k.tasks = m.tasks, Calm(m) => Calm(k), k.proc = m.proc,
               NEW pc, NEW why, <<why, pc>> \in Courses, pc # "release" \/ why # "unscanned",
               k.sock # None \/ why \notin {"qr", "open"}
        PROVE  LET n == Spawn(k, pc, why, s, 0)
               IN  n.proc = m.proc /\ (Minded(m, db.status, paused) => Minded(n, db.status, paused))
    <2> DEFINE n == Spawn(k, pc, why, s, 0)
               x == [pc |-> pc, why |-> why, s |-> s, n |-> 0]
    <2>1. Same(k, n) /\ n.tasks = k.tasks \cup {x} /\ (Calm(k) => Calm(n))
      BY <1>4, SpawnDoes, HelpersStayCalm
    <2>2. x.pc = pc /\ x.why = why
      OBVIOUS
    <2> HIDE DEF n, x
    <2>3. Underway(n)
      BY <1>4, <2>1, <2>2 DEF Underway, Chores, Same, SameSockets
    <2>4. Minded(m, db.status, paused) => Minded(n, db.status, paused)
      BY <1>4, <2>1, <2>2, <2>3 DEF Minded, OnCourse
    <2>5. n.proc = m.proc
      BY <1>4, <2>1 DEF Same, SameTimers
    <2> QED
      BY <2>4, <2>5 DEF n
  <1>5. CASE QrEvent(w, s)
    <2> DEFINE k == [mem[w] EXCEPT !.sk[s].ph = "qr"]
    <2>1. Shaped(k) /\ k.tasks = m.tasks /\ (Calm(m) => Calm(k)) /\ k.proc = m.proc /\ k.sock = m.sock
      BY <1>1 DEF Shaped, Entry, Calm
    <2>2. mem' = [mem EXCEPT ![w] = Spawn(k, "write", "qr", s, 0)] /\ db' = db /\ paused' = paused
      BY <1>5 DEF QrEvent
    <2>3. <<"qr", "write">> \in Courses
      BY DEF Courses
    <2> HIDE DEF k
    <2> QED
      BY <1>1, <1>3, <1>4, <2>1, <2>2, <2>3 DEF Minds
  <1>6. CASE OpenEvent(w, s)
    <2> DEFINE k == [mem[w] EXCEPT !.sk[s].ph = "open"]
    <2>1. Shaped(k) /\ k.tasks = m.tasks /\ (Calm(m) => Calm(k)) /\ k.proc = m.proc /\ k.sock = m.sock
      BY <1>1 DEF Shaped, Entry, Calm
    <2>2. mem' = [mem EXCEPT ![w] = Spawn(k, "write", "open", s, 0)] /\ db' = db /\ paused' = paused
      BY <1>6 DEF OpenEvent
    <2>3. <<"open", "write">> \in Courses
      BY DEF Courses
    <2> HIDE DEF k
    <2> QED
      BY <1>1, <1>3, <1>4, <2>1, <2>2, <2>3 DEF Minds
  <1>7. CASE Scanned(w, s)
    <2> DEFINE k == [m EXCEPT !.sk = [m.sk EXCEPT ![s] = [m.sk[s] EXCEPT !.me = TRUE]]]
    <2>1. k.tasks = m.tasks /\ (Calm(m) => Calm(k)) /\ k.proc = m.proc /\ k.sock = m.sock
      BY <1>1 DEF Shaped, Entry, Calm
    <2>2. mem' = [mem EXCEPT ![w] = k] /\ db' = [db EXCEPT !.linked = TRUE] /\ paused' = paused
      BY <1>7 DEF Scanned
    <2> HIDE DEF k
    <2>3. db'.auto = db.auto
      BY <1>1, <2>2
    <2>4. Minded(m, db.status, paused) => Minded(k, db'.status, paused)
      BY <1>1, <1>3, <2>1 DEF Minded, OnCourse, Underway
    <2> QED
      BY <1>3, <2>1, <2>2, <2>3, <2>4 DEF Minds
  <1>8. CASE CloseEvent(w, s)
    <2> DEFINE k == [mem[w] EXCEPT !.sk[s] = Unused, !.sock = None]
    <2>1. Shaped(k) /\ k.tasks = m.tasks /\ (Calm(m) => Calm(k)) /\ k.proc = m.proc
      BY <1>1 DEF Shaped, Entry, Calm, Unused
    <2>2. PICK code \in CloseCodes(m.sk[s]) :
            mem' = [mem EXCEPT ![w] = Spawn(k, "before",
                      IF m.manualStop THEN "manual"
                      ELSE IF code = "lost" /\ ~m.sk[s].me THEN "unscanned" ELSE code, s, 0)]
      BY <1>8 DEF CloseEvent
    <2>3. code \in {"lost", "loggedOut"}
      BY <2>2, BoundAssumption DEF CloseCodes
    <2>4. db' = db /\ paused' = paused
      BY <1>8 DEF CloseEvent
    <2> DEFINE y == IF m.manualStop THEN "manual"
                    ELSE IF code = "lost" /\ ~m.sk[s].me THEN "unscanned" ELSE code
               n == Spawn(k, "before", y, s, 0)
    <2>5. mem' = [mem EXCEPT ![w] = n]
      BY <2>2
    <2>6. Calm(m) => <<y, "before">> \in Courses /\ y \notin {"qr", "open"}
      BY <2>3 DEF Calm, Courses
    <2>7. n.proc = m.proc
      <3> HIDE DEF k, y
      <3> QED
        BY <2>1, SpawnDoes DEF Same, SameTimers
    <2> HIDE DEF k, y
    <2>8. Calm(m) => (Minded(m, db.status, paused) => Minded(n, db.status, paused))
      BY <1>4, <2>1, <2>6
    <2> HIDE DEF n
    <2>9. Minded(m, db.status, paused) => Minded(n, db.status, paused)
      BY <2>8 DEF Minded
    <2> QED
      BY <1>3, <2>4, <2>5, <2>7, <2>9 DEF Minds
  <1> QED
    BY <1>5, <1>6, <1>7, <1>8

LEMMA ChoresMind ==
  ASSUME MaxFail = 0, TypeInv, Dormant, db.auto,
         NEW w \in Worker, NEW t \in mem[w].tasks, Step(w, t) \/ CommandFails(w, t)
  PROVE  Minds(w)
  <1> DEFINE m == mem[w]
             Leads(n, p) == Calm(n) /\ OnCourse(n, p) /\ Underway(n)
             gone == Drop(m, t)
  <1>1. /\ Shaped(m) /\ Sound(m) /\ m.armed \in Nat /\ mem \in [Worker -> Memory]
        /\ DOMAIN db = {"status", "auto", "linked"}
    BY ShapedMemory DEF TypeInv, TypeOK, SoundMemory, Memory
  <1>2. Alive(w)
    BY BusyIsAlive
  <1>3. ASSUME Minded(m, db.status, paused)
        PROVE  /\ Calm(m) /\ OnCourse(m, paused) /\ (paused \/ Underway(m))
               /\ <<t.why, t.pc>> \in Courses /\ (t.why = "unscanned" /\ t.pc = "release" => paused)
    BY <1>3 DEF Minded, OnCourse
  \* A handler goes on to its next await.
  <1>4. ASSUME Calm(m), OnCourse(m, paused), NEW pc, <<t.why, pc>> \in Courses, t.why \notin {"qr", "open"},
               NEW p, paused => p, t.why = "unscanned" /\ pc = "release" => p
        PROVE  Leads(Goto(m, t, pc), p)
    <2> DEFINE n == Goto(m, t, pc)
               x == [pc |-> pc, why |-> t.why, s |-> t.s, n |-> t.n]
    <2>1. n.tasks = (m.tasks \ {t}) \cup {x} /\ Calm(n)
      BY <1>1, <1>4, GotoDoes, HelpersStayCalm
    <2>2. x.pc = pc /\ x.why = t.why
      OBVIOUS
    <2> HIDE DEF n, x
    <2>3. OnCourse(n, p)
      BY <1>4, <2>1, <2>2 DEF OnCourse
    <2>4. Underway(n)
      BY <1>4, <2>1, <2>2 DEF Underway, Chores
    <2> QED
      BY <2>1, <2>3, <2>4 DEF n
  \* scheduleReconnect: a timer is armed already, or one will be.
  <1>5. ASSUME OnCourse(m, paused), NEW k, Shaped(k), Calm(k), k.tasks = m.tasks \ {t},
               k.tracked = m.tracked, k.armed = m.armed, NEW s
        PROVE  Leads(Reschedule(k, s), paused)
    <2> DEFINE n == Reschedule(k, s)
               x == [pc |-> "resched", why |-> "lost", s |-> s, n |-> 0]
    <2>1. CASE k.tracked
      <3>1. n = k
        BY <2>1 DEF Reschedule
      <3>2. Underway(k) /\ OnCourse(k, paused)
        BY <1>1, <1>5, <2>1 DEF Underway, Sound, OnCourse
      <3> HIDE DEF n
      <3> QED
        BY <1>5, <3>1, <3>2 DEF n
    <2>2. CASE ~k.tracked
      <3>1. n = Spawn(k, "resched", "lost", s, 0)
        BY <1>5, <2>2 DEF Reschedule, Calm
      <3>2. n.tasks = k.tasks \cup {x} /\ Calm(n)
        BY <1>5, <3>1, SpawnDoes, HelpersStayCalm
      <3>3. x.pc = "resched" /\ x.why = "lost" /\ <<"lost", "resched">> \in Courses
        BY DEF Courses
      <3> HIDE DEF n, x
      <3>4. Underway(n) /\ OnCourse(n, paused)
        BY <1>5, <3>2, <3>3 DEF Underway, Chores, OnCourse
      <3> QED
        BY <3>2, <3>4 DEF n
    <2> QED
      BY <2>1, <2>2
  <1>6. ASSUME NEW k, Shaped(k), NEW v
        PROVE  LET n == [k EXCEPT !.cycles = v]
               IN  /\ Shaped(n) /\ n.tasks = k.tasks /\ n.proc = k.proc /\ n.armed = k.armed
                   /\ n.tracked = k.tracked /\ (Calm(k) => Calm(n)) /\ (Underway(k) => Underway(n))
    BY <1>6 DEF Shaped, Entry, Calm, Underway, Attempts, Chores
  <1>7. /\ Shaped(gone) /\ gone.tasks = m.tasks \ {t} /\ gone.proc = m.proc
        /\ gone.armed = m.armed /\ gone.tracked = m.tracked /\ gone.leaseRetry = m.leaseRetry
        /\ gone.conn = m.conn /\ gone.sk = m.sk /\ gone.sock = m.sock
        /\ Calm(m) => Calm(gone)
    BY <1>1 DEF Drop, Shaped, Entry, Calm
  <1>8. /\ \A pc : Shaped(Goto(m, t, pc)) /\ Goto(m, t, pc).proc = m.proc
        /\ \A k, s : Shaped(k) => Reschedule(k, s).proc = k.proc
    BY <1>1, GotoDoes, RescheduleDoes DEF Same, SameTimers
  <1> HIDE DEF gone
  <1>9. ASSUME NEW n, mem' = [mem EXCEPT ![w] = n], n.proc = m.proc, db'.auto = db.auto,
               Minded(m, db.status, paused) => Minded(n, db'.status, paused')
        PROVE  Minds(w)
    BY <1>2, <1>9 DEF Minds
  <1>10. ASSUME NEW n, NEW p, NEW st, Leads(n, p)
         PROVE  Minded(n, st, p)
    BY <1>10 DEF Minded
  <1>11. CASE Before(w, t)
    <2> DEFINE k == [gone EXCEPT !.cycles = @ + 1]
               g == Goto(m, t, "write")
               h == [g EXCEPT !.cycles = 0]
    <2>1. t.pc = "before" /\ db' = db /\ paused' = paused
      BY <1>11 DEF Before
    <2>2. \/ m.leaseLost /\ mem' = [mem EXCEPT ![w] = [gone EXCEPT !.leaseLost = FALSE]]
          \/ t.why = "loggedOut" /\ mem' = [mem EXCEPT ![w] = Goto(m, t, "clear")]
          \/ t.why \in {"manual", "replaced"} /\ mem' = [mem EXCEPT ![w] = g]
          \/ t.why = "unscanned" /\ mem' = [mem EXCEPT ![w] = h]
          \/ mem' = [mem EXCEPT ![w] = Reschedule(k, t.s)]
          \/ mem' = [mem EXCEPT ![w] = Reschedule(gone, t.s)]
      BY <1>11, Zenon DEF Before, gone
    <2>3. /\ Shaped(k) /\ k.tasks = m.tasks \ {t} /\ k.proc = m.proc
          /\ k.armed = m.armed /\ k.tracked = m.tracked /\ (Calm(m) => Calm(k))
      BY <1>6, <1>7
    <2>4. h.proc = m.proc /\ h.tasks = g.tasks /\ (Calm(g) => Calm(h)) /\ (Underway(g) => Underway(h))
      BY <1>6, <1>8
    <2>5. [gone EXCEPT !.leaseLost = FALSE].proc = m.proc
      BY <1>7 DEF Shaped, Entry
    <2> HIDE DEF k, g, h
    <2>6. CASE m.leaseLost /\ mem' = [mem EXCEPT ![w] = [gone EXCEPT !.leaseLost = FALSE]]
      BY <1>3, <1>9, <2>1, <2>5, <2>6 DEF Calm
    <2>7. CASE t.why = "loggedOut" /\ mem' = [mem EXCEPT ![w] = Goto(m, t, "clear")]
      <3>1. <<"loggedOut", "clear">> \in Courses
        BY DEF Courses
      <3>2. Minded(m, db.status, paused) => Minded(Goto(m, t, "clear"), db.status, paused)
        BY <1>3, <1>4, <1>10, <2>7, <3>1
      <3> QED
        BY <1>8, <1>9, <2>1, <2>7, <3>2
    <2>8. CASE t.why \in {"manual", "replaced"} /\ mem' = [mem EXCEPT ![w] = g]
      <3>1. <<t.why, t.pc>> \notin Courses
        BY <2>8 DEF Courses
      <3>2. g.proc = m.proc
        BY <1>8 DEF g
      <3> QED
        BY <1>3, <1>9, <2>1, <2>8, <3>1, <3>2
    <2>9. CASE t.why = "unscanned" /\ mem' = [mem EXCEPT ![w] = h]
      <3>1. <<"unscanned", "write">> \in Courses
        BY DEF Courses
      <3>2. Calm(m) /\ OnCourse(m, paused) => Leads(g, paused)
        BY <1>4, <2>9, <3>1 DEF g
      <3>3. Calm(m) /\ OnCourse(m, paused) => Leads(h, paused)
        BY <2>4, <3>2 DEF OnCourse
      <3>4. Minded(m, db.status, paused) => Minded(h, db.status, paused)
        BY <1>3, <1>10, <3>3
      <3> QED
        BY <1>9, <2>1, <2>4, <2>9, <3>4
    <2>10. ASSUME NEW j, j = k \/ j = gone, mem' = [mem EXCEPT ![w] = Reschedule(j, t.s)]
           PROVE  Minds(w)
      <3>1. Calm(m) /\ OnCourse(m, paused) => Leads(Reschedule(j, t.s), paused)
        BY <1>5, <1>7, <2>3, <2>10
      <3>2. Minded(m, db.status, paused) => Minded(Reschedule(j, t.s), db.status, paused)
        BY <1>3, <1>10, <3>1
      <3>3. Reschedule(j, t.s).proc = m.proc
        BY <1>7, <1>8, <2>3, <2>10
      <3> QED
        BY <1>9, <2>1, <2>10, <3>2, <3>3
    <2> QED
      BY <2>2, <2>6, <2>7, <2>8, <2>9, <2>10
  <1>12. CASE Unlink(w, t)
    <2>1. <<t.why, "unlink">> \notin Courses
      BY DEF Courses
    <2>2. t.pc = "unlink" /\ db' = db
      BY <1>12 DEF Unlink
    <2>3. PICK n : mem' = [mem EXCEPT ![w] = n] /\ n.proc = m.proc
      <3> DEFINE g == Goto(m, t, "clear")
      <3>1. mem' = [mem EXCEPT ![w] = g] \/ mem' = [mem EXCEPT ![w] = [g EXCEPT !.sk[t.s].ph = "unlinking"]]
        BY <1>12 DEF Unlink
      <3>2. g.proc = m.proc /\ [g EXCEPT !.sk[t.s].ph = "unlinking"].proc = g.proc
        BY <1>8 DEF Shaped, Entry
      <3> HIDE DEF g
      <3> QED
        BY <3>1, <3>2
    <2> QED
      BY <1>3, <1>9, <2>1, <2>2, <2>3
  <1>13. CASE ClearCreds(w, t)
    <2>1. /\ t.pc = "clear" /\ mem' = [mem EXCEPT ![w] = Goto(m, t, "write")]
          /\ db' = [db EXCEPT !.linked = FALSE] /\ paused' = paused
      BY <1>13 DEF ClearCreds
    <2>2. db'.auto = db.auto
      BY <1>1, <2>1
    <2>3. <<t.why, "clear">> \in Courses => t.why = "loggedOut" /\ <<t.why, "write">> \in Courses
      BY DEF Courses
    <2>4. Minded(m, db.status, paused) => Minded(Goto(m, t, "write"), db'.status, paused)
      BY <1>3, <1>4, <1>10, <2>1, <2>3
    <2> QED
      BY <1>8, <1>9, <2>1, <2>2, <2>4
  <1>14. CASE Write(w, t)
    <2>1. /\ t.pc = "write" /\ db' = [db EXCEPT !.status = Target[t.why]]
          /\ paused' = (paused \/ t.why = "unscanned")
      BY <1>14 DEF Write
    <2>2. db'.auto = db.auto
      BY <1>1, <2>1
    <2>3. \/ t.why = "qr" /\ mem' = [mem EXCEPT ![w] = gone]
          \/ t.why = "open" /\ mem' = [mem EXCEPT ![w] = [gone EXCEPT !.cycles = 0]]
          \/ t.why \notin {"qr", "open"} /\ mem' = [mem EXCEPT ![w] = Goto(m, t, "release")]
      BY <1>14 DEF Write, gone
    \* A handler that only writes a status leads to nothing.
    <2>4. ASSUME Minded(m, db.status, paused), t.why \in {"qr", "open"}
          PROVE  Calm(gone) /\ OnCourse(gone, paused) /\ (paused \/ Underway(gone))
      <3>1. Chores(gone) = Chores(m)
        BY <1>7, <2>4 DEF Chores
      <3>2. Underway(m) => Underway(gone)
        BY <1>7, <3>1 DEF Underway, Attempts
      <3>3. OnCourse(gone, paused)
        BY <1>3, <1>7, <2>4 DEF OnCourse
      <3> QED
        BY <1>3, <1>7, <2>4, <3>2, <3>3
    <2>5. CASE t.why = "qr" /\ mem' = [mem EXCEPT ![w] = gone]
      <3>1. Minded(m, db.status, paused) => Minded(gone, db'.status, paused')
        BY <2>1, <2>4, <2>5 DEF Minded, OnCourse
      <3> QED
        BY <1>7, <1>9, <2>2, <2>5, <3>1
    <2>6. CASE t.why = "open" /\ mem' = [mem EXCEPT ![w] = [gone EXCEPT !.cycles = 0]]
      <3> DEFINE h == [gone EXCEPT !.cycles = 0]
      <3>1. h.proc = m.proc /\ h.tasks = gone.tasks /\ (Calm(gone) => Calm(h)) /\ (Underway(gone) => Underway(h))
        BY <1>6, <1>7
      <3>2. mem' = [mem EXCEPT ![w] = h]
        BY <2>6
      <3> HIDE DEF h
      <3>3. Minded(m, db.status, paused) => Minded(h, db'.status, paused')
        BY <2>1, <2>4, <2>6, <3>1 DEF Minded, OnCourse
      <3> QED
        BY <1>9, <2>2, <3>1, <3>2, <3>3
    <2>7. CASE t.why \notin {"qr", "open"} /\ mem' = [mem EXCEPT ![w] = Goto(m, t, "release")]
      <3>1. <<t.why, "write">> \in Courses => t.why \in {"unscanned", "loggedOut"}
        BY <2>7 DEF Courses
      <3>2. t.why \in {"unscanned", "loggedOut"} => <<t.why, "release">> \in Courses
        BY DEF Courses
      <3>3. (paused => paused') /\ (t.why = "unscanned" => paused')
        BY <2>1
      <3>4. Minded(m, db.status, paused) => Minded(Goto(m, t, "release"), db'.status, paused')
        BY <1>3, <1>4, <1>10, <2>1, <2>7, <3>1, <3>2, <3>3
      <3> QED
        BY <1>8, <1>9, <2>2, <2>7, <3>4
    <2> QED
      BY <2>3, <2>5, <2>6, <2>7
  <1>15. CASE Release(w, t)
    <2> DEFINE k == [gone EXCEPT !.leaseTimer = FALSE]
    <2>1. /\ t.pc = "release" /\ db' = db /\ paused' = paused
          /\ mem' = [mem EXCEPT ![w] = IF t.why = "loggedOut" THEN Connect(k, {}) ELSE k]
      BY <1>15 DEF Release, gone
    <2>2. Shaped(k) /\ k.tasks = gone.tasks /\ k.proc = m.proc /\ (Calm(m) => Calm(k))
      BY <1>7 DEF Shaped, Entry, Calm
    <2> HIDE DEF k
    <2>3. OnCourse(m, paused) => OnCourse(k, paused)
      BY <1>7, <2>2 DEF OnCourse
    <2>4. CASE t.why = "loggedOut"
      <3> DEFINE n == Connect(k, {})
      <3>1. Underway(n) /\ n.tasks = k.tasks /\ n.proc = k.proc /\ (Calm(k) => Calm(n))
        BY <2>2, ConnectLeads, HelpersStayCalm
      <3>2. mem' = [mem EXCEPT ![w] = n]
        BY <2>1, <2>4
      <3> HIDE DEF n
      <3>3. Minded(m, db.status, paused) => Minded(n, db.status, paused)
        BY <1>3, <2>2, <2>3, <3>1 DEF Minded, OnCourse
      <3> QED
        BY <1>9, <2>1, <2>2, <3>1, <3>2, <3>3
    <2>5. CASE t.why # "loggedOut"
      <3>1. <<t.why, "release">> \in Courses => t.why = "unscanned"
        BY <2>5 DEF Courses
      <3>2. Minded(m, db.status, paused) => Minded(k, db.status, paused)
        BY <1>3, <2>1, <2>2, <2>3, <3>1 DEF Minded
      <3> QED
        BY <1>9, <2>1, <2>2, <2>5, <3>2
    <2> QED
      BY <2>4, <2>5
  <1>16. CASE ReadAuto(w, t)
    <2>1. t.pc = "resched" /\ db' = db /\ paused' = paused /\ mem' = [mem EXCEPT ![w] = Goto(m, t, "backoff")]
      BY <1>16 DEF ReadAuto
    <2>2. <<t.why, "resched">> \in Courses => t.why = "lost" /\ <<t.why, "backoff">> \in Courses
      BY DEF Courses
    <2>3. Minded(m, db.status, paused) => Minded(Goto(m, t, "backoff"), db.status, paused)
      BY <1>3, <1>4, <1>10, <2>1, <2>2
    <2> QED
      BY <1>8, <1>9, <2>1, <2>3
  <1>17. CASE Backoff(w, t)
    <2> DEFINE n == [gone EXCEPT !.armed = @ + 1, !.tracked = TRUE]
    <2>1. mem' = [mem EXCEPT ![w] = n] /\ db' = [db EXCEPT !.status = "RECONNECTING"] /\ paused' = paused
      BY <1>17 DEF Backoff, gone
    <2>2. db'.auto = db.auto
      BY <1>1, <2>1
    <2>3. n.tasks = gone.tasks /\ n.proc = m.proc /\ n.armed = m.armed + 1 /\ (Calm(m) => Calm(n))
      BY <1>7 DEF Shaped, Entry, Calm
    <2> HIDE DEF n
    <2>4. Underway(n) /\ (OnCourse(m, paused) => OnCourse(n, paused))
      BY <1>1, <1>7, <2>3 DEF Underway, OnCourse
    <2>5. Minded(m, db.status, paused) => Minded(n, db'.status, paused)
      BY <1>3, <2>3, <2>4 DEF Minded
    <2> QED
      BY <1>9, <2>1, <2>2, <2>3, <2>5
  <1>18. ~CommandFails(w, t)
    BY DEF CommandFails, TypeInv, TypeOK
  <1> QED
    BY <1>11, <1>12, <1>13, <1>14, <1>15, <1>16, <1>17, <1>18 DEF Step

\* A process that shuts down or ends no longer serves.
LEMMA LifeMinds ==
  ASSUME TypeInv, NEW w \in Worker, Shutdown(w) \/ Close(w) \/ Exit(w) \/ Crash(w)
  PROVE  Minds(w)
  <1> DEFINE m == mem[w]
  <1>1. Shaped(m) /\ mem \in [Worker -> Memory]
    BY ShapedMemory DEF TypeInv, TypeOK
  <1>2. Alive(w) /\ db' = db
    BY DEF Shutdown, Close, Exit, Crash, Alive
  <1>3. \E n : mem' = [mem EXCEPT ![w] = n] /\ n.proc \notin Service
    <2>1. CASE Shutdown(w)
      <3>1. mem' = [mem EXCEPT ![w] = [m EXCEPT !.proc = "draining"]]
        BY <2>1 DEF Shutdown
      <3>2. [m EXCEPT !.proc = "draining"].proc = "draining"
        BY <1>1 DEF Shaped, Entry
      <3> QED
        BY <3>1, <3>2 DEF Service
    <2>2. CASE Close(w)
      <3> DEFINE i == [m EXCEPT !.proc = "closing"]
                 n == [m EXCEPT !.proc = "closing", !.manualStop = TRUE,
                                !.sk[m.sock].ph = "ending", !.leaseTimer = FALSE]
      <3>1. mem' = [mem EXCEPT ![w] = i] \/ mem' = [mem EXCEPT ![w] = n]
        BY <2>2 DEF Close
      <3>2. i.proc = "closing" /\ n.proc = "closing"
        BY <1>1 DEF Shaped, Entry
      <3> QED
        BY <3>1, <3>2 DEF Service
    <2>3. CASE Exit(w) \/ Crash(w)
      <3>1. mem' = [mem EXCEPT ![w] = Blank("dead")]
        BY <2>3 DEF Exit, Crash
      <3>2. Blank("dead").proc = "dead"
        BY DEF Blank
      <3> QED
        BY <3>1, <3>2 DEF Service
    <2> QED
      BY <2>1, <2>2, <2>3
  <1> QED
    BY <1>2, <1>3 DEF Minds

\* Where no command exists, nothing fails and no lease was found gone, every step
\* is one of a process that minds the line, starts one, finds its lease gone, or
\* concerns none of these.
LEMMA EveryStepMinds ==
  ASSUME Ops = {}, MaxFail = 0, "replaced" \notin Codes,
         TypeInv, Dormant, ~used.lost, SocketInv, db.auto, [Next]_vars
  PROVE  \/ mem' = mem /\ db'.status = db.status /\ db'.auto = db.auto /\ paused' = paused
         \/ \E w \in Worker : Start(w) \/ Minds(w) \/ LeaseLost(w)
  <1>1. CASE UNCHANGED vars
    BY <1>1 DEF vars
  <1>2. CASE Lapse \/ Stall \/ \E op \in Ops : Request(op)
    BY <1>2 DEF Lapse, Stall
  <1>3. ASSUME NEW w \in Worker,
               \/ Connecting(w) \/ Timers(w) \/ Events(w) \/ Commands(w) \/ Life(w)
               \/ EnsureConnected(w) \/ \E a \in AttemptId : ConnectFails(w, a)
               \/ \E t \in mem[w].tasks : Step(w, t) \/ CommandFails(w, t)
        PROVE  \/ mem' = mem /\ db'.status = db.status /\ db'.auto = db.auto /\ paused' = paused
               \/ Start(w) \/ Minds(w) \/ LeaseLost(w)
    <2>1. CASE Connecting(w) \/ \E a \in AttemptId : ConnectFails(w, a)
      BY <2>1, ConnectingMinds DEF Connecting
    <2>2. CASE Timers(w) \/ EnsureConnected(w)
      <3>1. Renew(w) => mem' = mem /\ db' = db /\ paused' = paused
        BY DEF Renew
      <3> QED
        BY <2>2, <3>1, CallersMind DEF Timers
    <2>3. CASE Events(w)
      <3>1. ASSUME NEW s \in SockId, SaveCreds(w, s)
            PROVE  mem' = mem /\ db'.status = db.status /\ db'.auto = db.auto /\ paused' = paused
        BY <3>1 DEF SaveCreds, TypeInv, TypeOK
      <3> QED
        BY <2>3, <3>1, EventsMind DEF Events
    <2>4. CASE Commands(w)
      BY <2>4 DEF Commands, TypeInv, TypeOK
    <2>5. CASE Life(w)
      BY <2>5, LifeMinds, CallersMind DEF Life
    <2>6. CASE \E t \in mem[w].tasks : Step(w, t) \/ CommandFails(w, t)
      BY <2>6, ChoresMind
    <2> QED
      BY <1>3, <2>1, <2>2, <2>3, <2>4, <2>5, <2>6
  <1> QED
    BY <1>1, <1>2, <1>3 DEF Next

LEMMA MindedStep ==
  ASSUME ~Overlap, Ops = {}, MaxFail = 0, "replaced" \notin Codes,
         TypeInv, Dormant, SocketInv, MindedInv, [Next]_vars
  PROVE  MindedInv'
  <1> SUFFICES ASSUME ~used.lost' PROVE MindedInv'
    BY DEF MindedInv
  <1>l. ~used.lost
    BY LostStep
  <1>m. ASSUME NEW w \in Worker, LeaseLost(w) PROVE FALSE
    BY <1>m DEF LeaseLost, TypeInv, TypeOK
  <1>0. db.auto
    BY <1>l DEF MindedInv
  <1>1. CASE mem' = mem /\ db'.status = db.status /\ db'.auto = db.auto /\ paused' = paused
    BY <1>1, <1>l DEF MindedInv, Serving, Alive
  <1>2. ASSUME NEW w \in Worker, Start(w)
        PROVE  MindedInv'
    <2>1. mem' = [mem EXCEPT ![w] = Blank("booting")] /\ db' = db /\ \A v \in Worker : ~Alive(v)
      BY <1>2 DEF Start
    <2>2. \A v \in Worker : mem'[v] = IF v = w THEN Blank("booting") ELSE mem[v]
      BY <2>1, OneProcess
    <2>3. \A st, p : Minded(Blank("booting"), st, p)
      BY DEF Blank, Minded, Calm, OnCourse
    <2>4. \A v \in Worker : Serving(v)' \/ Alive(v)' => v = w
      BY <2>1, <2>2 DEF Serving, Alive
    <2> QED
      BY <1>0, <2>1, <2>2, <2>3, <2>4 DEF MindedInv
  <1>3. ASSUME NEW w \in Worker, Minds(w)
        PROVE  MindedInv'
    <2>1. PICK n : /\ mem' = [mem EXCEPT ![w] = n]
                   /\ n.proc \in Service =>
                        /\ mem[w].proc \in Service
                        /\ Minded(mem[w], db.status, paused) => Minded(n, db'.status, paused')
      BY <1>3 DEF Minds
    <2>2. \A v \in Worker : mem'[v] = IF v = w THEN n ELSE mem[v]
      BY <2>1, OneProcess
    <2>3. \A v \in Worker : Alive(v) => v = w
      BY <1>3, <1>l DEF Minds, MindedInv
    <2>4. \A v \in Worker : Serving(v)' \/ Alive(v)' => v = w
      BY <2>2, <2>3 DEF Serving, Alive
    <2>5. Serving(w)' => Minded(mem'[w], db'.status, paused')
      BY <1>l, <2>1, <2>2 DEF Serving, Service, MindedInv
    <2>6. db'.auto
      BY <1>0, <1>3 DEF Minds
    <2> QED
      BY <2>4, <2>5, <2>6 DEF MindedInv
  <1> QED
    BY <1>0, <1>l, <1>m, <1>1, <1>2, <1>3, EveryStepMinds

LEMMA MindedInit == Init => MindedInv
  BY DEF Init, MindedInv, Serving, Alive, Blank

\* While a process serves, a line that is switched on and neither logged out nor
\* paused has something under way that leads to a socket: whatever closes, timers,
\* retries, restarts and messages come in between, no handler is the last one
\* (lines 1293-1298).  The cases left out are those in which the code lets go of
\* a line on purpose or without a retry: a command, a connection replaced by
\* another client, a database that does not answer, and a lease that the process
\* finds gone: handleLeaseLost ends the socket and its close handler returns.
THEOREM NoStrandedLineHolds ==
  ASSUME ~Overlap, MaxFail = 0, Ops = {}, "replaced" \notin Codes
  PROVE  Spec => []NoStrandedLine
  <1> DEFINE Inv == TypeInv /\ HeldInv /\ SocketInv /\ MindedInv
  <1>1. Init => Inv
    BY TypeInit, HeldInit, SocketInit, MindedInit
  <1>2. Inv /\ [Next]_vars => Inv'
    BY TypeStep, HeldStep, SocketStep, MindedStep DEF HeldInv
  <1>3. Inv => NoStrandedLine
    <2> SUFFICES ASSUME Inv, ~paused, ~used.lost, db.status # "LOGGED_OUT", NEW w \in Worker, Serving(w)
                 PROVE  Alive(w) /\ Pursues(w)
      BY DEF NoStrandedLine
    <2>1. Underway(mem[w]) \/ mem[w].proc = "booting"
      BY DEF MindedInv, Minded
    <2>2. Underway(mem[w]) => Pursues(w)
      BY DEF Underway, Pursues, Chores
    <2> QED
      BY <2>1, <2>2 DEF Serving, Alive, Pursues
  <1> QED
    BY <1>1, <1>2, <1>3, PTL DEF Spec
=============================================================================
