--------------------------- MODULE SessionManager ---------------------------
(***************************************************************************)
(* The Session Manager of the worker (apps/worker/src/session-manager.ts): *)
(* which process keeps the Baileys socket of ONE WhatsApp line open.       *)
(*                                                                         *)
(* Every map and set of the class is keyed by the instance id and nothing  *)
(* couples two instances, so the module follows one line and several       *)
(* worker processes.  A process is single threaded: an action is one       *)
(* uninterrupted stretch of its code, from one await to the next.  What    *)
(* happens between two awaits of a handler is therefore in one action, and *)
(* every other handler may run between two actions of the same handler.    *)
(*                                                                         *)
(*   mem[w]  the fields of the SessionManager object of process w and the  *)
(*           handlers in flight in it; a crash loses it                    *)
(*   redis   the key brainwsp:instance:{id}:owner                          *)
(*   db      the row of the instance and whether credentials are stored    *)
(*   cmds    the BullMQ queue whatsapp.commands                            *)
(***************************************************************************)
EXTENDS Naturals

CONSTANTS Worker,       \* worker processes; each has its own config.workerId
          SockId,       \* slots for the sockets a process has not closed yet
          AttemptId,    \* slots for the runs of connectOnce in flight
          None,         \* no process, no socket
          MaxQrCycles,  \* MAX_UNSCANNED_QR_CYCLES
          Overlap,      \* may two processes run at the same time?
          Pinned,       \* WORKER_ID set: a restarted process keeps its id
          Codes,        \* reasons WhatsApp itself closes a socket for
          Sends,        \* may an outbound message call ensureConnected?
          Ops,          \* the commands the panel issues
          MaxArmed,     \* bound: reconnect timers armed at once
          MaxCrash, MaxStall, MaxFail, MaxCmd   \* bounds: faults and commands

ASSUME SlotAssumption  == None \notin Worker \cup SockId /\ AttemptId # {}
ASSUME BoundAssumption ==
  /\ MaxQrCycles \in Nat \ {0} /\ MaxArmed \in Nat \ {0}
  /\ MaxCrash \in Nat /\ MaxStall \in Nat /\ MaxFail \in Nat /\ MaxCmd \in Nat
  /\ Overlap \in BOOLEAN /\ Pinned \in BOOLEAN /\ Sends \in BOOLEAN
  /\ Codes \subseteq {"lost", "loggedOut", "replaced"}
  /\ Ops \subseteq {"connect", "disconnect", "logout"}

VARIABLES mem, redis, db, cmds,
          used,     \* faults and commands spent so far, against the bounds, and
                    \* history: lost, a process found its lease gone
          paused    \* history: three QRs expired and nobody asked for another

vars == <<mem, redis, db, cmds, used, paused>>

-----------------------------------------------------------------------------
(***************************************************************************)
(* Types.  A handler in flight is a record: pc is the await it stands at,  *)
(* why tells what it is doing, s the socket it was registered on and n the *)
(* command it serves (0 for none).  conn holds the runs of connectOnce in  *)
(* flight: out, the row was read as LOGGED_OUT; me, the credentials loaded *)
(* belong to a linked device; wait, who awaits the result (0 the reconnect *)
(* timer, n a connect job).                                                *)
(***************************************************************************)
Status == {"DISCONNECTED", "CONNECTING", "QR_PENDING", "CONNECTED",
           "RECONNECTING", "LOGGED_OUT", "ERROR"}

\* The status each kind of handler ends up writing.
Target ==
  [manual   |-> "DISCONNECTED", disconnect |-> "DISCONNECTED",
   off      |-> "DISCONNECTED", loggedOut  |-> "LOGGED_OUT",
   logout   |-> "LOGGED_OUT",   unscanned  |-> "LOGGED_OUT",
   replaced |-> "ERROR",        lost       |-> "RECONNECTING",
   qr       |-> "QR_PENDING",   open       |-> "CONNECTED"]

Task == [pc: {"before", "unlink", "clear", "write", "release", "resched", "backoff"},
         why: DOMAIN Target, s: SockId \cup {None}, n: 0..MaxCmd]

ConnPc == {"idle", "read", "lease", "setnx", "held", "busy", "creds", "state", "dial"}
Conn   == [pc: ConnPc, out: BOOLEAN, me: BOOLEAN, wait: SUBSET (0..MaxCmd)]
Socket == [ph: {"free", "dial", "qr", "open", "ending", "unlinking"}, me: BOOLEAN]
Proc   == {"new", "booting", "up", "draining", "closing", "dead"}

Memory == [proc: Proc, sock: SockId \cup {None}, sk: [SockId -> Socket],
           conn: [AttemptId -> Conn], tasks: SUBSET Task, armed: 0..MaxArmed, tracked: BOOLEAN,
           leaseRetry: BOOLEAN, leaseTimer: BOOLEAN, manualStop: BOOLEAN,
           leaseLost: BOOLEAN, cycles: 0..(MaxQrCycles - 1)]

Idle   == [pc |-> "idle", out |-> FALSE, me |-> FALSE, wait |-> {}]
Unused == [ph |-> "free", me |-> FALSE]

\* The memory of a process that has not started, or is gone.
Blank(p) ==
  [proc |-> p, sock |-> None, sk |-> [s \in SockId |-> Unused], conn |-> [a \in AttemptId |-> Idle],
   tasks |-> {}, armed |-> 0, tracked |-> FALSE, leaseRetry |-> FALSE,
   leaseTimer |-> FALSE, manualStop |-> FALSE, leaseLost |-> FALSE, cycles |-> 0]

\* What every field of the class, the key, the row and the queue may hold; the
\* cycles never reach MaxQrCycles, because the cycle that would is the pause.
TypeOK ==
  /\ mem \in [Worker -> Memory]
  /\ redis \in [owner: Worker \cup {None}, fresh: BOOLEAN]
  /\ db \in [status: Status, auto: BOOLEAN, linked: BOOLEAN]
  /\ cmds \subseteq [op: Ops, n: 1..MaxCmd]
  /\ used \in [crash: 0..MaxCrash, stall: 0..MaxStall, fail: 0..MaxFail, cmd: 0..MaxCmd, lost: BOOLEAN]
  /\ paused \in BOOLEAN

Init ==
  /\ mem = [w \in Worker |-> Blank("new")]
  /\ redis = [owner |-> None, fresh |-> FALSE]
  /\ \E linked \in BOOLEAN :
       db = [status |-> IF linked THEN "CONNECTED" ELSE "DISCONNECTED",
             auto |-> TRUE, linked |-> linked]
  /\ cmds = {}
  /\ used = [crash |-> 0, stall |-> 0, fail |-> 0, cmd |-> 0, lost |-> FALSE]
  /\ paused = FALSE

-----------------------------------------------------------------------------
(***************************************************************************)
(* Helpers on the memory m of a process.                                   *)
(***************************************************************************)
Alive(w)   == mem[w].proc \notin {"new", "dead"}
Serving(w) == mem[w].proc \in {"booting", "up"}
Live(m, s) == m.sk[s].ph \in {"dial", "qr", "open"}

Attempts(m) == {a \in AttemptId : m.conn[a].pc # "idle"}

Renewing(w) == Alive(w) /\ mem[w].leaseTimer

\* The renewal interval runs, or Redis has given the answer that will start it.
Tending(w) == Renewing(w) \/ (Alive(w) /\ \E a \in AttemptId : mem[w].conn[a].pc = "held")

Slot(m)     == CHOOSE a \in AttemptId : a \notin Attempts(m)

\* connectOnce up to its first await; waiter awaits its result.
Begin(m, waiter) ==
  [m EXCEPT !.conn[Slot(m)] = [pc |-> "read", out |-> FALSE, me |-> FALSE, wait |-> waiter],
            !.manualStop = FALSE]

\* connect() without the "connecting" map.
ConnectUnguarded(m, waiter) ==
  IF m.sock # None \/ Attempts(m) = AttemptId THEN m ELSE Begin(m, waiter)

\* connect(): a registered socket is enough, an attempt in flight is awaited.
Connect(m, waiter) ==
  IF m.sock # None THEN m
  ELSE IF Attempts(m) = {} THEN Begin(m, waiter)
  ELSE [m EXCEPT !.conn = [a \in AttemptId |->
          IF a \in Attempts(m) THEN [m.conn[a] EXCEPT !.wait = @ \cup waiter] ELSE m.conn[a]]]

\* sockets.get, sockets.delete and socket.end, in that order.
EndSocket(m) ==
  IF m.sock = None THEN m
  ELSE [m EXCEPT !.sk[m.sock].ph = "ending", !.sock = None]

\* clearReconnectTimer and clearLeaseRetry; a timer whose handle was
\* overwritten in reconnectTimers stays armed.
ClearTimers(m) ==
  [m EXCEPT !.armed = IF m.tracked THEN @ - 1 ELSE @, !.tracked = FALSE, !.leaseRetry = FALSE]

\* A handler that starts, ends or goes on to its next await.
Spawn(m, pc, why, s, n) ==
  [m EXCEPT !.tasks = @ \cup {[pc |-> pc, why |-> why, s |-> s, n |-> n]}]
Drop(m, t)     == [m EXCEPT !.tasks = @ \ {t}]
Goto(m, t, pc) == Spawn(Drop(m, t), pc, t.why, t.s, t.n)

\* The part of scheduleReconnect that runs before its first await.
Reschedule(m, s) ==
  IF m.tracked \/ m.manualStop THEN m ELSE Spawn(m, "resched", "lost", s, 0)

\* The lease could not be had: connect() gives up, as it once did ...
LeaseGivenUp(m, a) == [m EXCEPT !.conn[a] = Idle]
\* ... or scheduleLeaseRetry.
LeaseBusy(m, a) == [m EXCEPT !.conn[a] = Idle, !.leaseRetry = @ \/ ~m.manualStop]
\* The lease is ours, but no interval renews it.
LeaseUntended(m, a) == [m EXCEPT !.conn[a].pc = "creds", !.leaseLost = FALSE, !.leaseRetry = FALSE]
\* The lease is ours: the end of ensureLease, then clearLeaseRetry.
LeaseHeld(m, a) == [m EXCEPT !.conn[a].pc = "creds", !.leaseLost = FALSE,
                             !.leaseTimer = TRUE, !.leaseRetry = FALSE]

\* The key is left behind.
Kept(w) == redis
\* releaseLease of process w: stop renewing, compare and delete the key.
Freed(w) == IF redis.owner = w THEN [owner |-> None, fresh |-> FALSE] ELSE redis

-----------------------------------------------------------------------------
(***************************************************************************)
(* connectOnce, one action per await.                                      *)
(***************************************************************************)
ReadInstance(w, a) ==
  /\ mem[w].conn[a].pc = "read"
  /\ mem' = [mem EXCEPT ![w].conn[a] =
               IF db.auto THEN [@ EXCEPT !.pc = "lease", !.out = (db.status = "LOGGED_OUT")]
               ELSE Idle]
  /\ UNCHANGED <<redis, db, cmds, used, paused>>

\* What a GET of process w finds: its own key, no key, or another owner.
Found(w) == CASE redis.owner = w -> "held" [] redis.owner = None -> "setnx" [] OTHER -> "busy"

\* GET.  The TTL of our own key is not refreshed, and the answer is on its way
\* while other handlers of the process run.
GetLease(w, a) ==
  /\ mem[w].conn[a].pc = "lease"
  /\ mem' = [mem EXCEPT ![w].conn[a].pc = Found(w)]
  /\ redis' = [redis EXCEPT !.fresh = @ /\ (redis.owner = w => Tending(w))]
  /\ UNCHANGED <<db, cmds, used, paused>>

\* SET key workerId PX ttl, without NX.
SetLeaseAnyway(w, a) ==
  /\ mem[w].conn[a].pc = "setnx"
  /\ redis' = [owner |-> w, fresh |-> TRUE]
  /\ mem' = [mem EXCEPT ![w].conn[a].pc = "held"]
  /\ UNCHANGED <<db, cmds, used, paused>>

\* SET key workerId PX ttl NX.
SetLease(w, a) ==
  /\ mem[w].conn[a].pc = "setnx"
  /\ redis' = IF redis.owner = None THEN [owner |-> w, fresh |-> TRUE] ELSE redis
  /\ mem' = [mem EXCEPT ![w].conn[a].pc = IF redis.owner = None THEN "held" ELSE "busy"]
  /\ UNCHANGED <<db, cmds, used, paused>>

\* The answer is there: it is not asked again whether the key still is.
AnswerLease(w, a) ==
  /\ mem[w].conn[a].pc \in {"held", "busy"}
  /\ mem' = [mem EXCEPT ![w] = IF @.conn[a].pc = "held" THEN LeaseHeld(@, a) ELSE LeaseBusy(@, a)]
  /\ UNCHANGED <<redis, db, cmds, used, paused>>

\* Credentials of a line read as LOGGED_OUT are discarded before use.
LoadCreds(w, a) ==
  /\ mem[w].conn[a].pc = "creds"
  /\ LET me == db.linked /\ ~mem[w].conn[a].out
     IN  /\ mem' = [mem EXCEPT ![w].conn[a] = [@ EXCEPT !.pc = "state", !.me = me]]
         /\ db' = [db EXCEPT !.linked = me]
  /\ UNCHANGED <<redis, cmds, used, paused>>

SetConnecting(w, a) ==
  /\ mem[w].conn[a].pc = "state"
  /\ mem' = [mem EXCEPT ![w].conn[a].pc = "dial"]
  /\ db' = [db EXCEPT !.status = "CONNECTING"]
  /\ UNCHANGED <<redis, cmds, used, paused>>

\* After fetchLatestBaileysVersion: makeWASocket and sockets.set, with no
\* second look at manualStops or at the lease.
Dial(w, a) ==
  /\ mem[w].conn[a].pc = "dial"
  /\ \E s \in SockId :
       /\ mem[w].sk[s].ph = "free"
       /\ \A t \in mem[w].tasks : t.s # s
       /\ mem' = [mem EXCEPT ![w].sk[s] = [ph |-> "dial", me |-> mem[w].conn[a].me],
                             ![w].sock = s, ![w].conn[a] = Idle]
  /\ UNCHANGED <<redis, db, cmds, used, paused>>

\* The database fails under connectOnce: only the reconnect timer's caller
\* tries again.
ConnectFails(w, a) ==
  /\ used.fail < MaxFail
  /\ mem[w].conn[a].pc \in {"read", "creds", "state"}
  /\ mem' = [mem EXCEPT ![w] =
               LET idle == [@ EXCEPT !.conn[a] = Idle]
               IN  IF 0 \in @.conn[a].wait THEN Reschedule(idle, None) ELSE idle]
  /\ used' = [used EXCEPT !.fail = @ + 1]
  /\ UNCHANGED <<redis, db, cmds, paused>>

-----------------------------------------------------------------------------
(***************************************************************************)
(* What calls connect(): the two timers and an outbound message.           *)
(***************************************************************************)
\* setInterval where the code says setTimeout.
ReconnectRepeats(w) ==
  /\ mem[w].armed > 0
  /\ mem' = [mem EXCEPT ![w] = Connect([@ EXCEPT !.tracked = FALSE], {0})]
  /\ UNCHANGED <<redis, db, cmds, used, paused>>

ReconnectFires(w) ==
  /\ mem[w].armed > 0
  /\ mem' = [mem EXCEPT ![w] =
               Connect([mem[w] EXCEPT !.armed = @ - 1, !.tracked = FALSE], {0})]
  /\ UNCHANGED <<redis, db, cmds, used, paused>>

LeaseRetryFires(w) ==
  /\ mem[w].leaseRetry
  /\ mem' = [mem EXCEPT ![w] = Connect([@ EXCEPT !.leaseRetry = FALSE], {})]
  /\ UNCHANGED <<redis, db, cmds, used, paused>>

\* ensureConnected of a message job: connect() only when there is no socket.
EnsureConnected(w) ==
  /\ Sends /\ Serving(w) /\ mem[w].sock = None
  /\ mem' = [mem EXCEPT ![w] = Connect(@, {})]
  /\ UNCHANGED <<redis, db, cmds, used, paused>>

-----------------------------------------------------------------------------
(***************************************************************************)
(* The lease: renewal every 10 s against a TTL of 30 s.                    *)
(***************************************************************************)
Renew(w) ==
  /\ Renewing(w) /\ redis.owner = w
  /\ redis' = [redis EXCEPT !.fresh = TRUE]
  /\ UNCHANGED <<mem, db, cmds, used, paused>>

\* The renewal script answers 0: handleLeaseLost.
LeaseLost(w) ==
  /\ Renewing(w) /\ redis.owner # w
  /\ mem' = [mem EXCEPT ![w] =
               IF @.leaseLost THEN @
               ELSE EndSocket([@ EXCEPT !.leaseLost = TRUE, !.leaseTimer = FALSE])]
  /\ used' = [used EXCEPT !.lost = TRUE]
  /\ UNCHANGED <<redis, db, cmds, paused>>

\* The key expires because nobody renews it, or because the process found a
\* remainder of TTL too short to reach its first renewal.
Lapse ==
  /\ redis.owner # None
  /\ ~(Tending(redis.owner) /\ redis.fresh)
  /\ redis' = [owner |-> None, fresh |-> FALSE]
  /\ UNCHANGED <<mem, db, cmds, used, paused>>

\* The key disappears under a process that does renew it: its event loop or
\* its Redis connection stood still for the whole TTL, or Redis restarted.
Stall ==
  /\ used.stall < MaxStall
  /\ redis.owner # None
  /\ Tending(redis.owner) /\ redis.fresh
  /\ redis' = [owner |-> None, fresh |-> FALSE]
  /\ used' = [used EXCEPT !.stall = @ + 1]
  /\ UNCHANGED <<mem, db, cmds, paused>>

-----------------------------------------------------------------------------
(***************************************************************************)
(* The handler of connection.update.                                       *)
(***************************************************************************)
\* A QR for a socket without credentials (shown again when it is refreshed).
QrEvent(w, s) ==
  /\ mem[w].sk[s].ph \in {"dial", "qr"} /\ ~mem[w].sk[s].me
  /\ mem' = [mem EXCEPT ![w] =
               Spawn([mem[w] EXCEPT !.sk[s].ph = "qr"], "write", "qr", s, 0)]
  /\ UNCHANGED <<redis, db, cmds, used, paused>>

\* The QR is scanned: creds.update stores credentials that carry "me".
Scanned(w, s) ==
  /\ mem[w].sk[s].ph = "qr" /\ ~mem[w].sk[s].me
  /\ mem' = [mem EXCEPT ![w].sk[s].me = TRUE]
  /\ db' = [db EXCEPT !.linked = TRUE]
  /\ UNCHANGED <<redis, cmds, used, paused>>

OpenEvent(w, s) ==
  /\ mem[w].sk[s].ph = "dial" /\ mem[w].sk[s].me
  /\ mem' = [mem EXCEPT ![w] =
               Spawn([mem[w] EXCEPT !.sk[s].ph = "open"], "write", "open", s, 0)]
  /\ UNCHANGED <<redis, db, cmds, used, paused>>

\* creds.update of an open socket: saveCreds upserts, whatever was cleared.
SaveCreds(w, s) ==
  /\ mem[w].sk[s].ph = "open" /\ ~db.linked
  /\ db' = [db EXCEPT !.linked = TRUE]
  /\ UNCHANGED <<mem, redis, cmds, used, paused>>

\* The reasons the socket in slot s may give for its close: end() carries no
\* code, logout() carries loggedOut, WhatsApp gives one of Codes.
CloseCodes(k) ==
  CASE k.ph = "ending"    -> {"lost"}
    [] k.ph = "unlinking" -> {"loggedOut"}
    [] k.ph = "qr" /\ k.me -> {"lost"}                    \* restartRequired
    [] k.ph \in {"dial", "qr"} /\ ~k.me -> Codes \cap {"lost"}
    [] k.ph \in {"dial", "open"} /\ k.me -> Codes
    [] OTHER -> {}

\* connection "close", up to its first await: sockets.delete whatever socket
\* is registered, and read manualStops.
CloseEvent(w, s) ==
  /\ \E code \in CloseCodes(mem[w].sk[s]) :
       LET why == IF mem[w].manualStop THEN "manual"
                  ELSE IF code = "lost" /\ ~mem[w].sk[s].me THEN "unscanned"
                  ELSE code
       IN  mem' = [mem EXCEPT ![w] =
                     Spawn([mem[w] EXCEPT !.sk[s] = Unused, !.sock = None], "before", why, s, 0)]
  /\ UNCHANGED <<redis, db, cmds, used, paused>>

\* The cycles counted so far, and this one, use up the QRs of the line.
LastCycleLate(m) == m.cycles >= MaxQrCycles
LastCycle(m) == m.cycles + 1 >= MaxQrCycles

\* The rest of the handler, after it read the status the row had before.
Before(w, t) ==
  /\ t.pc = "before"
  /\ LET m    == mem[w]
         gone == Drop(m, t)
         m1   ==
           IF m.leaseLost THEN [gone EXCEPT !.leaseLost = FALSE]
           ELSE CASE t.why = "loggedOut" -> Goto(m, t, "clear")
                  [] t.why \in {"manual", "replaced"} -> Goto(m, t, "write")
                  [] t.why = "unscanned" /\ db.status = "QR_PENDING" /\ LastCycle(m) ->
                       [Goto(m, t, "write") EXCEPT !.cycles = 0]
                  [] t.why = "unscanned" /\ db.status = "QR_PENDING" /\ ~LastCycle(m) ->
                       Reschedule([gone EXCEPT !.cycles = @ + 1], t.s)
                  [] OTHER -> Reschedule(gone, t.s)
     IN  mem' = [mem EXCEPT ![w] = m1]
  /\ UNCHANGED <<redis, db, cmds, used, paused>>

-----------------------------------------------------------------------------
(***************************************************************************)
(* The awaits the handlers of a close, of disconnect() and of logout()     *)
(* have in common.                                                         *)
(***************************************************************************)
\* await socket.logout(): it may throw before it ends the socket.
Unlink(w, t) ==
  /\ t.pc = "unlink"
  /\ \E done \in BOOLEAN :
       mem' = [mem EXCEPT ![w] =
                 LET m == Goto(@, t, "clear")
                 IN  IF done /\ Live(m, t.s) THEN [m EXCEPT !.sk[t.s].ph = "unlinking"] ELSE m]
  /\ UNCHANGED <<redis, db, cmds, used, paused>>

\* await auth.clear().
ClearCreds(w, t) ==
  /\ t.pc = "clear"
  /\ mem' = [mem EXCEPT ![w] = Goto(@, t, "write")]
  /\ db' = [db EXCEPT !.linked = FALSE]
  /\ UNCHANGED <<redis, cmds, used, paused>>

\* await setInstanceState(...).
Write(w, t) ==
  /\ t.pc = "write"
  /\ db' = [db EXCEPT !.status = Target[t.why]]
  /\ mem' = [mem EXCEPT ![w] =
               CASE t.why = "qr"   -> Drop(@, t)
                 [] t.why = "open" -> [Drop(@, t) EXCEPT !.cycles = 0]
                 [] OTHER          -> Goto(@, t, "release")]
  /\ paused' = (paused \/ t.why = "unscanned")
  /\ UNCHANGED <<redis, cmds, used>>

\* The key is deleted and the renewal interval keeps running.
ReleaseKeyOnly(w, t) ==
  /\ t.pc = "release"
  /\ redis' = Freed(w)
  /\ mem' = [mem EXCEPT ![w] = Drop(@, t)]
  /\ UNCHANGED <<db, cmds, used, paused>>

\* await releaseLease(...): the interval is cleared and the script sent without
\* a pause, and Redis answers the commands of one connection in order, so a GET
\* of ensureLease sent before has its answer before the key is deleted - and is
\* acted on by AnswerLease after it.  A line unlinked from the phone connects again.
Release(w, t) ==
  /\ t.pc = "release"
  /\ redis' = Freed(w)
  /\ mem' = [mem EXCEPT ![w] =
               LET m == [Drop(@, t) EXCEPT !.leaseTimer = FALSE]
               IN  IF t.why = "loggedOut" THEN Connect(m, {}) ELSE m]
  /\ UNCHANGED <<db, cmds, used, paused>>

\* scheduleReconnect: the row is read; a line switched off is released.
ReadAuto(w, t) ==
  /\ t.pc = "resched"
  /\ mem' = [mem EXCEPT ![w] =
               IF db.auto THEN Goto(@, t, "backoff")
               ELSE Spawn(Drop(@, t), "write", "off", t.s, 0)]
  /\ UNCHANGED <<redis, db, cmds, used, paused>>

\* RECONNECTING is written and no timer armed.
BackoffUntimed(w, t) ==
  /\ t.pc = "backoff"
  /\ db' = [db EXCEPT !.status = "RECONNECTING"]
  /\ mem' = [mem EXCEPT ![w] = Drop(@, t)]
  /\ UNCHANGED <<redis, cmds, used, paused>>

\* scheduleReconnect: RECONNECTING is written and the timer armed, with no
\* second look at manualStops or reconnectTimers.
Backoff(w, t) ==
  /\ t.pc = "backoff" /\ mem[w].armed < MaxArmed
  /\ db' = [db EXCEPT !.status = "RECONNECTING"]
  /\ mem' = [mem EXCEPT ![w] =
               [Drop(mem[w], t) EXCEPT !.armed = @ + 1, !.tracked = TRUE]]
  /\ UNCHANGED <<redis, cmds, used, paused>>

\* The database fails under disconnect() or logout(): the job fails, and a
\* command has a single attempt.
CommandFails(w, t) ==
  /\ used.fail < MaxFail
  /\ t.n # 0 /\ t.pc \in {"clear", "write"}
  /\ mem' = [mem EXCEPT ![w] = Drop(@, t)]
  /\ used' = [used EXCEPT !.fail = @ + 1]
  /\ UNCHANGED <<redis, db, cmds, paused>>

Step(w, t) ==
  \/ Before(w, t) \/ Unlink(w, t) \/ ClearCreds(w, t) \/ Write(w, t)
  \/ Release(w, t) \/ ReadAuto(w, t) \/ Backoff(w, t)

-----------------------------------------------------------------------------
(***************************************************************************)
(* Commands: the API changes autoConnect and queues a job; any process     *)
(* that serves takes it, whether or not the line's socket is its own.      *)
(***************************************************************************)
Request(op) ==
  /\ used.cmd < MaxCmd
  /\ op \in Ops
  /\ db' = [db EXCEPT !.auto = (op = "connect")]
  /\ used' = [used EXCEPT !.cmd = @ + 1]
  /\ cmds' = cmds \cup {[op |-> op, n |-> used.cmd + 1]}
  /\ UNCHANGED <<mem, redis, paused>>

\* The oldest job of the queue, for a process that serves.
Takes(w, c) == Serving(w) /\ c \in cmds /\ \A d \in cmds : c.n <= d.n

TakeConnect(w, c) ==
  /\ Takes(w, c) /\ c.op = "connect"
  /\ cmds' = cmds \ {c}
  /\ mem' = [mem EXCEPT ![w] = Connect([@ EXCEPT !.cycles = 0], {c.n})]
  /\ paused' = FALSE
  /\ UNCHANGED <<redis, db, used>>

TakeDisconnect(w, c) ==
  /\ Takes(w, c) /\ c.op = "disconnect"
  /\ cmds' = cmds \ {c}
  /\ mem' = [mem EXCEPT ![w] =
               Spawn([EndSocket(ClearTimers(@)) EXCEPT !.manualStop = TRUE],
                     "write", "disconnect", None, c.n)]
  /\ UNCHANGED <<redis, db, used, paused>>

TakeLogout(w, c) ==
  /\ Takes(w, c) /\ c.op = "logout"
  /\ cmds' = cmds \ {c}
  /\ mem' = [mem EXCEPT ![w] =
               Spawn([ClearTimers(@) EXCEPT !.manualStop = TRUE, !.sock = None],
                     IF @.sock = None THEN "clear" ELSE "unlink", "logout", @.sock, c.n)]
  /\ UNCHANGED <<redis, db, used, paused>>

-----------------------------------------------------------------------------
(***************************************************************************)
(* Processes: start, ordered shutdown, crash.                              *)
(***************************************************************************)
\* The job queues are served from the constructor on, bootstrap comes later.
Start(w) ==
  /\ mem[w].proc \in IF Pinned THEN {"new", "dead"} ELSE {"new"}
  /\ Overlap \/ \A v \in Worker : ~Alive(v)
  /\ mem' = [mem EXCEPT ![w] = Blank("booting")]
  /\ UNCHANGED <<redis, db, cmds, used, paused>>

Bootstrap(w) ==
  /\ mem[w].proc = "booting"
  /\ mem' = [mem EXCEPT ![w] =
               LET m == [@ EXCEPT !.proc = "up"]
               IN  IF db.auto /\ db.status # "LOGGED_OUT" THEN Connect(m, {}) ELSE m]
  /\ UNCHANGED <<redis, db, cmds, used, paused>>

\* SIGTERM: no new jobs, those in flight are waited for.
Shutdown(w) ==
  /\ mem[w].proc = "up"
  /\ used.crash < MaxCrash
  /\ mem' = [mem EXCEPT ![w].proc = "draining"]
  /\ used' = [used EXCEPT !.crash = @ + 1]
  /\ UNCHANGED <<redis, db, cmds, paused>>

\* close(): end the registered socket and release its lease; a line whose
\* socket is not registered yet is not among the ids.
Close(w) ==
  /\ mem[w].proc = "draining"
  /\ \A a \in AttemptId : mem[w].conn[a].wait \subseteq {0}
  /\ \A t \in mem[w].tasks : t.n = 0
  /\ IF mem[w].sock = None
     THEN /\ mem' = [mem EXCEPT ![w].proc = "closing"]
          /\ redis' = redis
     ELSE /\ mem' = [mem EXCEPT ![w] = [@ EXCEPT !.proc = "closing", !.manualStop = TRUE,
                                          !.sk[mem[w].sock].ph = "ending", !.leaseTimer = FALSE]]
          /\ redis' = Freed(w)
  /\ UNCHANGED <<db, cmds, used, paused>>

\* The jobs in flight in a process that dies go back to the queue.
InFlight(w) ==
  {[op |-> t.why, n |-> t.n] : t \in {u \in mem[w].tasks : u.n # 0}}
    \cup {[op |-> "connect", n |-> n] : n \in (UNION {mem[w].conn[a].wait : a \in AttemptId}) \ {0}}

\* process.exit after close(), or a crash at any point.
Exit(w) ==
  /\ mem[w].proc = "closing"
  /\ mem' = [mem EXCEPT ![w] = Blank("dead")]
  /\ UNCHANGED <<redis, db, cmds, used, paused>>

Crash(w) ==
  /\ Alive(w)
  /\ used.crash < MaxCrash
  /\ mem' = [mem EXCEPT ![w] = Blank("dead")]
  /\ cmds' = cmds \cup InFlight(w)
  /\ used' = [used EXCEPT !.crash = @ + 1]
  /\ UNCHANGED <<redis, db, paused>>

-----------------------------------------------------------------------------
(***************************************************************************)
(* The specification.                                                      *)
(***************************************************************************)
Connecting(w) == \E a \in AttemptId :
  \/ ReadInstance(w, a) \/ GetLease(w, a) \/ SetLease(w, a) \/ AnswerLease(w, a)
  \/ LoadCreds(w, a) \/ SetConnecting(w, a) \/ Dial(w, a)

Timers(w) == ReconnectFires(w) \/ LeaseRetryFires(w) \/ Renew(w) \/ LeaseLost(w)

Events(w) ==
  \E s \in SockId : \/ QrEvent(w, s) \/ Scanned(w, s) \/ OpenEvent(w, s)
                    \/ SaveCreds(w, s) \/ CloseEvent(w, s)

Commands(w) ==
  \E c \in cmds : TakeConnect(w, c) \/ TakeDisconnect(w, c) \/ TakeLogout(w, c)

Life(w) ==
  \/ Start(w) \/ Bootstrap(w) \/ Shutdown(w) \/ Close(w) \/ Exit(w) \/ Crash(w)

Next ==
  \/ \E w \in Worker :
       \/ Connecting(w) \/ Timers(w) \/ Events(w) \/ Commands(w) \/ Life(w)
       \/ EnsureConnected(w) \/ \E a \in AttemptId : ConnectFails(w, a)
       \/ \E t \in mem[w].tasks : Step(w, t) \/ CommandFails(w, t)
  \/ Lapse \/ Stall
  \/ \E op \in Ops : Request(op)

Spec == Init /\ [][Next]_vars

\* The event loop runs every callback that is due, Redis drops a key whose TTL
\* is over, Docker starts the process again and a socket that was ended
\* reports its close.  Nothing is fair about WhatsApp, the users or the faults.
Ends(w) ==
  \E s \in SockId : mem[w].sk[s].ph \in {"ending", "unlinking"} /\ CloseEvent(w, s)

Fairness ==
  /\ \A w \in Worker :
       /\ WF_vars(Connecting(w))
       /\ WF_vars(ReconnectFires(w)) /\ WF_vars(LeaseRetryFires(w)) /\ WF_vars(LeaseLost(w))
       /\ WF_vars(\E t \in mem[w].tasks : Step(w, t))
       /\ WF_vars(Ends(w))
       /\ WF_vars(Commands(w))
       /\ WF_vars(Start(w)) /\ WF_vars(Bootstrap(w)) /\ WF_vars(Close(w)) /\ WF_vars(Exit(w))
  /\ WF_vars(Lapse)

FairSpec == Spec /\ Fairness

-----------------------------------------------------------------------------
(***************************************************************************)
(* Properties.                                                             *)
(***************************************************************************)
LiveOn(w) == \E s \in SockId : Live(mem[w], s)

\* The reason for the "connecting" map (lines 139-144): reconnect timers, lease
\* retries, bootstrap and messages that call ensureConnected at the same time
\* never leave one process with two open sockets for the line.  Promised where
\* no command stops the line and no process has found its lease gone (used.lost).
OneSocketPerProcess ==
  ~used.lost => \A w \in Worker : \A s, t \in SockId : Live(mem[w], s) /\ Live(mem[w], t) => s = t

\* A living process that owns the Redis key renews it, or has the answer that
\* will make it do so on its way: it never sits on a lease it forgot, which
\* would keep every other process from the line for as long as it lives
\* (ensureLease, releaseLease, handleLeaseLost).
HeldLeaseIsRenewed ==
  \A w \in Worker : redis.owner = w /\ Alive(w) => Tending(w)

\* Two processes never both believe they hold the lease: the key does not
\* disappear under a process that renews it, or was just told it is its own.
OneKeeper == \A v, w \in Worker : Tending(v) /\ Tending(w) => v = w

\* What process w still has under way for the line; a socket that was ended
\* has a close to report yet.
Pursues(w) ==
  LET m == mem[w]
  IN  \/ m.sock # None \/ \E s \in SockId : m.sk[s].ph \in {"ending", "unlinking"}
      \/ Attempts(m) # {} \/ m.tasks # {} \/ m.armed > 0 \/ m.leaseRetry
      \/ m.proc = "booting"

\* No line is forgotten: while some process serves, a line that is switched
\* on and neither logged out nor paused has a socket, an attempt in flight,
\* a timer or a handler that will lead to one (the incident told in lines
\* 1293-1298: lines left without a socket for hours).  A process that finds its
\* lease gone (used.lost) does leave the line: handleLeaseLost ends the socket
\* and lines 281-283 return.
NoStrandedLine ==
  (db.auto /\ ~paused /\ ~used.lost /\ db.status # "LOGGED_OUT" /\ \E w \in Worker : Serving(w))
    => cmds # {} \/ \E w \in Worker : Alive(w) /\ Pursues(w)

\* "Solo un worker puede tener el socket activo" (README.md line 324).
OneWorkerHasTheSocket ==
  \A v, w \in Worker : LiveOn(v) /\ LiveOn(w) => v = w

\* A line that should be up gets a registered socket again after a crash, a
\* shutdown, a lost connection or an unlinking (scheduleReconnect,
\* scheduleLeaseRetry, bootstrap, lines 306-312), as long as the database answers,
\* the key does not disappear and no command comes between.  A crash after an
\* unlinking leaves it LOGGED_OUT, which bootstrap skips; a line replaced by
\* another client stays down by design (lines 333-343) and is not followed here.
LineRecovers ==
  (db.auto /\ ~paused) ~>
    (\/ paused \/ (db.status = "LOGGED_OUT" /\ used.crash > 0)
     \/ used.stall + used.fail + used.cmd > 0
     \/ \E w \in Worker : Alive(w) /\ mem[w].sock # None)

\* A line that was switched off for good is left alone: every attempt, timer
\* and retry for it comes to an end (connectOnce and scheduleReconnect read
\* autoConnect again each time).
SwitchedOffSettles ==
  <>[]~db.auto =>
    <>[](\A w \in Worker : /\ Attempts(mem[w]) = {} /\ mem[w].armed = 0
                           /\ ~mem[w].leaseRetry)
-----------------------------------------------------------------------------
(***************************************************************************)
(* ensureLease, its renewal interval and releaseLease implement the        *)
(* exclusive lease: the owner is the Redis key, the keepers are the        *)
(* processes whose renewal interval runs, or that Redis has just told so.  *)
(***************************************************************************)
Keepers == {w \in Worker : Tending(w)}

Lease == INSTANCE ExclusiveLease
           WITH Holder <- Worker, owner <- redis.owner, keepers <- Keepers

\* Every step of the Session Manager is a step of the lease or leaves it alone
\* (ensureLease, handleLeaseLost, releaseLease, lines 1339-1393), when no key
\* disappears under a process that renews it.
ImplementsLease == Lease!Spec
=============================================================================
