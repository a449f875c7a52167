---------------------------- MODULE McpLifecycle ----------------------------
(***************************************************************************)
(* Starting, stopping and probing one MCP server from concurrent CLI       *)
(* processes (`cataforge mcp start | stop | health`).                      *)
(*                                                                         *)
(* The processes share two files: the spawn lock, created exclusively and  *)
(* holding its creator's pid, and the record, a state JSON replaced as a   *)
(* whole.  Only the spawn-or-attach decision of `start` runs under the     *)
(* lock; `stop`, `health` and the readiness probe that ends `start` read   *)
(* and replace the record without it.                                      *)
(*                                                                         *)
(* A process is one command; a process that ended may run again as another *)
(* command, and its old pid is Gone.  Process ids are not reused while     *)
(* some file or memory still names them.                                   *)
(***************************************************************************)
EXTENDS Naturals, FiniteSets

CONSTANTS
  Procs,               \* CLI processes
  Servers,             \* pids of server processes (bound: servers known at once)
  Commands,            \* the commands users run, of {"start", "stop", "health"}
  NoPid,               \* a record without a pid
  NoRecord,            \* no state file, or nothing loaded
  NoLock,              \* no lock file
  Gone,                \* the pid of a process that ended
  MaxFaults,           \* bound: crashes, deaths of servers, failing calls
  MaxOvertaken         \* bound: overtaken recoveries

ASSUME LifecycleAssumption ==
  /\ Commands \subseteq {"start", "stop", "health"}
  /\ NoPid \notin Servers
  /\ Gone \notin Procs
  /\ NoRecord \notin [status : {"running", "unhealthy", "stopped", "error", "registered"},
                      pid : Servers \cup {NoPid}]
  /\ NoLock \notin [by : Procs \cup {Gone}, written : BOOLEAN]
  /\ NoLock \notin Procs /\ NoLock # Gone
  /\ MaxFaults \in Nat
  /\ MaxOvertaken \in Nat

VARIABLES
  pc,        \* process -> the step it is at
  lock,      \* the lock file: who created it, and whether its pid is in it
  suspect,   \* process -> the pid it read from the lock
  record,    \* the state file
  held,      \* process -> the record it loaded, or the server it spawned
  live,      \* the server processes that run
  orphans,   \* servers whose spawner ended before it published them
  disturbed, \* a stop or health ran, or a server died on its own
  overtaken, \* recoveries that unlinked a process's lock they had not judged
  faults     \* faults so far

vars == <<pc, lock, suspect, record, held, live, orphans, disturbed, overtaken, faults>>

Statuses == {"running", "unhealthy", "stopped", "error", "registered"}

Record == [status : Statuses, pid : Servers \cup {NoPid}]

\* Inside the lock, from the creation of the file to its removal.
Holding == {"publish", "enter", "delete", "spawn", "save", "leave", "release"}

\* Between reading the lock's pid and unlinking the file.
Recovering == {"judge", "break"}

Phases == Holding \cup Recovering
          \cup {"idle", "lock", "wait", "load", "probe", "find", "term", "kill",
                "stopped", "refused"}

Stopped == [status |-> "stopped", pid |-> NoPid]

\* MCPServerState's defaults
Registered == [status |-> "registered", pid |-> NoPid]

Init ==
  /\ pc = [p \in Procs |-> "idle"]
  /\ lock = NoLock
  /\ suspect = [p \in Procs |-> Gone]
  /\ record = NoRecord
  /\ held = [p \in Procs |-> NoRecord]
  /\ live = {} /\ orphans = {}
  /\ disturbed = FALSE /\ overtaken = 0
  /\ faults = 0

Fault == faults < MaxFaults /\ faults' = faults + 1

Goto(p, from, to) == pc[p] = from /\ pc' = [pc EXCEPT ![p] = to]

\* p's command ends: its memory is gone and nobody alive has its pid.
Ends(p) ==
  /\ pc' = [pc EXCEPT ![p] = "idle"]
  /\ held' = [held EXCEPT ![p] = NoRecord]
  /\ suspect' = [q \in Procs |-> IF q = p \/ suspect[q] = p THEN Gone ELSE suspect[q]]

-----------------------------------------------------------------------------
(* _spawn_lock: an exclusive create, or recovery of a dead holder's lock *)

Start(p) ==
  /\ "start" \in Commands
  /\ Goto(p, "idle", "lock")
  /\ UNCHANGED <<lock, suspect, record, held, live, orphans, disturbed, overtaken, faults>>

\* os.open(O_CREAT | O_EXCL): the file exists, and is still empty.
CreateLock(p) ==
  /\ lock = NoLock
  /\ Goto(p, "lock", "publish")
  /\ lock' = [by |-> p, written |-> FALSE]
  /\ UNCHANGED <<suspect, record, held, live, orphans, disturbed, overtaken, faults>>

\* The pid goes to the file p created, whether or not it still has its name.
Publish(p) ==
  /\ Goto(p, "publish", "enter")
  /\ lock' = IF lock # NoLock /\ lock.by = p THEN [lock EXCEPT !.written = TRUE] ELSE lock
  /\ UNCHANGED <<suspect, record, held, live, orphans, disturbed, overtaken, faults>>

\* The file exists; an empty one tells nothing, and the contender sleeps.
ReadLock(p) ==
  /\ lock # NoLock
  /\ Goto(p, "lock", IF lock.written THEN "judge" ELSE "wait")
  /\ suspect' = [suspect EXCEPT ![p] = IF lock.written THEN lock.by ELSE @]
  /\ UNCHANGED <<lock, record, held, live, orphans, disturbed, overtaken, faults>>

\* Mutant: a holder that cannot be told dead is taken for dead.
JudgeAlwaysDead(p) ==
  /\ Goto(p, "judge", "break")
  /\ UNCHANGED <<lock, suspect, record, held, live, orphans, disturbed, overtaken, faults>>

\* pid_alive of the pid that was read
Judge(p) ==
  /\ Goto(p, "judge", IF suspect[p] = Gone THEN "break" ELSE "wait")
  /\ UNCHANGED <<lock, suspect, record, held, live, orphans, disturbed, overtaken, faults>>

\* The lock there now is another process's than the one p judged.
Overtaken(p) == lock # NoLock /\ lock.by \notin {suspect[p], Gone}

\* The unlink goes by name: it removes whatever lock is there now.
BreakLock(p) ==
  /\ Goto(p, "break", "wait")
  /\ lock' = NoLock
  /\ overtaken' = IF Overtaken(p) THEN overtaken + 1 ELSE overtaken
  /\ overtaken' <= MaxOvertaken
  /\ UNCHANGED <<suspect, record, held, live, orphans, disturbed, faults>>

\* The deadline is checked before every attempt.
Retry(p) ==
  /\ Goto(p, "wait", "lock")
  /\ UNCHANGED <<lock, suspect, record, held, live, orphans, disturbed, overtaken, faults>>

\* Mutant: a starter that gives up cleans the lock away, as an exit does.
TimeOutUnlinking(p) ==
  /\ pc[p] = "wait"
  /\ Ends(p)
  /\ lock' = NoLock
  /\ UNCHANGED <<record, live, orphans, disturbed, overtaken, faults>>

TimeOut(p) ==
  /\ pc[p] = "wait"
  /\ Ends(p)
  /\ UNCHANGED <<lock, record, live, orphans, disturbed, overtaken, faults>>

-----------------------------------------------------------------------------
(* start, under the lock *)

Attachable(r) == r # NoRecord /\ r.status \in {"running", "unhealthy"}

\* Mutant: an unhealthy server is taken for a dead one.
DecideRunningOnly(p) ==
  /\ held' = [held EXCEPT ![p] = record]
  /\ Goto(p, "enter",
          IF ~Attachable(record) THEN "spawn"
          ELSE IF record.pid \notin live \/ record.status = "unhealthy" THEN "delete"
          ELSE "leave")
  /\ UNCHANGED <<lock, suspect, record, live, orphans, disturbed, overtaken, faults>>

\* Return a running server, attach to an unhealthy one and probe it again,
\* forget a dead one, else spawn.
Decide(p) ==
  /\ held' = [held EXCEPT ![p] = record]
  /\ Goto(p, "enter",
          IF ~Attachable(record) THEN "spawn"
          ELSE IF record.pid \notin live THEN "delete"
          ELSE IF record.status = "running" THEN "leave" ELSE "release")
  /\ UNCHANGED <<lock, suspect, record, live, orphans, disturbed, overtaken, faults>>

DeleteState(p) ==
  /\ Goto(p, "delete", "spawn")
  /\ record' = NoRecord
  /\ UNCHANGED <<lock, suspect, held, live, orphans, disturbed, overtaken, faults>>

\* A pid the operating system may hand out: nothing names it any more.
Fresh(s) ==
  /\ s \notin live
  /\ record # NoRecord => record.pid # s
  /\ \A q \in Procs : held[q] # NoRecord => held[q].pid # s

Spawn(p, s) ==
  /\ Goto(p, "spawn", "save")
  /\ Fresh(s)
  /\ live' = live \cup {s}
  /\ held' = [held EXCEPT ![p] = [status |-> "running", pid |-> s]]
  /\ UNCHANGED <<lock, suspect, record, orphans, disturbed, overtaken, faults>>

\* Mutant: the error is recorded under a status no reader knows.
SpawnFailsAsFailed(p) ==
  /\ Fault
  /\ Goto(p, "spawn", "leave")
  /\ record' = [status |-> "failed", pid |-> NoPid]
  /\ UNCHANGED <<lock, suspect, held, live, orphans, disturbed, overtaken>>

\* Popen raises: the error is recorded and returned.
SpawnFails(p) ==
  /\ Fault
  /\ Goto(p, "spawn", "leave")
  /\ record' = [status |-> "error", pid |-> NoPid]
  /\ UNCHANGED <<lock, suspect, held, live, orphans, disturbed, overtaken>>

SaveRunning(p) ==
  /\ Goto(p, "save", "release")
  /\ record' = held[p]
  /\ UNCHANGED <<lock, suspect, held, live, orphans, disturbed, overtaken, faults>>

\* Writing the record raises after the spawn: the same handler records an
\* error, and the pid is lost.
SaveFails(p) ==
  /\ Fault
  /\ Goto(p, "save", "leave")
  /\ record' = [status |-> "error", pid |-> NoPid]
  /\ orphans' = orphans \cup ({held[p].pid} \cap live)
  /\ UNCHANGED <<lock, suspect, held, live, disturbed, overtaken>>

\* Unlink the lock by its name; the probe of a new or unhealthy server follows.
Unlock(p) ==
  /\ lock' = NoLock
  /\ \/ pc[p] = "leave" /\ Ends(p)
     \/ Goto(p, "release", "load") /\ UNCHANGED <<suspect, held>>
  /\ UNCHANGED <<record, live, orphans, disturbed, overtaken, faults>>

-----------------------------------------------------------------------------
(* health: load, probe, save the whole record *)

Health(p) ==
  /\ "health" \in Commands
  /\ Goto(p, "idle", "load")
  /\ disturbed' = TRUE
  /\ UNCHANGED <<lock, suspect, record, held, live, orphans, overtaken, faults>>

\* Without a record the probe is of a registered server.
Load(p) ==
  /\ Goto(p, "load", "probe")
  /\ held' = [held EXCEPT ![p] = IF record = NoRecord THEN Registered ELSE record]
  /\ UNCHANGED <<lock, suspect, record, live, orphans, disturbed, overtaken, faults>>

Probed(status, healthy) ==
  IF status = "running" /\ ~healthy THEN "unhealthy"
  ELSE IF status = "unhealthy" /\ healthy THEN "running"
  ELSE status

SaveProbe(p, healthy) ==
  /\ pc[p] = "probe"
  /\ record' = [held[p] EXCEPT !.status = Probed(@, healthy)]
  /\ Ends(p)
  /\ UNCHANGED <<lock, live, orphans, disturbed, overtaken, faults>>

-----------------------------------------------------------------------------
(* stop: SIGTERM, wait, SIGKILL, wait; no lock *)

Stop(p) ==
  /\ "stop" \in Commands
  /\ Goto(p, "idle", "find")
  /\ disturbed' = TRUE
  /\ UNCHANGED <<lock, suspect, record, held, live, orphans, overtaken, faults>>

FindServer(p) ==
  /\ held' = [held EXCEPT ![p] = record]
  /\ Goto(p, "find",
          IF record # NoRecord /\ record.pid \in live THEN "term" ELSE "stopped")
  /\ UNCHANGED <<lock, suspect, record, live, orphans, disturbed, overtaken, faults>>

\* Mutant: nobody waits for the process to end after SIGTERM.
TerminateNoWait(p) ==
  /\ \/ Goto(p, "term", "stopped") /\ live' = live \ {held[p].pid}
     \/ Goto(p, "term", "stopped") /\ UNCHANGED live
  /\ orphans' = orphans \cap live'
  /\ UNCHANGED <<lock, suspect, record, held, disturbed, overtaken, faults>>

\* The server ends on SIGTERM in time, or it does not.
Terminate(p) ==
  /\ \/ Goto(p, "term", "stopped") /\ live' = live \ {held[p].pid}
     \/ Goto(p, "term", "kill") /\ UNCHANGED live
  /\ orphans' = orphans \cap live'
  /\ UNCHANGED <<lock, suspect, record, held, disturbed, overtaken, faults>>

Kill(p) ==
  /\ Goto(p, "kill", "stopped")
  /\ live' = live \ {held[p].pid}
  /\ orphans' = orphans \cap live'
  /\ UNCHANGED <<lock, suspect, record, held, disturbed, overtaken, faults>>

\* A process the kernel does not let go survives SIGKILL too.
KillFails(p) ==
  /\ Fault
  /\ Goto(p, "kill", "refused")
  /\ held[p].pid \in live
  /\ UNCHANGED <<lock, suspect, record, held, live, orphans, disturbed, overtaken>>

SaveStop(p) ==
  /\ \/ pc[p] = "stopped" /\ record' = Stopped
     \/ pc[p] = "refused" /\ record' = [status |-> "error", pid |-> held[p].pid]
  /\ Ends(p)
  /\ UNCHANGED <<lock, live, orphans, disturbed, overtaken, faults>>

-----------------------------------------------------------------------------
(* The world *)

ServerDies(s) ==
  /\ Fault
  /\ s \in live
  /\ live' = live \ {s} /\ orphans' = orphans \ {s}
  /\ disturbed' = TRUE
  /\ UNCHANGED <<pc, lock, suspect, record, held, overtaken>>

\* A command is killed: its lock stays, and names a dead process.
Crash(p) ==
  /\ Fault
  /\ pc[p] # "idle"
  /\ Ends(p)
  /\ lock' = IF lock # NoLock /\ lock.by = p THEN [lock EXCEPT !.by = Gone] ELSE lock
  /\ orphans' = IF pc[p] = "save" THEN orphans \cup ({held[p].pid} \cap live) ELSE orphans
  /\ UNCHANGED <<record, live, disturbed, overtaken>>

-----------------------------------------------------------------------------
\* What a process does on its own once its command runs.
Step(p) ==
  \/ CreateLock(p) \/ Publish(p) \/ ReadLock(p) \/ Judge(p) \/ BreakLock(p) \/ Retry(p)
  \/ Decide(p) \/ DeleteState(p) \/ (\E s \in Servers : Spawn(p, s))
  \/ SaveRunning(p) \/ Unlock(p)
  \/ Load(p) \/ (\E healthy \in BOOLEAN : SaveProbe(p, healthy))
  \/ FindServer(p) \/ Terminate(p) \/ Kill(p) \/ SaveStop(p)

Next ==
  \/ \E p \in Procs : \/ Start(p) \/ Health(p) \/ Stop(p)
                      \/ Step(p)
                      \/ TimeOut(p) \/ SpawnFails(p) \/ SaveFails(p) \/ KillFails(p)
                      \/ Crash(p)
  \/ \E s \in Servers : ServerDies(s)

Spec == Init /\ [][Next]_vars

-----------------------------------------------------------------------------
(* Properties *)

TypeOK ==
  /\ pc \in [Procs -> Phases]
  /\ lock \in [by : Procs \cup {Gone}, written : BOOLEAN] \cup {NoLock}
  /\ suspect \in [Procs -> Procs \cup {Gone}]
  /\ record \in Record \cup {NoRecord}
  /\ held \in [Procs -> Record \cup {NoRecord}]
  /\ live \subseteq Servers /\ orphans \subseteq live
  /\ disturbed \in BOOLEAN
  /\ overtaken \in 0..MaxOvertaken /\ faults \in 0..MaxFaults

\* Who holds the lock, as the file says.
LockHolder == IF lock = NoLock THEN NoLock ELSE lock.by

Inside == {p \in Procs : pc[p] \in Holding}

\* At most one process decides and spawns at a time (_spawn_lock).  McpRace.cfg
\* shows that the code does not keep it.
MutualExclusion == \A p, q \in Inside : p = q

\* What the code keeps: across any crashes of holders and recoveries of their
\* locks, each process inside beyond the first was let in by a recovery of its
\* own, which unlinked the lock of a process it had not judged dead.  Overtaken
\* recoveries do not multiply, although everybody unlinks by name.
OneInsidePerRecovery == Cardinality(Inside) <= 1 + overtaken

Lock == INSTANCE SpawnLock WITH holder <- LockHolder, inside <- Inside, stolen <- overtaken,
                                Free <- NoLock

\* The lock file is a lock: created when it is free, given back by the process
\* that leaves, recovered from a dead owner, and stolen from a live one only by an
\* overtaken recovery; until the first theft nobody else ends a stay
\* (_spawn_lock).
ImplementsSpawnLock == Lock!Spec

\* While users only start, no server dies on its own and no recovery is overtaken,
\* all starts share one server, however they interleave and crash; only a server
\* whose spawner ended before it could publish the pid is lost (start, _spawn).
StartsShareOneServer ==
  ~disturbed /\ overtaken = 0 => \A s, t \in live \ orphans : s = t

\* stop reports "stopped" only about a process that is gone, whoever else starts
\* and stops servers meanwhile ("only after the PID is confirmed gone").
StopIsConfirmed ==
  \A p \in Procs : pc[p] = "stopped" /\ held[p] # NoRecord => held[p].pid \notin live

=============================================================================
