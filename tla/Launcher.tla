------------------------------- MODULE Launcher -------------------------------
(***************************************************************************)
(* The launcher, app/launcher.py: `start` and `stop` commands, the         *)
(* supervisor daemons they create and signal, and the runtime each daemon  *)
(* keeps alive.                                                            *)
(*                                                                         *)
(* The pidfile is an inode and a name.  flock holds the inode; unlink takes *)
(* the name away and leaves the lock; the next open with O_CREAT makes     *)
(* another inode.  Commands and daemons are processes: every call that     *)
(* another process can observe is a step.  Times are left out: a wait may  *)
(* end, and a timeout may strike, at any moment.                           *)
(***************************************************************************)
EXTENDS Naturals

CONSTANTS Starts, Stops,   \* commands, each given once
          InodeBound,      \* bound: pidfiles created
          RespawnBound     \* bound: runtimes one daemon spawns

ASSUME LauncherAssumption == /\ "nobody" \notin Starts /\ Starts \cap Stops = {}
                             /\ InodeBound \in Nat /\ RespawnBound \in Nat \ {0}

\* The daemon that a start creates has the start's name.
VARIABLES command,   \* command -> where it is
          daemon,    \* start -> its daemon: where it is, the inode it has locked
          name,      \* the inode that supervisor.pid names, 0 if there is none
          pid,       \* inode -> the daemon whose pid it contains, or nobody
          inodes,    \* inodes made so far
          runtime,   \* daemon -> its child process
          recorded,  \* state.json: the daemon whose child it names, or nobody
          told       \* daemons with a SIGTERM

launcherVars == <<command, daemon, name, pid, inodes, runtime, recorded, told>>

NoDaemon == [pc |-> "none", fd |-> 0, spawned |-> 0]

LauncherInit == /\ command = [c \in Starts \cup Stops |-> "new"]
                /\ daemon = [d \in Starts |-> NoDaemon]
                /\ name = 0 /\ inodes = 0
                /\ pid = [i \in 1..InodeBound |-> "nobody"]
                /\ runtime = [d \in Starts |-> "none"]
                /\ recorded = "nobody" /\ told = {}

LockHeld(i) == \E d \in Starts : daemon[d].fd = i /\ i # 0

\* supervisor_alive: the file has a pid, and its flock cannot be had.
SupervisorAlive == name # 0 /\ pid[name] # "nobody" /\ LockHeld(name)

Answered == \E d \in Starts : runtime[d] = "up"

Go(c, pc) == command' = [command EXCEPT ![c] = pc]
At(d, pc) == daemon' = [daemon EXCEPT ![d].pc = pc]

-----------------------------------------------------------------------------
(* cmd_start                                                               *)

StartChecks(c) ==
  /\ c \in Starts /\ command[c] = "new"
  /\ Go(c, IF SupervisorAlive \/ Answered THEN "done" ELSE "clean")
  /\ UNCHANGED <<daemon, name, pid, inodes, runtime, recorded, told>>

\* _cleanup_files, on what the checks have seen; then the daemon is created.
StartCleans(c) ==
  /\ c \in Starts /\ command[c] = "clean"
  /\ name' = 0 /\ recorded' = "nobody"
  /\ At(c, "boot") /\ Go(c, "done")
  /\ UNCHANGED <<pid, inodes, runtime, told>>

-----------------------------------------------------------------------------
(* cmd_stop                                                                *)

Terminate(d) == runtime' = [runtime EXCEPT ![d] = IF @ = "none" THEN @ ELSE "dead"]

\* A live supervisor is signalled; of a dead one, the recorded service is reaped.
StopSignals(c) ==
  /\ c \in Stops /\ command[c] = "new"
  /\ IF SupervisorAlive
     THEN /\ told' = told \cup {pid[name]} /\ Go(c, "wait") /\ UNCHANGED runtime
     ELSE /\ told' = told /\ Go(c, "clean")
          /\ IF recorded = "nobody" THEN UNCHANGED runtime ELSE Terminate(recorded)
  /\ UNCHANGED <<daemon, name, pid, inodes, recorded>>

StopWaits(c) ==
  /\ c \in Stops /\ command[c] = "wait" /\ ~SupervisorAlive
  /\ Go(c, "clean")
  /\ UNCHANGED <<daemon, name, pid, inodes, runtime, recorded, told>>

\* The supervisor did not exit in time: it is killed, and what it recorded reaped.
StopForces(c) ==
  /\ c \in Stops /\ command[c] = "wait" /\ SupervisorAlive
  /\ daemon' = [daemon EXCEPT ![pid[name]] = [@ EXCEPT !.pc = "killed", !.fd = 0]]
  /\ IF recorded = "nobody" THEN UNCHANGED runtime ELSE Terminate(recorded)
  /\ Go(c, "clean")
  /\ UNCHANGED <<name, pid, inodes, recorded, told>>

StopCleans(c) ==
  /\ c \in Stops /\ command[c] = "clean"
  /\ name' = 0 /\ recorded' = "nobody" /\ Go(c, "done")
  /\ UNCHANGED <<daemon, pid, inodes, runtime, told>>

-----------------------------------------------------------------------------
(* supervise                                                               *)

\* try_lock_pidfile: the file is made if there is none.
Lock(d) ==
  /\ daemon[d].pc = "boot"
  /\ \/ /\ name = 0 /\ inodes < InodeBound
        /\ inodes' = inodes + 1 /\ name' = inodes + 1
        /\ daemon' = [daemon EXCEPT ![d] = [@ EXCEPT !.pc = "locked", !.fd = inodes + 1]]
     \/ /\ name # 0 /\ ~LockHeld(name)
        /\ daemon' = [daemon EXCEPT ![d] = [@ EXCEPT !.pc = "locked", !.fd = name]]
        /\ UNCHANGED <<name, inodes>>
     \/ /\ name # 0 /\ LockHeld(name)
        /\ At(d, "refused")
        /\ UNCHANGED <<name, inodes>>
  /\ UNCHANGED <<command, pid, runtime, recorded, told>>

\* The pid goes into the locked file, the first state into state.json.
WritePid(d) ==
  /\ daemon[d].pc = "locked"
  /\ pid' = [pid EXCEPT ![daemon[d].fd] = d]
  /\ recorded' = "nobody"
  /\ At(d, "loop")
  /\ UNCHANGED <<command, name, inodes, runtime, told>>

Reap(d) ==
  /\ daemon[d].pc = "loop" /\ d \notin told /\ runtime[d] = "dead"
  /\ runtime' = [runtime EXCEPT ![d] = "none"]
  /\ UNCHANGED <<command, daemon, name, pid, inodes, recorded, told>>

\* The health endpoint is probed before a respawn; an answer ends the daemon.
ProbeBeforeSpawn(d) ==
  /\ daemon[d].pc = "loop" /\ d \notin told /\ runtime[d] = "none"
  /\ daemon[d].spawned < RespawnBound
  /\ At(d, IF Answered THEN "close" ELSE "spawn")
  /\ UNCHANGED <<command, name, pid, inodes, runtime, recorded, told>>

Spawn(d) ==
  /\ daemon[d].pc = "spawn"
  /\ runtime' = [runtime EXCEPT ![d] = "starting"]
  /\ daemon' = [daemon EXCEPT ![d] = [@ EXCEPT !.pc = "loop", !.spawned = daemon[d].spawned + 1]]
  /\ UNCHANGED <<command, name, pid, inodes, recorded, told>>

\* Once a second: _ensure_pidfile, then write_state.  A missing file is made again and
\* locked; a file that another process has made is let be.
EnsurePidfile(d) ==
  /\ daemon[d].pc = "loop" /\ d \notin told
  /\ \/ /\ name = 0 /\ inodes < InodeBound
        /\ inodes' = inodes + 1 /\ name' = inodes + 1
        /\ pid' = [pid EXCEPT ![inodes + 1] = d]
        /\ daemon' = [daemon EXCEPT ![d].fd = inodes + 1]
     \/ /\ name # 0 /\ UNCHANGED <<name, inodes, pid, daemon>>
  /\ recorded' = IF runtime[d] = "none" THEN "nobody" ELSE d
  /\ UNCHANGED <<command, runtime, told>>

\* Mutant: only a runtime that has become ready is terminated.
DrainReadyOnly(d) ==
  /\ daemon[d].pc = "loop" /\ d \in told
  /\ runtime' = [runtime EXCEPT ![d] = IF @ = "up" THEN "dead" ELSE @]
  /\ At(d, "close")
  /\ recorded' = IF runtime[d] = "none" THEN recorded ELSE "nobody"
  /\ UNCHANGED <<command, name, pid, inodes, told>>

\* The signal is noticed at the top of the loop: SIGTERM, a wait, SIGKILL.
Drain(d) ==
  /\ daemon[d].pc = "loop" /\ d \in told
  /\ Terminate(d)
  /\ At(d, "close")
  /\ recorded' = IF runtime[d] = "none" THEN recorded ELSE "nobody"
  /\ UNCHANGED <<command, name, pid, inodes, told>>

\* os.close gives the lock back; _cleanup_files unlinks whatever has the name by then.
CloseLock(d) ==
  /\ daemon[d].pc = "close"
  /\ daemon' = [daemon EXCEPT ![d] = [@ EXCEPT !.pc = "unlink", !.fd = 0]]
  /\ UNCHANGED <<command, name, pid, inodes, runtime, recorded, told>>

Unlink(d) ==
  /\ daemon[d].pc = "unlink"
  /\ name' = 0 /\ recorded' = "nobody" /\ At(d, "stopped")
  /\ UNCHANGED <<command, pid, inodes, runtime, told>>

\* The daemon dies; the kernel gives its lock back, its child lives on.
DaemonDies(d) ==
  /\ daemon[d].pc \in {"locked", "loop", "spawn", "close", "unlink"}
  /\ daemon' = [daemon EXCEPT ![d] = [@ EXCEPT !.pc = "killed", !.fd = 0]]
  /\ UNCHANGED <<command, name, pid, inodes, runtime, recorded, told>>

-----------------------------------------------------------------------------
(* The runtime (app.runtime): one process can have the port.               *)

RuntimeUp(d) ==
  /\ runtime[d] = "starting" /\ ~Answered
  /\ runtime' = [runtime EXCEPT ![d] = "up"]
  /\ UNCHANGED <<command, daemon, name, pid, inodes, recorded, told>>

RuntimeDies(d) ==
  /\ runtime[d] \in {"starting", "up"}
  /\ runtime' = [runtime EXCEPT ![d] = "dead"]
  /\ UNCHANGED <<command, daemon, name, pid, inodes, recorded, told>>

LauncherNext ==
  \/ \E c \in Starts : StartChecks(c) \/ StartCleans(c)
  \/ \E c \in Stops : StopSignals(c) \/ StopWaits(c) \/ StopForces(c) \/ StopCleans(c)
  \/ \E d \in Starts :
       \/ Lock(d) \/ WritePid(d) \/ Reap(d) \/ ProbeBeforeSpawn(d) \/ Spawn(d)
       \/ EnsurePidfile(d) \/ Drain(d) \/ CloseLock(d) \/ Unlink(d) \/ DaemonDies(d)
       \/ RuntimeUp(d) \/ RuntimeDies(d)

LauncherSpec == LauncherInit /\ [][LauncherNext]_launcherVars

-----------------------------------------------------------------------------
(* Properties.                                                             *)

Supervising(d) == daemon[d].pc \in {"loop", "spawn"}

\* Every lock is on an inode that exists, and no inode is locked twice (flock).
LauncherTypeOK ==
  /\ name \in 0..inodes /\ inodes \in 0..InodeBound
  /\ \A d \in Starts : /\ daemon[d].fd \in 0..inodes
                       /\ Supervising(d) => daemon[d].fd # 0
                       /\ runtime[d] \in {"none", "starting", "up", "dead"}
  /\ \A d, e \in Starts : d # e /\ daemon[d].fd # 0 => daemon[d].fd # daemon[e].fd
  /\ told \subseteq Starts

\* A daemon that has stopped by itself, told to or not, has left no runtime behind
\* ("drains the service gracefully ... then removes its pidfile", launcher.py:33).
CleanExitLeavesNothing ==
  \A d \in Starts : daemon[d].pc \in {"close", "unlink", "stopped", "refused"}
                      => runtime[d] \in {"none", "dead"}

\* At most one daemon supervises: "holds an exclusive flock on supervisor.pid, so a
\* second start can never double-spawn (singleton)" (launcher.py:20).
SupervisorSingleton == \A d, e \in Starts : Supervising(d) /\ Supervising(e) => d = e

=============================================================================
