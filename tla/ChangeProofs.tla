----------------------------- MODULE ChangeProofs ------------------------------
(***************************************************************************)
(* What changes a repository, the program and the processes it runs in,    *)
(* for any number of daemons, missions, files, edits and proposals: proofs *)
(* of the properties of MCPlatform about the launcher, the worktree root,  *)
(* the edit engine, the repository worker, governed improvement and        *)
(* computer control.                                                       *)
(***************************************************************************)
EXTENDS MCPlatform, TLAPS

LEMMA ChangeSteps ==
  ASSUME [Next]_vars
  PROVE  /\ [LauncherNext]_launcherVars /\ [RootNext]_rootVars /\ [EditNext]_editVars
         /\ [WorkerNext]_workerVars /\ [ImproveNext]_improveVars /\ [ControlNext]_controlVars
  BY DEF Next, vars

-----------------------------------------------------------------------------
(* Launcher.                                                               *)

DaemonPlaces == {"none", "boot", "locked", "refused", "loop", "spawn", "close", "unlink", "stopped",
                 "killed"}
DaemonRecord == [pc : DaemonPlaces, fd : 0..InodeBound, spawned : Nat]
Children == {"none", "starting", "up", "dead"}

\* Only a daemon in its loop has a child that lives, and one that was killed may leave it.
ChildIsMinded(d) == daemon[d].pc \notin {"loop", "spawn", "killed"} => runtime[d] \in {"none", "dead"}

\* A daemon comes from a start that has done its work, and holds what it has locked.
DaemonIsStarted(d) ==
  /\ command[d] # "done" => daemon[d].pc = "none"
  /\ daemon[d].pc \in {"locked", "loop", "spawn"} => daemon[d].fd # 0
  /\ daemon[d].fd \in 0..inodes

LocksDiffer == \A d, e \in Starts : d # e /\ daemon[d].fd # 0 => daemon[d].fd # daemon[e].fd

LauncherInv ==
  /\ command \in [Starts \cup Stops -> {"new", "clean", "wait", "done"}]
  /\ daemon \in [Starts -> DaemonRecord]
  /\ runtime \in [Starts -> Children]
  /\ inodes \in 0..InodeBound /\ name \in 0..inodes
  /\ pid \in [1..InodeBound -> Starts \cup {"nobody"}]
  /\ told \subseteq Starts
  /\ \A i \in 1..InodeBound : pid[i] # "nobody" => daemon[pid[i]].pc # "none"
  /\ \A d \in Starts : ChildIsMinded(d) /\ DaemonIsStarted(d)
  /\ LocksDiffer

LEMMA DaemonFields ==
  ASSUME NEW q \in DaemonRecord
  PROVE  /\ \A pc \in DaemonPlaces :
              /\ [q EXCEPT !.pc = pc] \in DaemonRecord
              /\ [q EXCEPT !.pc = pc].pc = pc /\ [q EXCEPT !.pc = pc].fd = q.fd
              /\ [q EXCEPT !.pc = pc].spawned = q.spawned
         /\ \A fd \in 0..InodeBound :
              /\ [q EXCEPT !.fd = fd] \in DaemonRecord
              /\ [q EXCEPT !.fd = fd].pc = q.pc /\ [q EXCEPT !.fd = fd].fd = fd
         /\ \A n \in Nat :
              /\ [q EXCEPT !.spawned = n] \in DaemonRecord
              /\ [q EXCEPT !.spawned = n].pc = q.pc /\ [q EXCEPT !.spawned = n].fd = q.fd
  BY DEF DaemonRecord

LEMMA LockedDaemon ==
  ASSUME NEW q \in DaemonRecord, NEW pc \in DaemonPlaces, NEW fd \in 0..InodeBound
  PROVE  /\ [[q EXCEPT !.pc = pc] EXCEPT !.fd = fd] \in DaemonRecord
         /\ [[q EXCEPT !.pc = pc] EXCEPT !.fd = fd].pc = pc
         /\ [[q EXCEPT !.pc = pc] EXCEPT !.fd = fd].fd = fd
<1> DEFINE p == [q EXCEPT !.pc = pc]
<1>1. p \in DaemonRecord /\ p.pc = pc
  BY DaemonFields
<1> HIDE DEF p
<1>2. /\ [p EXCEPT !.fd = fd] \in DaemonRecord /\ [p EXCEPT !.fd = fd].pc = p.pc
      /\ [p EXCEPT !.fd = fd].fd = fd
  BY <1>1, DaemonFields
<1> QED BY <1>1, <1>2 DEF p

\* A daemon moves on, with its lock, without it or with a new one.
LEMMA DaemonKeeps ==
  ASSUME LauncherInv, NEW d \in Starts, NEW q \in DaemonRecord,
         daemon' = [daemon EXCEPT ![d] = q],
         command[d] = "done", q.pc # "none",
         q.pc \notin {"loop", "spawn", "killed"} => runtime[d] \in {"none", "dead"},
         q.pc \in {"locked", "loop", "spawn"} => q.fd # 0,
         inodes' \in 0..InodeBound, inodes <= inodes', name' \in 0..inodes',
         q.fd \in 0..inodes',
         q.fd = 0 \/ (\A e \in Starts \ {d} : daemon[e].fd # q.fd),
         \/ pid' = pid
         \/ \E i \in 1..InodeBound : pid' = [pid EXCEPT ![i] = d],
         UNCHANGED <<command, runtime, told>>
  PROVE  LauncherInv'
<1>1. /\ daemon' \in [Starts -> DaemonRecord] /\ daemon'[d] = q
      /\ \A e \in Starts \ {d} : daemon'[e] = daemon[e]
  BY DEF LauncherInv
<1>2. /\ pid' \in [1..InodeBound -> Starts \cup {"nobody"}]
      /\ \A i \in 1..InodeBound : pid'[i] = pid[i] \/ pid'[i] = d
  BY DEF LauncherInv
<1>3. \A i \in 1..InodeBound : pid'[i] # "nobody" => daemon'[pid'[i]].pc # "none"
  BY <1>1, <1>2 DEF LauncherInv
<1>4. ASSUME NEW e \in Starts  PROVE ChildIsMinded(e)' /\ DaemonIsStarted(e)'
  <2>1. ChildIsMinded(e) /\ DaemonIsStarted(e)
    BY DEF LauncherInv
  <2>2. CASE e = d
    BY <1>1, <2>2 DEF ChildIsMinded, DaemonIsStarted
  <2>3. CASE e # d
    <3>1. daemon'[e] = daemon[e] /\ daemon[e].fd \in 0..inodes'
      BY <1>1, <2>1, <2>3, LauncherAssumption DEF DaemonIsStarted, LauncherInv
    <3> QED BY <2>1, <3>1 DEF ChildIsMinded, DaemonIsStarted
  <2> QED BY <2>2, <2>3
<1>5. LocksDiffer'
  <2> SUFFICES ASSUME NEW e \in Starts, NEW f \in Starts, e # f, daemon'[e].fd # 0
               PROVE  daemon'[e].fd # daemon'[f].fd
    BY DEF LocksDiffer
  <2> QED BY <1>1 DEF LauncherInv, LocksDiffer
<1> QED BY <1>1, <1>2, <1>3, <1>4, <1>5 DEF LauncherInv

\* A child changes: it can come to live only under a daemon in its loop.
LEMMA ChildKeeps ==
  ASSUME LauncherInv, NEW d, NEW child \in Children,
         runtime' = [runtime EXCEPT ![d] = child],
         d \in Starts => (child \in {"none", "dead"} \/ runtime[d] \in {"starting", "up"}),
         UNCHANGED <<daemon, name, pid, inodes>>,
         command' \in [Starts \cup Stops -> {"new", "clean", "wait", "done"}],
         \A e \in Starts : command'[e] = command[e],
         told' \subseteq Starts
  PROVE  LauncherInv'
<1>1. runtime' \in [Starts -> Children]
  BY DEF LauncherInv
<1>2. ASSUME NEW e \in Starts  PROVE ChildIsMinded(e)' /\ DaemonIsStarted(e)'
  <2>1. ChildIsMinded(e) /\ DaemonIsStarted(e)
    BY DEF LauncherInv
  <2>2. runtime[e] \in {"none", "dead"} => runtime'[e] \in {"none", "dead"}
    BY DEF LauncherInv
  <2> QED BY <2>1, <2>2 DEF ChildIsMinded, DaemonIsStarted
<1> QED BY <1>1, <1>2 DEF LauncherInv, LocksDiffer

\* A command moves on; a start is done only when there is nothing to say of its daemon.
LEMMA CommandKeeps ==
  ASSUME LauncherInv, NEW c \in Starts \cup Stops, NEW at \in {"clean", "wait", "done"}, Go(c, at),
         c \in Starts => command[c] # "done",
         UNCHANGED <<daemon, pid, inodes, runtime>>, name' \in 0..inodes, told' \subseteq Starts
  PROVE  LauncherInv'
<1>1. command' \in [Starts \cup Stops -> {"new", "clean", "wait", "done"}]
  BY DEF Go, LauncherInv
<1>2. ASSUME NEW e \in Starts  PROVE ChildIsMinded(e)' /\ DaemonIsStarted(e)'
  <2>1. ChildIsMinded(e) /\ DaemonIsStarted(e)
    BY DEF LauncherInv
  <2>2. command'[e] # "done" => command[e] # "done"
    BY DEF Go, LauncherInv
  <2> QED BY <2>1, <2>2 DEF ChildIsMinded, DaemonIsStarted
<1> QED BY <1>1, <1>2 DEF LauncherInv, LocksDiffer

\* What a command does to the child it finds recorded.
LEMMA ReapedChild ==
  ASSUME LauncherInv, NEW d, Terminate(d)
  PROVE  \E child \in {"none", "dead"} : \/ runtime' = [runtime EXCEPT ![d] = child]
                                         \/ runtime' = runtime
<1>1. CASE d \in Starts
  BY <1>1 DEF Terminate, LauncherInv, Children
<1>2. CASE d \notin Starts
  BY <1>2 DEF Terminate, LauncherInv, Children
<1> QED BY <1>1, <1>2

LEMMA StartKeeps ==
  ASSUME LauncherInv, NEW c \in Starts, StartChecks(c) \/ StartCleans(c)
  PROVE  LauncherInv'
<1>1. CASE StartChecks(c)
  BY <1>1, CommandKeeps DEF StartChecks, Go, LauncherInv
<1>2. CASE StartCleans(c)
  <2> DEFINE q == [daemon[c] EXCEPT !.pc = "boot"]
  <2>1. daemon[c] \in DaemonRecord /\ daemon[c].pc = "none" /\ runtime[c] \in {"none", "dead"}
    BY <1>2 DEF StartCleans, LauncherInv, DaemonIsStarted, ChildIsMinded
  <2>2. q \in DaemonRecord /\ q.pc = "boot" /\ q.fd = daemon[c].fd
    BY <2>1, DaemonFields DEF DaemonPlaces
  <2>3. /\ daemon' = [daemon EXCEPT ![c] = q] /\ command' = [command EXCEPT ![c] = "done"]
        /\ name' = 0 /\ UNCHANGED <<pid, inodes, runtime, told>>
    BY <1>2 DEF StartCleans, At, Go, LauncherInv
  <2> HIDE DEF q
  <2>4. /\ daemon' \in [Starts -> DaemonRecord] /\ daemon'[c] = q
        /\ \A e \in Starts \ {c} : daemon'[e] = daemon[e] /\ command'[e] = command[e]
        /\ command' \in [Starts \cup Stops -> {"new", "clean", "wait", "done"}] /\ command'[c] = "done"
    BY <2>2, <2>3 DEF LauncherInv
  <2>5. ASSUME NEW e \in Starts  PROVE ChildIsMinded(e)' /\ DaemonIsStarted(e)'
    <3>1. ChildIsMinded(e) /\ DaemonIsStarted(e)
      BY DEF LauncherInv
    <3>2. CASE e = c
      BY <2>1, <2>2, <2>3, <2>4, <3>1, <3>2 DEF ChildIsMinded, DaemonIsStarted
    <3>3. CASE e # c
      BY <2>3, <2>4, <3>1, <3>3 DEF ChildIsMinded, DaemonIsStarted
    <3> QED BY <3>2, <3>3
  <2>6. \A e \in Starts : daemon'[e].fd = daemon[e].fd
    BY <2>2, <2>4
  <2>7. LocksDiffer'
    BY <2>6 DEF LauncherInv, LocksDiffer
  <2>8. \A i \in 1..InodeBound : pid'[i] # "nobody" => daemon'[pid'[i]].pc # "none"
    BY <2>2, <2>3, <2>4 DEF LauncherInv
  <2>9. inodes' \in 0..InodeBound /\ name' \in 0..inodes'
    BY <2>3 DEF LauncherInv
  <2> QED BY <2>3, <2>4, <2>5, <2>7, <2>8, <2>9 DEF LauncherInv
<1> QED BY <1>1, <1>2

\* The process that a live pidfile names.
LEMMA NamedDaemon ==
  ASSUME LauncherInv, SupervisorAlive
  PROVE  /\ pid[name] \in Starts /\ daemon[pid[name]] \in DaemonRecord
         /\ command[pid[name]] = "done"
<1>1. name \in 1..InodeBound
  BY LauncherAssumption DEF SupervisorAlive, LauncherInv
<1>2. pid[name] \in Starts /\ daemon[pid[name]].pc # "none"
  BY <1>1 DEF SupervisorAlive, LauncherInv
<1> QED BY <1>2 DEF LauncherInv, DaemonIsStarted

LEMMA StopKeeps ==
  ASSUME LauncherInv, NEW c \in Stops,
         StopSignals(c) \/ StopWaits(c) \/ StopForces(c) \/ StopCleans(c)
  PROVE  LauncherInv'
<1>1. c \notin Starts
  BY LauncherAssumption
<1>2. CASE StopSignals(c)
  <2>1. CASE SupervisorAlive
    <3>1. /\ Go(c, "wait") /\ told' = told \cup {pid[name]}
          /\ UNCHANGED <<daemon, name, pid, inodes, runtime>>
      BY <1>2, <2>1 DEF StopSignals
    <3>2. told' \subseteq Starts /\ name' \in 0..inodes
      BY <2>1, <3>1, NamedDaemon DEF LauncherInv
    <3> QED BY <1>1, <3>1, <3>2, CommandKeeps
  <2>2. CASE ~SupervisorAlive
    <3>1. /\ Go(c, "clean") /\ told' = told /\ UNCHANGED <<daemon, name, pid, inodes>>
          /\ runtime' = runtime \/ Terminate(recorded)
      BY <1>2, <2>2 DEF StopSignals
    <3>2. CASE runtime' = runtime
      BY <1>1, <3>1, <3>2, CommandKeeps DEF LauncherInv
    <3>3. CASE Terminate(recorded) /\ runtime' # runtime
      <4>1. PICK child \in {"none", "dead"} : runtime' = [runtime EXCEPT ![recorded] = child]
        BY <3>3, ReapedChild
      <4>2. command' \in [Starts \cup Stops -> {"new", "clean", "wait", "done"}]
        BY <3>1 DEF Go, LauncherInv
      <4>3. \A e \in Starts : command'[e] = command[e]
        BY <1>1, <3>1 DEF Go, LauncherInv
      <4>4. child \in Children /\ told' \subseteq Starts
        BY <3>1 DEF Children, LauncherInv
      <4> QED BY <3>1, <4>1, <4>2, <4>3, <4>4, ChildKeeps
    <3> QED BY <3>1, <3>2, <3>3
  <2> QED BY <2>1, <2>2
<1>3. CASE StopWaits(c)
  BY <1>1, <1>3, CommandKeeps DEF StopWaits, LauncherInv
<1>4. CASE StopForces(c)
  <2> DEFINE d == pid[name]
             p == [daemon[d] EXCEPT !.pc = "killed"]
             q == [p EXCEPT !.fd = 0]
  <2>1. SupervisorAlive
    BY <1>4 DEF StopForces
  <2>2. d \in Starts /\ daemon[d] \in DaemonRecord /\ command[d] = "done"
    BY <2>1, NamedDaemon
  <2>3. /\ daemon' = [daemon EXCEPT ![d] = q] /\ Go(c, "clean")
        /\ UNCHANGED <<name, pid, inodes, told>>
        /\ runtime' = runtime \/ Terminate(recorded)
    BY <1>4 DEF StopForces, LauncherInv
  <2>4. p \in DaemonRecord /\ p.pc = "killed"
    BY <2>2, DaemonFields DEF DaemonPlaces
  <2> HIDE DEF p
  <2>5. q \in DaemonRecord /\ q.pc = "killed" /\ q.fd = 0
    BY <2>4, DaemonFields, LauncherAssumption
  <2> HIDE DEF q, d
  <2>6. /\ daemon' \in [Starts -> DaemonRecord] /\ daemon'[d] = q
        /\ \A e \in Starts \ {d} : daemon'[e] = daemon[e]
    BY <2>2, <2>3, <2>5 DEF LauncherInv
  <2>7. /\ command' \in [Starts \cup Stops -> {"new", "clean", "wait", "done"}]
        /\ \A e \in Starts : command'[e] = command[e]
    BY <1>1, <2>3 DEF Go, LauncherInv
  <2>8. /\ runtime' \in [Starts -> Children]
        /\ \A e \in Starts : runtime[e] \in {"none", "dead"} => runtime'[e] \in {"none", "dead"}
    BY <2>3, ReapedChild DEF LauncherInv, Children
  <2>9. ASSUME NEW e \in Starts  PROVE ChildIsMinded(e)' /\ DaemonIsStarted(e)'
    <3>1. ChildIsMinded(e) /\ DaemonIsStarted(e)
      BY DEF LauncherInv
    <3>2. CASE e = d
      BY <2>2, <2>3, <2>5, <2>6, <2>7, <3>1, <3>2 DEF ChildIsMinded, DaemonIsStarted, LauncherInv
    <3>3. CASE e # d
      BY <2>3, <2>6, <2>7, <2>8, <3>1, <3>3 DEF ChildIsMinded, DaemonIsStarted
    <3> QED BY <3>2, <3>3
  <2>10. LocksDiffer'
    BY <2>5, <2>6 DEF LauncherInv, LocksDiffer
  <2>11. \A i \in 1..InodeBound : pid'[i] # "nobody" => daemon'[pid'[i]].pc # "none"
    BY <2>3, <2>5, <2>6 DEF LauncherInv
  <2> QED BY <2>3, <2>6, <2>7, <2>8, <2>9, <2>10, <2>11 DEF LauncherInv
<1>5. CASE StopCleans(c)
  BY <1>1, <1>5, CommandKeeps DEF StopCleans, LauncherInv
<1> QED BY <1>2, <1>3, <1>4, <1>5

LEMMA LockKeeps ==
  ASSUME LauncherInv, NEW d \in Starts, Lock(d)
  PROVE  LauncherInv'
<1>1. /\ daemon[d] \in DaemonRecord /\ daemon[d].pc = "boot" /\ command[d] = "done"
      /\ runtime[d] \in {"none", "dead"} /\ daemon[d].fd \in 0..inodes
  BY DEF Lock, LauncherInv, DaemonIsStarted, ChildIsMinded
<1>2. /\ inodes \in Nat /\ inodes <= InodeBound /\ InodeBound \in Nat /\ name \in 0..inodes
      /\ \A e \in Starts : daemon[e].fd \in 0..inodes
  BY LauncherAssumption DEF LauncherInv, DaemonIsStarted
<1>3. UNCHANGED <<command, pid, runtime, told>>
  BY DEF Lock
<1>4. ASSUME NEW fd \in 1..InodeBound,
             daemon' = [daemon EXCEPT ![d] = [[daemon[d] EXCEPT !.pc = "locked"] EXCEPT !.fd = fd]],
             inodes' \in 0..InodeBound, inodes <= inodes', name' \in 0..inodes', fd <= inodes',
             \A e \in Starts : daemon[e].fd # fd
      PROVE  LauncherInv'
  <2> DEFINE q == [[daemon[d] EXCEPT !.pc = "locked"] EXCEPT !.fd = fd]
  <2>1. "locked" \in DaemonPlaces /\ fd \in 0..InodeBound
    BY <1>2 DEF DaemonPlaces
  <2>2. q \in DaemonRecord /\ q.pc = "locked" /\ q.fd = fd
    BY <1>1, <2>1, LockedDaemon
  <2>3. daemon' = [daemon EXCEPT ![d] = q]
    BY <1>4
  <2> HIDE DEF q
  <2>4. fd # 0 /\ fd \in 0..inodes'
    BY <1>2, <1>4
  <2> QED BY <1>1, <1>3, <1>4, <2>2, <2>3, <2>4, DaemonKeeps
<1>5. CASE /\ name = 0 /\ inodes < InodeBound /\ inodes' = inodes + 1 /\ name' = inodes + 1
           /\ daemon' = [daemon EXCEPT ![d] = [[daemon[d] EXCEPT !.pc = "locked"] EXCEPT !.fd = inodes + 1]]
  <2> DEFINE fd == inodes + 1
  <2>1. /\ fd \in 1..InodeBound /\ inodes' \in 0..InodeBound /\ inodes <= inodes'
        /\ name' \in 0..inodes' /\ fd <= inodes' /\ \A e \in Starts : daemon[e].fd # fd
    BY <1>2, <1>5
  <2>2. daemon' = [daemon EXCEPT ![d] = [[daemon[d] EXCEPT !.pc = "locked"] EXCEPT !.fd = fd]]
    BY <1>5
  <2> HIDE DEF fd
  <2> QED BY <1>4, <2>1, <2>2
<1>6. CASE /\ name # 0 /\ ~LockHeld(name) /\ UNCHANGED <<name, inodes>>
           /\ daemon' = [daemon EXCEPT ![d] = [[daemon[d] EXCEPT !.pc = "locked"] EXCEPT !.fd = name]]
  <2>1. /\ name \in 1..InodeBound /\ inodes' \in 0..InodeBound /\ inodes <= inodes'
        /\ name' \in 0..inodes' /\ name <= inodes' /\ \A e \in Starts : daemon[e].fd # name
    BY <1>2, <1>6 DEF LockHeld
  <2> QED BY <1>4, <1>6, <2>1
<1>7. CASE At(d, "refused") /\ UNCHANGED <<name, inodes>>
  <2> DEFINE q == [daemon[d] EXCEPT !.pc = "refused"]
  <2>1. q \in DaemonRecord /\ q.pc = "refused" /\ q.fd = daemon[d].fd
    BY <1>1, DaemonFields DEF DaemonPlaces
  <2>2. daemon' = [daemon EXCEPT ![d] = q]
    BY <1>7 DEF At, LauncherInv
  <2> HIDE DEF q
  <2>3. q.fd = 0 \/ (\A e \in Starts \ {d} : daemon[e].fd # q.fd)
    BY <2>1 DEF LauncherInv, LocksDiffer
  <2>4. inodes' \in 0..InodeBound /\ inodes <= inodes' /\ name' \in 0..inodes' /\ q.fd \in 0..inodes'
    BY <1>1, <1>2, <1>7, <2>1
  <2> QED BY <1>1, <1>3, <2>1, <2>2, <2>3, <2>4, DaemonKeeps
<1> QED BY <1>5, <1>6, <1>7 DEF Lock

\* A daemon that only moves, with its lock and its child as they are.
LEMMA MovedDaemonKeeps ==
  ASSUME LauncherInv, NEW d \in Starts, NEW pc \in DaemonPlaces \ {"none"}, At(d, pc),
         command[d] = "done",
         pc \notin {"loop", "spawn", "killed"} => runtime[d] \in {"none", "dead"},
         pc \in {"locked", "loop", "spawn"} => daemon[d].fd # 0,
         UNCHANGED <<command, inodes, runtime, told>>, name' \in 0..inodes,
         \/ pid' = pid
         \/ \E i \in 1..InodeBound : pid' = [pid EXCEPT ![i] = d]
  PROVE  LauncherInv'
<1> DEFINE q == [daemon[d] EXCEPT !.pc = pc]
<1>1. q \in DaemonRecord /\ q.pc = pc /\ q.fd = daemon[d].fd
  BY DaemonFields DEF LauncherInv
<1>2. daemon' = [daemon EXCEPT ![d] = q]
  BY DEF At, LauncherInv
<1> HIDE DEF q
<1>3. q.fd = 0 \/ (\A e \in Starts \ {d} : daemon[e].fd # q.fd)
  BY <1>1 DEF LauncherInv, LocksDiffer
<1>4. inodes' \in 0..InodeBound /\ inodes <= inodes' /\ q.fd \in 0..inodes' /\ name' \in 0..inodes'
  BY <1>1 DEF LauncherInv, DaemonIsStarted
<1>5. /\ q.pc # "none"
      /\ q.pc \notin {"loop", "spawn", "killed"} => runtime[d] \in {"none", "dead"}
      /\ q.pc \in {"locked", "loop", "spawn"} => q.fd # 0
  BY <1>1
<1> QED BY <1>1, <1>2, <1>3, <1>4, <1>5, DaemonKeeps

\* A daemon that has closed its lock.
LEMMA UnlockedDaemonKeeps ==
  ASSUME LauncherInv, NEW d \in Starts, NEW pc \in {"unlink", "killed"},
         daemon' = [daemon EXCEPT ![d] = [[daemon[d] EXCEPT !.pc = pc] EXCEPT !.fd = 0]],
         command[d] = "done",
         pc # "killed" => runtime[d] \in {"none", "dead"},
         UNCHANGED <<command, name, pid, inodes, runtime, told>>
  PROVE  LauncherInv'
<1> DEFINE q == [[daemon[d] EXCEPT !.pc = pc] EXCEPT !.fd = 0]
<1>1. pc \in DaemonPlaces /\ 0 \in 0..InodeBound /\ daemon[d] \in DaemonRecord
  BY LauncherAssumption DEF DaemonPlaces, LauncherInv
<1>2. q \in DaemonRecord /\ q.pc = pc /\ q.fd = 0
  BY <1>1, LockedDaemon
<1>3. daemon' = [daemon EXCEPT ![d] = q]
  OBVIOUS
<1> HIDE DEF q
<1>4. /\ inodes' \in 0..InodeBound /\ inodes <= inodes' /\ q.fd \in 0..inodes'
      /\ name' \in 0..inodes'
  BY <1>2 DEF LauncherInv
<1>5. /\ q.pc # "none" /\ q.pc \notin {"locked", "loop", "spawn"}
      /\ q.pc \notin {"loop", "spawn", "killed"} => runtime[d] \in {"none", "dead"}
  BY <1>2
<1> QED BY <1>2, <1>3, <1>4, <1>5, DaemonKeeps

LEMMA SupervisionKeeps ==
  ASSUME LauncherInv, NEW d \in Starts,
         \/ WritePid(d) \/ Reap(d) \/ ProbeBeforeSpawn(d) \/ Spawn(d)
         \/ EnsurePidfile(d) \/ Drain(d) \/ CloseLock(d) \/ Unlink(d) \/ DaemonDies(d)
         \/ RuntimeUp(d) \/ RuntimeDies(d)
  PROVE  LauncherInv'
<1>1. /\ daemon[d] \in DaemonRecord /\ ChildIsMinded(d) /\ DaemonIsStarted(d)
      /\ runtime[d] \in Children /\ name \in 0..inodes /\ inodes \in 0..InodeBound
  BY DEF LauncherInv
<1>2. /\ daemon[d].pc # "none" => command[d] = "done"
      /\ inodes \in Nat /\ InodeBound \in Nat /\ name \in Nat
  BY <1>1, LauncherAssumption DEF DaemonIsStarted
<1>3. CASE WritePid(d)
  <2>1. daemon[d].fd \in 1..InodeBound
    BY <1>1, <1>2, <1>3 DEF WritePid, DaemonIsStarted
  <2>2. "loop" \in DaemonPlaces \ {"none"} /\ daemon[d].fd # 0 /\ command[d] = "done"
    BY <1>2, <1>3, <2>1 DEF WritePid, DaemonPlaces
  <2>3. /\ At(d, "loop") /\ pid' = [pid EXCEPT ![daemon[d].fd] = d]
        /\ UNCHANGED <<command, inodes, runtime, told>> /\ name' \in 0..inodes
    BY <1>1, <1>3 DEF WritePid
  <2>4. \E i \in 1..InodeBound : pid' = [pid EXCEPT ![i] = d]
    BY <2>1, <2>3
  <2> QED BY <2>2, <2>3, <2>4, MovedDaemonKeeps
<1>4. CASE Reap(d)
  <2>1. "none" \in Children
    BY DEF Children
  <2> QED BY <1>4, <2>1, ChildKeeps DEF Reap, LauncherInv
<1>5. CASE ProbeBeforeSpawn(d)
  <2>1. /\ UNCHANGED <<command, name, pid, inodes, runtime, told>> /\ name' \in 0..inodes
        /\ daemon[d].pc = "loop" /\ runtime[d] = "none" /\ (At(d, "close") \/ At(d, "spawn"))
    BY <1>1, <1>5 DEF ProbeBeforeSpawn
  <2>2. daemon[d].fd # 0 /\ command[d] = "done"
    BY <1>1, <1>2, <2>1 DEF DaemonIsStarted
  <2>3. "close" \in DaemonPlaces \ {"none"} /\ "spawn" \in DaemonPlaces \ {"none"}
    BY DEF DaemonPlaces
  <2>4. CASE At(d, "close")
    BY <2>1, <2>2, <2>3, <2>4, MovedDaemonKeeps
  <2>5. CASE At(d, "spawn")
    BY <2>1, <2>2, <2>3, <2>5, MovedDaemonKeeps
  <2> QED BY <2>1, <2>4, <2>5
<1>6. CASE Spawn(d)
  <2> DEFINE n == daemon[d].spawned + 1
             p == [daemon[d] EXCEPT !.pc = "loop"]
             q == [p EXCEPT !.spawned = n]
  <2>1. n \in Nat /\ "loop" \in DaemonPlaces
    BY <1>1 DEF DaemonRecord, DaemonPlaces
  <2>2. daemon' = [daemon EXCEPT ![d] = q] /\ runtime' = [runtime EXCEPT ![d] = "starting"]
    BY <1>6 DEF Spawn, LauncherInv
  <2> HIDE DEF n
  <2>3. q \in DaemonRecord /\ q.pc = "loop" /\ q.fd = daemon[d].fd
    <3>1. p \in DaemonRecord /\ p.pc = "loop" /\ p.fd = daemon[d].fd
      BY <1>1, <2>1, DaemonFields
    <3> HIDE DEF p
    <3> QED BY <2>1, <3>1, DaemonFields
  <2> HIDE DEF q
  <2>4. UNCHANGED <<command, name, pid, inodes, told>> /\ daemon[d].pc = "spawn"
    BY <1>6 DEF Spawn
  <2>5. /\ daemon' \in [Starts -> DaemonRecord] /\ daemon'[d] = q
        /\ runtime' \in [Starts -> Children]
        /\ \A e \in Starts \ {d} : daemon'[e] = daemon[e] /\ runtime'[e] = runtime[e]
    BY <2>2, <2>3 DEF LauncherInv, Children
  <2>6. ASSUME NEW e \in Starts  PROVE ChildIsMinded(e)' /\ DaemonIsStarted(e)'
    <3>1. ChildIsMinded(e) /\ DaemonIsStarted(e)
      BY DEF LauncherInv
    <3>2. CASE e = d
      BY <2>3, <2>4, <2>5, <3>1, <3>2 DEF ChildIsMinded, DaemonIsStarted
    <3>3. CASE e # d
      BY <2>4, <2>5, <3>1, <3>3 DEF ChildIsMinded, DaemonIsStarted
    <3> QED BY <3>2, <3>3
  <2>7. \A e \in Starts : daemon'[e].fd = daemon[e].fd
    BY <2>3, <2>5
  <2>8. LocksDiffer'
    BY <2>7 DEF LauncherInv, LocksDiffer
  <2>9. \A i \in 1..InodeBound : pid'[i] # "nobody" => daemon'[pid'[i]].pc # "none"
    BY <2>3, <2>4, <2>5 DEF LauncherInv
  <2> QED BY <2>4, <2>5, <2>6, <2>8, <2>9 DEF LauncherInv
<1>7. CASE EnsurePidfile(d)
  <2>1. UNCHANGED <<command, runtime, told>> /\ daemon[d].pc = "loop"
    BY <1>7 DEF EnsurePidfile
  <2>2. CASE UNCHANGED <<name, inodes, pid, daemon>>
    BY <2>1, <2>2 DEF LauncherInv, ChildIsMinded, DaemonIsStarted, LocksDiffer
  <2>3. CASE /\ name = 0 /\ inodes < InodeBound /\ inodes' = inodes + 1 /\ name' = inodes + 1
             /\ pid' = [pid EXCEPT ![inodes + 1] = d]
             /\ daemon' = [daemon EXCEPT ![d] = [daemon[d] EXCEPT !.fd = inodes + 1]]
    <3> DEFINE fd == inodes + 1
               q == [daemon[d] EXCEPT !.fd = fd]
    <3>1. /\ fd \in 1..InodeBound /\ fd \in 0..InodeBound /\ fd \in 0..inodes' /\ fd # 0
          /\ inodes' \in 0..InodeBound /\ inodes <= inodes' /\ name' \in 0..inodes'
      BY <1>2, <2>3
    <3>2. \A e \in Starts : daemon[e].fd # fd
      BY <1>2 DEF LauncherInv, DaemonIsStarted
    <3>3. /\ pid' = [pid EXCEPT ![fd] = d] /\ daemon' = [daemon EXCEPT ![d] = q]
      BY <2>3
    <3> HIDE DEF fd
    <3>4. q \in DaemonRecord /\ q.pc = "loop" /\ q.fd = fd
      BY <1>1, <2>1, <3>1, DaemonFields
    <3> HIDE DEF q
    <3>5. \E i \in 1..InodeBound : pid' = [pid EXCEPT ![i] = d]
      BY <3>1, <3>3
    <3> QED BY <1>2, <2>1, <3>1, <3>2, <3>3, <3>4, <3>5, DaemonKeeps
  <2> QED BY <1>7, <2>2, <2>3 DEF EnsurePidfile, LauncherInv
<1>8. CASE Drain(d)
  <2> DEFINE q == [daemon[d] EXCEPT !.pc = "close"]
  <2>1. /\ Terminate(d) /\ At(d, "close") /\ daemon[d].pc = "loop"
        /\ UNCHANGED <<command, name, pid, inodes, told>>
    BY <1>8 DEF Drain
  <2>2. q \in DaemonRecord /\ q.pc = "close" /\ q.fd = daemon[d].fd
    BY <1>1, DaemonFields DEF DaemonPlaces
  <2>3. daemon' = [daemon EXCEPT ![d] = q]
    BY <2>1 DEF At, LauncherInv
  <2> HIDE DEF q
  <2>4. /\ runtime' \in [Starts -> Children] /\ runtime'[d] \in {"none", "dead"}
        /\ \A e \in Starts \ {d} : runtime'[e] = runtime[e]
    BY <2>1 DEF Terminate, LauncherInv, Children
  <2>5. /\ daemon' \in [Starts -> DaemonRecord] /\ daemon'[d] = q
        /\ \A e \in Starts \ {d} : daemon'[e] = daemon[e]
    BY <2>2, <2>3 DEF LauncherInv
  <2>6. ASSUME NEW e \in Starts  PROVE ChildIsMinded(e)' /\ DaemonIsStarted(e)'
    <3>1. ChildIsMinded(e) /\ DaemonIsStarted(e)
      BY DEF LauncherInv
    <3>2. CASE e = d
      BY <2>1, <2>2, <2>4, <2>5, <3>1, <3>2 DEF ChildIsMinded, DaemonIsStarted
    <3>3. CASE e # d
      BY <2>1, <2>4, <2>5, <3>1, <3>3 DEF ChildIsMinded, DaemonIsStarted
    <3> QED BY <3>2, <3>3
  <2>7. \A e \in Starts : daemon'[e].fd = daemon[e].fd
    BY <2>2, <2>5
  <2>8. LocksDiffer'
    BY <2>7 DEF LauncherInv, LocksDiffer
  <2>9. \A i \in 1..InodeBound : pid'[i] # "nobody" => daemon'[pid'[i]].pc # "none"
    BY <2>1, <2>2, <2>5 DEF LauncherInv
  <2> QED BY <2>1, <2>4, <2>5, <2>6, <2>8, <2>9 DEF LauncherInv
<1>9. CASE CloseLock(d)
  <2>1. runtime[d] \in {"none", "dead"} /\ command[d] = "done"
    BY <1>1, <1>2, <1>9 DEF CloseLock, ChildIsMinded
  <2> QED BY <1>9, <2>1, UnlockedDaemonKeeps DEF CloseLock, LauncherInv
<1>10. CASE Unlink(d)
  <2>1. runtime[d] \in {"none", "dead"} /\ command[d] = "done" /\ "stopped" \in DaemonPlaces \ {"none"}
    BY <1>1, <1>2, <1>10 DEF Unlink, ChildIsMinded, DaemonPlaces
  <2>2. /\ At(d, "stopped") /\ UNCHANGED <<command, pid, inodes, runtime, told>> /\ name' \in 0..inodes
    BY <1>2, <1>10 DEF Unlink
  <2> QED BY <2>1, <2>2, MovedDaemonKeeps
<1>11. CASE DaemonDies(d)
  BY <1>2, <1>11, UnlockedDaemonKeeps DEF DaemonDies, LauncherInv
<1>12. CASE RuntimeUp(d)
  <2>1. "up" \in Children
    BY DEF Children
  <2> QED BY <1>12, <2>1, ChildKeeps DEF RuntimeUp, LauncherInv
<1>13. CASE RuntimeDies(d)
  <2>1. "dead" \in Children
    BY DEF Children
  <2> QED BY <1>13, <2>1, ChildKeeps DEF RuntimeDies, LauncherInv
<1> QED BY <1>3, <1>4, <1>5, <1>6, <1>7, <1>8, <1>9, <1>10, <1>11, <1>12, <1>13

LEMMA LauncherStep == LauncherInv /\ [LauncherNext]_launcherVars => LauncherInv'
<1> SUFFICES ASSUME LauncherInv, [LauncherNext]_launcherVars  PROVE LauncherInv'
  OBVIOUS
<1>1. CASE UNCHANGED launcherVars
  BY <1>1 DEF launcherVars, LauncherInv, ChildIsMinded, DaemonIsStarted, LocksDiffer
<1> QED BY <1>1, StartKeeps, StopKeeps, LockKeeps, SupervisionKeeps DEF LauncherNext

LEMMA LauncherInitInv == LauncherInit => LauncherInv
<1> SUFFICES ASSUME LauncherInit  PROVE LauncherInv
  OBVIOUS
<1>1. NoDaemon \in DaemonRecord /\ NoDaemon.pc = "none" /\ NoDaemon.fd = 0
  BY LauncherAssumption DEF NoDaemon, DaemonRecord, DaemonPlaces
<1>2. \A d \in Starts : daemon[d] = NoDaemon /\ runtime[d] = "none"
  BY DEF LauncherInit
<1>3. \A d \in Starts : ChildIsMinded(d) /\ DaemonIsStarted(d)
  BY <1>1, <1>2 DEF ChildIsMinded, DaemonIsStarted, LauncherInit
<1>4. LocksDiffer
  BY <1>1, <1>2 DEF LocksDiffer
<1> QED BY <1>1, <1>3, <1>4, LauncherAssumption DEF LauncherInit, LauncherInv, Children

LEMMA LauncherSound == LauncherInv => CleanExitLeavesNothing /\ LauncherTypeOK
<1> SUFFICES ASSUME LauncherInv  PROVE CleanExitLeavesNothing /\ LauncherTypeOK
  OBVIOUS
<1>1. CleanExitLeavesNothing
  BY DEF LauncherInv, ChildIsMinded, CleanExitLeavesNothing
<1>2. LauncherTypeOK
  BY DEF LauncherInv, DaemonIsStarted, LocksDiffer, LauncherTypeOK, Supervising, Children
<1> QED BY <1>1, <1>2

-----------------------------------------------------------------------------
(* Worktree root.                                                          *)

DirStates == {"none", "bare", "live", "orphan"}
TenantPlaces == {"new", "refused", "sweep", "add", "adding", "work", "done", "dead"}
TenantRecord == [step : TenantPlaces, found : SUBSET Trees]
Gone == {"done", "dead"}

\* What is, or was found to be, a leftover belongs to a mission that is over: it is never
\* taken up again.
RootInv ==
  /\ dirs \in [Trees -> DirStates]
  /\ tenant \in [RootMissions -> TenantRecord]
  /\ atomic =>
       \A m \in RootMissions :
         /\ tenant[m].step = "work" => dirs[m] = "live"
         /\ Orphaned(m) => tenant[m].step \in Gone
         /\ \A n \in RootMissions : m \in tenant[n].found => tenant[m].step \in Gone

LEMMA TenantSteps ==
  ASSUME NEW q \in TenantRecord,
         NEW s \in TenantPlaces
  PROVE  /\ [q EXCEPT !.step = s] \in TenantRecord
         /\ [q EXCEPT !.step = s].step = s /\ [q EXCEPT !.step = s].found = q.found
  BY DEF TenantRecord, TenantPlaces

\* A mission that is not over makes a step, and its own directory with it.
LEMMA TenantKeeps ==
  ASSUME RootInv, NEW m \in RootMissions, tenant[m].step \notin Gone, UNCHANGED atomic,
         NEW s \in {"refused", "add", "adding", "work", "done", "dead"}, StepTo(m, s),
         NEW to \in DirStates, dirs' = [dirs EXCEPT ![m] = to],
         atomic => /\ s = "work" => to = "live"
                   /\ to \in {"bare", "orphan"} => s \in Gone
  PROVE  RootInv'
<1> DEFINE q == [tenant[m] EXCEPT !.step = s]
<1>1. q \in TenantRecord /\ q.step = s /\ q.found = tenant[m].found
  <2>1. tenant[m] \in TenantRecord /\ s \in TenantPlaces
    BY DEF RootInv, TenantPlaces
  <2> QED BY <2>1, TenantSteps
<1>2. tenant' = [tenant EXCEPT ![m] = q]
  BY DEF StepTo, RootInv
<1> HIDE DEF q
<1>3. /\ tenant' \in [RootMissions -> TenantRecord] /\ tenant'[m] = q
      /\ \A n \in RootMissions \ {m} : tenant'[n] = tenant[n]
      /\ \A n \in RootMissions : tenant'[n].found = tenant[n].found
  BY <1>1, <1>2 DEF RootInv
<1>4. /\ dirs' \in [Trees -> DirStates] /\ dirs'[m] = to
      /\ \A n \in RootMissions \ {m} : dirs'[n] = dirs[n]
  BY DEF RootInv, Trees
<1>5. ASSUME atomic, NEW n \in RootMissions
      PROVE  /\ tenant'[n].step = "work" => dirs'[n] = "live"
             /\ Orphaned(n)' => tenant'[n].step \in Gone
             /\ \A o \in RootMissions : n \in tenant'[o].found => tenant'[n].step \in Gone
  <2>1. CASE n = m
    BY <1>1, <1>3, <1>4, <1>5, <2>1 DEF RootInv, Orphaned
  <2>2. CASE n # m
    BY <1>3, <1>4, <1>5, <2>2 DEF RootInv, Orphaned
  <2> QED BY <2>1, <2>2
<1> QED BY <1>3, <1>4, <1>5 DEF RootInv

LEMMA RootStep == RootInv /\ [RootNext]_rootVars => RootInv'
<1> SUFFICES ASSUME RootInv, [RootNext]_rootVars  PROVE RootInv'
  OBVIOUS
<1>1. ASSUME NEW m \in RootMissions, UNCHANGED atomic, UNCHANGED dirs,
             NEW s \in {"refused", "dead"}, StepTo(m, s), tenant[m].step \notin Gone,
             s = "refused" => ~atomic \/ ~Orphaned(m)
      PROVE  RootInv'
  <2>1. /\ dirs[m] \in DirStates /\ dirs' = [dirs EXCEPT ![m] = dirs[m]]
        /\ dirs[m] \in {"bare", "orphan"} => Orphaned(m)
    BY <1>1 DEF RootInv, Trees, Orphaned
  <2>2. s # "work" /\ (s = "dead" => s \in Gone)
    BY DEF Gone
  <2> QED BY <1>1, <2>1, <2>2, TenantKeeps
<1>2. ASSUME NEW m \in RootMissions, UNCHANGED atomic, Survey(m)  PROVE RootInv'
  <2>1. tenant[m].step \notin Gone /\ (atomic => ~Orphaned(m)) /\ UNCHANGED dirs
    BY <1>2 DEF Survey, RootInv, Gone
  <2>2. CASE StepTo(m, "refused")
    BY <1>1, <1>2, <2>1, <2>2
  <2>3. CASE tenant' = [tenant EXCEPT ![m] = [step |-> "sweep", found |-> Leftovers]]
    <3>1. [step |-> "sweep", found |-> Leftovers] \in TenantRecord
      BY DEF TenantRecord, TenantPlaces, Leftovers
    <3>2. /\ tenant' \in [RootMissions -> TenantRecord] /\ tenant'[m].step = "sweep"
          /\ tenant'[m].found = Leftovers
          /\ \A n \in RootMissions \ {m} : tenant'[n] = tenant[n]
      BY <2>3, <3>1 DEF RootInv
    <3>3. ASSUME atomic, NEW n \in RootMissions
          PROVE  /\ tenant'[n].step = "work" => dirs'[n] = "live"
                 /\ Orphaned(n)' => tenant'[n].step \in Gone
                 /\ \A o \in RootMissions : n \in tenant'[o].found => tenant'[n].step \in Gone
      <4>1. Orphaned(n) => tenant[n].step \in Gone /\ n # m
        BY <2>1, <3>3 DEF RootInv
      <4>2. n \in Leftovers => Orphaned(n)
        BY DEF Leftovers
      <4>3. \A o \in RootMissions : n \in tenant[o].found => tenant[n].step \in Gone /\ n # m
        BY <2>1, <3>3 DEF RootInv
      <4>4. ASSUME NEW o \in RootMissions, n \in tenant'[o].found  PROVE tenant'[n].step \in Gone
        BY <3>2, <4>1, <4>2, <4>3, <4>4
      <4>5. tenant'[n].step = "work" => dirs'[n] = "live"
        BY <2>1, <3>2, <3>3 DEF RootInv
      <4>6. Orphaned(n)' => tenant'[n].step \in Gone
        BY <2>1, <3>2, <4>1 DEF Orphaned
      <4> QED BY <4>4, <4>5, <4>6
    <3> QED BY <1>2, <2>1, <3>2, <3>3 DEF RootInv
  <2> QED BY <1>2, <2>2, <2>3 DEF Survey
<1>3. ASSUME NEW m \in RootMissions, UNCHANGED atomic, Sweep(m)  PROVE RootInv'
  <2>1. /\ tenant[m].step = "sweep"
        /\ dirs' = [d \in Trees |-> IF d \in tenant[m].found THEN "none" ELSE dirs[d]]
        /\ tenant' = [tenant EXCEPT ![m] = [step |-> "add", found |-> {}]]
    BY <1>3 DEF Sweep
  <2>2. [step |-> "add", found |-> {}] \in TenantRecord
    BY DEF TenantRecord, TenantPlaces
  <2>3. /\ tenant' \in [RootMissions -> TenantRecord]
        /\ tenant'[m].step = "add" /\ tenant'[m].found = {}
        /\ \A n \in RootMissions \ {m} : tenant'[n] = tenant[n]
    BY <2>1, <2>2 DEF RootInv
  <2>4. dirs' \in [Trees -> DirStates]
    BY <2>1 DEF RootInv, DirStates
  <2>5. ASSUME atomic, NEW n \in RootMissions
        PROVE  /\ tenant'[n].step = "work" => dirs'[n] = "live"
               /\ Orphaned(n)' => tenant'[n].step \in Gone
               /\ \A o \in RootMissions : n \in tenant'[o].found => tenant'[n].step \in Gone
    <3>1. /\ tenant[n].step = "work" => dirs[n] = "live"
          /\ Orphaned(n) => tenant[n].step \in Gone
          /\ \A o \in RootMissions : n \in tenant[o].found => tenant[n].step \in Gone
      BY <2>5 DEF RootInv
    <3>2. tenant[n].step \in Gone => n # m
      BY <2>1 DEF Gone
    <3>3. n \in Trees
      BY DEF Trees
    <3>4. tenant'[n].step = "work" => dirs'[n] = "live"
      BY <2>1, <2>3, <3>1, <3>3 DEF Gone
    <3>5. Orphaned(n)' => tenant'[n].step \in Gone
      BY <2>1, <2>3, <3>1, <3>2, <3>3 DEF Orphaned
    <3>6. \A o \in RootMissions : n \in tenant'[o].found => tenant'[n].step \in Gone
      BY <2>3, <3>1, <3>2
    <3> QED BY <3>4, <3>5, <3>6
  <2> QED BY <1>3, <2>3, <2>4, <2>5 DEF RootInv
<1>4. ASSUME NEW m \in RootMissions, UNCHANGED atomic, AddTree(m)  PROVE RootInv'
  <2>1. tenant[m].step \in {"add", "adding"} /\ tenant[m].step \notin Gone
    BY <1>4 DEF AddTree, Gone
  <2>2. atomic => ~Orphaned(m)
    BY <2>1 DEF RootInv
  <2>3. CASE StepTo(m, "refused") /\ UNCHANGED dirs
    BY <1>1, <1>4, <2>1, <2>2, <2>3
  <2>4. CASE dirs' = [dirs EXCEPT ![m] = "live"] /\ StepTo(m, "work")
    <3>1. "live" \in DirStates
      BY DEF DirStates
    <3> QED BY <1>4, <2>1, <2>4, <3>1, TenantKeeps
  <2>5. CASE ~atomic /\ dirs' = [dirs EXCEPT ![m] = "bare"] /\ StepTo(m, "adding")
    <3>1. "bare" \in DirStates
      BY DEF DirStates
    <3> QED BY <1>4, <2>1, <2>5, <3>1, TenantKeeps
  <2> QED BY <1>4, <2>3, <2>4, <2>5 DEF AddTree
<1>5. ASSUME NEW m \in RootMissions, UNCHANGED atomic, LeaveTree(m)  PROVE RootInv'
  <2>1. PICK to \in {"live", "none", "bare"} : dirs' = [dirs EXCEPT ![m] = to]
    BY <1>5 DEF LeaveTree
  <2>2. to \in DirStates /\ tenant[m].step \notin Gone /\ "done" \in Gone /\ StepTo(m, "done")
    BY <1>5 DEF LeaveTree, DirStates, Gone
  <2> QED BY <1>5, <2>1, <2>2, TenantKeeps
<1>6. ASSUME NEW m \in RootMissions, UNCHANGED atomic, DieInTree(m)  PROVE RootInv'
  <2>1. StepTo(m, "dead") /\ UNCHANGED dirs /\ tenant[m].step \notin Gone
    BY <1>6 DEF DieInTree, Gone
  <2> QED BY <1>1, <1>6, <2>1
<1>7. ASSUME NEW d \in Trees, UNCHANGED atomic, LoseRepository(d)  PROVE RootInv'
  <2>1. /\ dirs' = [dirs EXCEPT ![d] = "orphan"] /\ tenant' = tenant
        /\ d \in RootMissions => tenant[d].step \in Gone
    BY <1>7 DEF LoseRepository, Gone
  <2>2. dirs' \in [Trees -> DirStates]
    BY <2>1 DEF RootInv, DirStates
  <2>3. ASSUME atomic, NEW n \in RootMissions
        PROVE  /\ tenant'[n].step = "work" => dirs'[n] = "live"
               /\ Orphaned(n)' => tenant'[n].step \in Gone
    <3>1. n \in Trees
      BY DEF Trees
    <3>2. CASE n = d
      BY <2>1, <3>2 DEF Gone
    <3>3. CASE n # d
      BY <2>1, <2>3, <3>1, <3>3 DEF RootInv, Orphaned
    <3> QED BY <3>2, <3>3
  <2> QED BY <1>7, <2>1, <2>2, <2>3 DEF RootInv
<1>8. CASE UNCHANGED rootVars
  BY <1>8 DEF rootVars, RootInv, Orphaned
<1> QED BY <1>2, <1>3, <1>4, <1>5, <1>6, <1>7, <1>8 DEF RootNext

LEMMA RootInitInv == RootInit => RootInv
<1> SUFFICES ASSUME RootInit  PROVE RootInv
  OBVIOUS
<1>1. PICK left \in DirStates : dirs = [d \in Trees |-> IF d = "earlier" THEN left ELSE "none"]
  BY DEF RootInit, DirStates
<1>2. dirs \in [Trees -> DirStates]
  BY <1>1 DEF DirStates
<1>3. \A m \in RootMissions : ~Orphaned(m)
  BY <1>1, RootAssumption DEF Orphaned, Trees
<1>4. \A m \in RootMissions : /\ tenant[m].step = "new" /\ tenant[m].found = {}
                              /\ tenant[m] \in TenantRecord
  BY DEF RootInit, TenantRecord, TenantPlaces
<1>5. tenant \in [RootMissions -> TenantRecord]
  BY <1>4 DEF RootInit
<1> QED BY <1>2, <1>3, <1>4, <1>5 DEF RootInv

-----------------------------------------------------------------------------
(* Edit engine.                                                            *)

Phases == {"staging", "writing", "written", "reverting", "reverted", "refused"}
EditRecord == [action : {"create", "delete", "edit"}, name : PathNames]

\* A file that is not what it was is the file of an edit from k + 1 on.
TouchedAfter(k) ==
  \A f \in Paths : files[f] # Base[f] => \E i \in k + 1..Len(prepared) : PathOf(prepared[i].name) = f

\* What an edit has to go back to is known: nothing, or the text that was kept.
HasWayBack(e) ==
  IF e.action = "create" THEN Base[PathOf(e.name)] = NoFile ELSE e.name \in DOMAIN original

EditInv ==
  /\ phase \in Phases /\ done \in Nat
  /\ prepared \in Seq(EditRecord)
  /\ files = [f \in Paths |-> files[f]]
  /\ \A n \in DOMAIN original : original[n] = Base[PathOf(n)]
  /\ \A i \in 1..Len(prepared) : HasWayBack(prepared[i])
  /\ phase \in {"staging", "refused", "reverted"} => files = Base
  /\ phase \in {"staging", "written"} => done = 0
  /\ phase \in {"writing", "reverting"} => done < Len(prepared)
  /\ phase = "written" => Len(prepared) > 0
  /\ phase \in {"writing", "written"} => TouchedAfter(0)
  /\ phase = "reverting" => TouchedAfter(done)

LEMMA BaseFiles == \A n \in PathNames : PathOf(n) \in Paths
  BY DEF Paths

\* One more edit is prepared, with what it has to go back to.
LEMMA StagedKeeps ==
  ASSUME EditInv, phase = "staging", NEW kind \in {"create", "delete", "edit"}, NEW n \in PathNames,
         Staged(kind, n), DOMAIN original \subseteq DOMAIN original',
         \A m \in DOMAIN original' : original'[m] = Base[PathOf(m)],
         IF kind = "create" THEN Base[PathOf(n)] = NoFile ELSE n \in DOMAIN original'
  PROVE  EditInv'
<1> DEFINE e == [action |-> kind, name |-> n]
<1>1. e \in EditRecord /\ e.action = kind /\ e.name = n
  BY DEF EditRecord
<1>2. prepared' = Append(prepared, e) /\ UNCHANGED <<phase, files, done>>
  BY DEF Staged
<1> HIDE DEF e
<1>3. /\ prepared' \in Seq(EditRecord) /\ Len(prepared') = Len(prepared) + 1
      /\ \A i \in 1..Len(prepared) : prepared'[i] = prepared[i]
      /\ prepared'[Len(prepared) + 1] = e
  BY <1>1, <1>2 DEF EditInv
<1>4. ASSUME NEW i \in 1..Len(prepared')  PROVE HasWayBack(prepared[i])'
  <2>1. CASE i \in 1..Len(prepared)
    BY <1>3, <2>1 DEF EditInv, HasWayBack, Base
  <2>2. CASE i = Len(prepared) + 1
    BY <1>1, <1>3, <2>2 DEF HasWayBack, Base
  <2>3. Len(prepared) \in Nat
    BY DEF EditInv
  <2> QED BY <1>3, <2>1, <2>2, <2>3
<1>5. phase' \in Phases /\ phase' = "staging" /\ done' = 0 /\ files' = Base
  BY <1>2 DEF EditInv
<1> QED BY <1>2, <1>3, <1>4, <1>5 DEF EditInv, Base

LEMMA StagingKeeps ==
  ASSUME EditInv, NEW n \in PathNames, StageCreate(n) \/ StageDelete(n) \/ StageEdit(n)
  PROVE  EditInv'
<1>1. phase = "staging" /\ files = Base
  BY DEF StageCreate, StageDelete, StageEdit, EditInv
<1>2. CASE StageCreate(n)
  <2>1. Base[PathOf(n)] = NoFile /\ original' = original /\ Staged("create", n)
    BY <1>1, <1>2 DEF StageCreate, Exists
  <2>2. \A m \in DOMAIN original' : original'[m] = Base[PathOf(m)]
    BY <2>1 DEF EditInv
  <2> QED BY <1>1, <2>1, <2>2, StagedKeeps
<1>3. CASE StageDelete(n)
  <2>1. original' = With(original, n, Base[PathOf(n)]) /\ Staged("delete", n)
    BY <1>1, <1>3 DEF StageDelete
  <2>2. /\ DOMAIN original' = DOMAIN original \cup {n}
        /\ \A m \in DOMAIN original' : original'[m] = Base[PathOf(m)]
    BY <2>1 DEF With, EditInv
  <2> QED BY <1>1, <2>1, <2>2, StagedKeeps
<1>4. CASE StageEdit(n)
  <2> DEFINE first == IF n \in DOMAIN original THEN original[n] ELSE files[PathOf(n)]
  <2>1. original' = With(original, n, first) /\ Staged("edit", n)
    BY <1>4 DEF StageEdit
  <2>2. first = Base[PathOf(n)]
    BY <1>1 DEF EditInv
  <2> HIDE DEF first
  <2>3. /\ DOMAIN original' = DOMAIN original \cup {n}
        /\ \A m \in DOMAIN original' : original'[m] = Base[PathOf(m)]
    BY <2>1, <2>2 DEF With, EditInv
  <2> QED BY <1>1, <2>1, <2>3, StagedKeeps
<1> QED BY <1>2, <1>3, <1>4

LEMMA WriteKeeps ==
  ASSUME EditInv, Write
  PROVE  EditInv'
<1> DEFINE k == done + 1
           f == PathOf(prepared[k].name)
<1>1. /\ phase = "writing" /\ done < Len(prepared) /\ TouchedAfter(0) /\ Len(prepared) \in Nat
      /\ UNCHANGED <<original, staged, prepared>>
  BY DEF Write, EditInv
<1>2. k \in 1..Len(prepared) /\ prepared[k].name \in PathNames
  <2>1. k \in 1..Len(prepared)
    BY <1>1 DEF EditInv
  <2> HIDE DEF k
  <2>2. prepared[k] \in EditRecord
    BY <2>1 DEF EditInv
  <2> QED BY <2>1, <2>2 DEF EditRecord
<1>3. \E text : files' = [files EXCEPT ![f] = text]
  BY DEF Write
<1>4. \/ done + 1 = Len(prepared) /\ phase' = "written" /\ done' = 0
      \/ done + 1 # Len(prepared) /\ phase' = phase /\ done' = done + 1
  BY DEF Write
<1>5. f \in Paths
  BY <1>2, BaseFiles
<1> HIDE DEF f
<1>6. files' = [g \in Paths |-> files'[g]] /\ \A g \in Paths \ {f} : files'[g] = files[g]
  BY <1>3, <1>5 DEF EditInv
<1>7. TouchedAfter(0)'
  <2> SUFFICES ASSUME NEW g \in Paths, files'[g] # Base[g]
               PROVE  \E i \in 0 + 1..Len(prepared) : PathOf(prepared[i].name) = g
    BY <1>1 DEF TouchedAfter, Base
  <2>1. CASE g = f
    <3>1. PathOf(prepared[k].name) = g
      BY <2>1 DEF f
    <3> QED BY <1>2, <3>1
  <2>2. CASE g # f
    BY <1>1, <1>6, <2>2 DEF TouchedAfter
  <2> QED BY <2>1, <2>2
<1>8. /\ phase' \in {"writing", "written"} /\ done' \in Nat
      /\ phase' = "written" => done' = 0 /\ Len(prepared') > 0
      /\ phase' = "writing" => done' < Len(prepared')
  BY <1>1, <1>2, <1>4 DEF EditInv
<1>9. \A i \in 1..Len(prepared') : HasWayBack(prepared[i])'
  BY <1>1 DEF EditInv, HasWayBack, Base
<1>10. \A n \in DOMAIN original' : original'[n] = Base[PathOf(n)]
  BY <1>1 DEF EditInv
<1> QED BY <1>1, <1>6, <1>7, <1>8, <1>9, <1>10 DEF EditInv, Phases, Base

LEMMA RestoreKeeps ==
  ASSUME EditInv, Restore
  PROVE  EditInv'
<1> DEFINE k == done + 1
           f == PathOf(prepared[k].name)
<1>1. /\ phase = "reverting" /\ done < Len(prepared) /\ TouchedAfter(done)
      /\ Len(prepared) \in Nat /\ done \in Nat
      /\ UNCHANGED <<original, staged, prepared>>
  BY DEF Restore, EditInv
<1>2. k \in 1..Len(prepared) /\ prepared[k].name \in PathNames
  <2>1. k \in 1..Len(prepared)
    BY <1>1 DEF EditInv
  <2> HIDE DEF k
  <2>2. prepared[k] \in EditRecord
    BY <2>1 DEF EditInv
  <2> QED BY <2>1, <2>2 DEF EditRecord
<1>3. RestoredText(prepared[k]) = Base[f]
  <2>1. HasWayBack(prepared[k])
    BY <1>2 DEF EditInv
  <2> QED BY <2>1 DEF HasWayBack, RestoredText, EditInv
<1>4. files' = [files EXCEPT ![f] = Base[f]]
  BY <1>3 DEF Restore
<1>5. \/ done + 1 = Len(prepared) /\ phase' = "reverted" /\ done' = 0
      \/ done + 1 # Len(prepared) /\ phase' = phase /\ done' = done + 1
  BY DEF Restore
<1>6. f \in Paths
  BY <1>2, BaseFiles
<1>7. \A g \in Paths : files[g] # Base[g] => \E i \in done + 1..Len(prepared) : PathOf(prepared[i].name) = g
  BY <1>1 DEF TouchedAfter
<1>8. /\ files' = [g \in Paths |-> files'[g]] /\ files'[f] = Base[f]
      /\ \A g \in Paths \ {f} : files'[g] = files[g]
  <2> HIDE DEF f
  <2> QED BY <1>4, <1>6 DEF EditInv
<1>9. ASSUME NEW g \in Paths, files'[g] # Base[g]
      PROVE  \E i \in done + 2..Len(prepared) : PathOf(prepared[i].name) = g
  <2>1. g # f /\ files[g] # Base[g]
    BY <1>8, <1>9
  <2>2. PICK i \in done + 1..Len(prepared) : PathOf(prepared[i].name) = g
    BY <1>7, <2>1
  <2>3. i # done + 1
    BY <2>1, <2>2
  <2>4. i \in done + 2..Len(prepared)
    BY <1>1, <2>2, <2>3
  <2> QED BY <2>2, <2>4
<1> HIDE DEF f
<1>10. CASE done + 1 = Len(prepared) /\ phase' = "reverted" /\ done' = 0
  <2>1. \A g \in Paths : files'[g] = Base[g]
    BY <1>1, <1>9, <1>10
  <2>2. files' = Base
    BY <1>8, <2>1 DEF Base
  <2>3. \A i \in 1..Len(prepared') : HasWayBack(prepared[i])'
    BY <1>1 DEF EditInv, HasWayBack, Base
  <2>4. \A n \in DOMAIN original' : original'[n] = Base[PathOf(n)]
    BY <1>1 DEF EditInv
  <2> QED BY <1>1, <1>8, <1>10, <2>2, <2>3, <2>4 DEF EditInv, Phases, Base
<1>11. CASE done + 1 # Len(prepared) /\ phase' = phase /\ done' = done + 1
  <2>1. TouchedAfter(done)'
    <3> SUFFICES ASSUME NEW g \in Paths, files'[g] # Base[g]
                 PROVE  \E i \in done' + 1..Len(prepared') : PathOf(prepared'[i].name) = g
      BY DEF TouchedAfter, Base
    <3>1. done' + 1 = done + 2
      BY <1>1, <1>11
    <3> QED BY <1>1, <1>9, <3>1
  <2>2. done' \in Nat /\ done' < Len(prepared')
    BY <1>1, <1>11
  <2>3. \A i \in 1..Len(prepared') : HasWayBack(prepared[i])'
    BY <1>1 DEF EditInv, HasWayBack, Base
  <2>4. \A n \in DOMAIN original' : original'[n] = Base[PathOf(n)]
    BY <1>1 DEF EditInv
  <2> QED BY <1>1, <1>8, <1>11, <2>1, <2>2, <2>3, <2>4 DEF EditInv, Phases, Base
<1> QED BY <1>5, <1>10, <1>11

LEMMA EditStep == EditInv /\ [EditNext]_editVars => EditInv'
<1> SUFFICES ASSUME EditInv, [EditNext]_editVars  PROVE EditInv'
  OBVIOUS
<1>1. CASE Refuse
  BY <1>1 DEF Refuse, EditInv, Phases, HasWayBack, TouchedAfter, Base
<1>2. CASE Accepted
  <2>1. /\ phase = "staging" /\ phase' = "writing" /\ prepared # <<>> /\ files = Base /\ done = 0
        /\ UNCHANGED <<original, staged, prepared, files, done>>
    BY <1>2 DEF Accepted, EditInv
  <2>2. Len(prepared) > 0 /\ Len(prepared) \in Nat
    BY <2>1 DEF EditInv
  <2>3. TouchedAfter(0)'
    BY <2>1 DEF TouchedAfter, Base
  <2> QED BY <2>1, <2>2, <2>3 DEF EditInv, Phases, HasWayBack, Base
<1>3. CASE Revert
  <2>1. /\ phase = "written" /\ phase' = "reverting" /\ done = 0 /\ TouchedAfter(0) /\ Len(prepared) > 0
        /\ UNCHANGED <<original, staged, prepared, files, done>>
    BY <1>3 DEF Revert, EditInv
  <2>2. TouchedAfter(done)'
    BY <2>1 DEF TouchedAfter, Base
  <2> QED BY <2>1, <2>2 DEF EditInv, Phases, HasWayBack, Base
<1>4. CASE UNCHANGED editVars
  BY <1>4 DEF editVars, EditInv, HasWayBack, TouchedAfter, Base
<1> QED BY <1>1, <1>2, <1>3, <1>4, StagingKeeps, WriteKeeps, RestoreKeeps DEF EditNext

LEMMA EditInitInv == EditInit => EditInv
  BY DEF EditInit, EditInv, Phases, NoTexts, Base

-----------------------------------------------------------------------------
(* Repository worker.                                                      *)

TreeRecord == [at : {"none", "disk", "removed"}, dirty : SUBSET (Files \cup {"artefact"}),
               index : SUBSET Files]
WorldRecord == [cancel : {"no", "early", "late"}, late : BOOLEAN, moved : BOOLEAN]

BeforeEdits  == {"new", "allocate", "tools", "plan", "repair", "prepare", "apply"}
AfterPassing == {"status", "add", "before_commit", "fence", "scan", "commit"}

\* An attempt starts in a clean tree and dirties it with its own plan only; from the
\* validation that passed to the commit the tree does not change; a commit is the last
\* thing that happens, and no early cancellation gets as far as its fence.
WorkerInv ==
  /\ plan \subseteq Files /\ tree \in TreeRecord /\ world \in WorldRecord
  /\ stage \in BeforeEdits => tree.dirty = {}
  /\ stage \in {"validate", "judge"} => tree.dirty \subseteq plan \cup {"artefact"}
  /\ stage \in AfterPassing => tree.dirty = validated /\ validated \subseteq plan \cup {"artefact"}
  /\ stage \in {"before_commit", "fence", "scan", "commit"} => tree.index = tree.dirty \cap plan
  /\ stage \notin {"confirm", "done"} => commits = {}
  /\ stage = "confirm" => commits # {}
  /\ \A c \in commits : c = validated \ {"artefact"}
  /\ world.cancel = "early" => commits = {} /\ stage \notin {"fence", "scan", "commit", "confirm"}
  /\ outcome = "PASS" => commits # {}

LEMMA TreeFields ==
  ASSUME NEW t \in TreeRecord
  PROVE  /\ \A at \in {"none", "disk", "removed"} :
              /\ [t EXCEPT !.at = at] \in TreeRecord
              /\ [t EXCEPT !.at = at].dirty = t.dirty /\ [t EXCEPT !.at = at].index = t.index
         /\ \A ps \in SUBSET (Files \cup {"artefact"}) :
              /\ [t EXCEPT !.dirty = ps] \in TreeRecord
              /\ [t EXCEPT !.dirty = ps].dirty = ps /\ [t EXCEPT !.dirty = ps].index = t.index
         /\ \A ps \in SUBSET Files :
              /\ [t EXCEPT !.index = ps] \in TreeRecord
              /\ [t EXCEPT !.index = ps].dirty = t.dirty /\ [t EXCEPT !.index = ps].index = ps
  BY DEF TreeRecord

\* A run ends, in whatever tree and with whatever plan, without a commit it did not make.
LEMMA EndKeepsWorker ==
  ASSUME WorkerInv, NEW o, EndRun(o), o = "PASS" => commits # {},
         plan' \subseteq Files, tree' \in TreeRecord, UNCHANGED <<world, commits, validated>>
  PROVE  WorkerInv'
  BY DEF WorkerInv, EndRun, BeforeEdits, AfterPassing

LEMMA RefusedKeeps ==
  ASSUME WorkerInv, NEW o \in Outcomes \ {"PASS"}, Refused(o)
  PROVE  WorkerInv'
  BY EndKeepsWorker DEF Refused, WorkerInv, Outcomes

\* A repair begins in a tree that is clean again.
LEMMA AgainKeeps ==
  ASSUME WorkerInv, Again, tree' \in TreeRecord, tree'.dirty = {}, commits = {},
         stage \notin {"fence", "scan", "commit", "confirm"}
  PROVE  WorkerInv'
<1>1. CASE Goto("repair") /\ UNCHANGED <<plan, validated, commits>>
  BY <1>1 DEF Goto, WorkerInv, BeforeEdits, AfterPassing
<1>2. CASE EndRun("FAIL") /\ UNCHANGED <<mission, retries, plan, validated, commits, world>>
  BY <1>2, EndKeepsWorker DEF WorkerInv
<1> QED BY <1>1, <1>2 DEF Again

LEMMA OutcomesKnown == {"FAIL", "BLOCKED", "CANCELLED", "TIMEOUT"} \subseteq Outcomes \ {"PASS"}
  BY DEF Outcomes

\* Before the edits.
LEMMA OpeningKeeps ==
  ASSUME WorkerInv, Accept \/ Allocate \/ DetectTools \/ Plan \/ Repair \/ Prepare
  PROVE  WorkerInv'
<1>1. /\ stage \in BeforeEdits /\ stage \notin {"apply", "confirm", "done"}
      /\ tree \in TreeRecord /\ tree.dirty = {} /\ commits = {}
  BY DEF Accept, Allocate, DetectTools, Plan, Repair, Prepare, WorkerInv, BeforeEdits
<1>2. ASSUME NEW s \in BeforeEdits \cup {"validate"}, Goto(s), UNCHANGED <<validated, commits>>,
             plan' \subseteq Files, tree' \in TreeRecord, tree'.dirty = {}
      PROVE  WorkerInv'
  BY <1>1, <1>2 DEF Goto, WorkerInv, BeforeEdits, AfterPassing
<1>3. {"allocate", "tools", "plan", "prepare", "apply"} \subseteq BeforeEdits
  BY DEF BeforeEdits
<1>4. CASE Accept
  BY <1>1, <1>2, <1>3, <1>4, RefusedKeeps, OutcomesKnown DEF Accept, WorkerInv
<1>5. CASE Allocate
  <2> DEFINE t == [tree EXCEPT !.at = "disk"]
  <2>1. t \in TreeRecord /\ t.dirty = {}
    BY <1>1, TreeFields
  <2> HIDE DEF t
  <2>2. CASE Refused("FAIL")
    BY <2>2, RefusedKeeps, OutcomesKnown
  <2>3. CASE tree' = t /\ Goto("tools") /\ UNCHANGED <<retries, plan, validated, commits>>
    BY <1>2, <1>3, <2>1, <2>3 DEF WorkerInv
  <2>4. CASE /\ tree' = t /\ (EndRun("TIMEOUT") \/ EndRun("CANCELLED"))
             /\ UNCHANGED <<mission, retries, plan, validated, commits, world>>
    BY <2>1, <2>4, EndKeepsWorker DEF WorkerInv
  <2> QED BY <1>5, <2>2, <2>3, <2>4 DEF Allocate, t
<1>6. CASE DetectTools
  BY <1>1, <1>2, <1>3, <1>6, RefusedKeeps, OutcomesKnown DEF DetectTools, WorkerInv
<1>7. CASE Plan
  BY <1>1, <1>2, <1>3, <1>7, RefusedKeeps, OutcomesKnown DEF Plan, WorkerInv
<1>8. CASE Repair
  BY <1>1, <1>2, <1>3, <1>8, RefusedKeeps, OutcomesKnown DEF Repair, WorkerInv
<1>9. CASE Prepare
  <2>1. CASE Refused("FAIL")
    BY <2>1, RefusedKeeps, OutcomesKnown
  <2>2. CASE Again /\ UNCHANGED tree
    BY <1>1, <2>2, AgainKeeps DEF BeforeEdits
  <2>3. ASSUME NEW fs \in SUBSET Files, plan' = fs, Goto("apply"),
               UNCHANGED <<retries, tree, validated, commits>>
        PROVE  WorkerInv'
    BY <1>1, <1>2, <1>3, <2>3
  <2> QED BY <1>9, <2>1, <2>2, <2>3 DEF Prepare
<1> QED BY <1>4, <1>5, <1>6, <1>7, <1>8, <1>9

\* Edits, tests, and the judgement of tests that failed.
LEMMA TryKeeps ==
  ASSUME WorkerInv, Apply \/ Validate \/ JudgeTests
  PROVE  WorkerInv'
<1>1. CASE Apply
  <2>1. CASE Refused("FAIL")
    BY <2>1, RefusedKeeps, OutcomesKnown
  <2>2. ASSUME NEW changed \in SUBSET plan, tree' = [tree EXCEPT !.dirty = tree.dirty \cup changed],
               \/ Goto("validate") /\ UNCHANGED <<retries, plan, validated, commits>>
               \/ EndRun("FAIL") /\ UNCHANGED <<mission, retries, plan, validated, commits, world>>
        PROVE  WorkerInv'
    <3> DEFINE ps == tree.dirty \cup changed
    <3>1. tree.dirty = {} /\ commits = {} /\ tree \in TreeRecord /\ stage = "apply" /\ plan \subseteq Files
      BY <1>1 DEF Apply, WorkerInv, BeforeEdits
    <3>2. ps \in SUBSET (Files \cup {"artefact"}) /\ ps \subseteq plan
      BY <2>2, <3>1
    <3>3. tree' = [tree EXCEPT !.dirty = ps]
      BY <2>2
    <3> HIDE DEF ps
    <3>4. tree' \in TreeRecord /\ tree'.dirty \subseteq plan
      BY <3>1, <3>2, <3>3, TreeFields
    <3>5. CASE Goto("validate") /\ UNCHANGED <<retries, plan, validated, commits>>
      BY <3>1, <3>4, <3>5 DEF Goto, WorkerInv, BeforeEdits, AfterPassing
    <3>6. CASE EndRun("FAIL") /\ UNCHANGED <<mission, retries, plan, validated, commits, world>>
      BY <3>4, <3>6, EndKeepsWorker DEF WorkerInv
    <3> QED BY <2>2, <3>5, <3>6
  <2> QED BY <1>1, <2>1, <2>2 DEF Apply
<1>2. CASE Validate
  <2>1. CASE Refused("BLOCKED")
    BY <2>1, RefusedKeeps, OutcomesKnown
  <2>2. ASSUME NEW left \in {{}, {"artefact"}}, tree' = [tree EXCEPT !.dirty = tree.dirty \cup left],
               \/ Goto("judge") /\ UNCHANGED <<retries, plan, validated, commits>>
               \/ validated' = tree'.dirty /\ Goto("status") /\ UNCHANGED <<retries, plan, commits>>
        PROVE  WorkerInv'
    <3> DEFINE ps == tree.dirty \cup left
    <3>1. /\ tree.dirty \subseteq plan \cup {"artefact"} /\ commits = {} /\ tree \in TreeRecord
          /\ stage = "validate" /\ plan \subseteq Files
      BY <1>2 DEF Validate, WorkerInv
    <3>2. ps \in SUBSET (Files \cup {"artefact"}) /\ ps \subseteq plan \cup {"artefact"}
      BY <2>2, <3>1
    <3>3. tree' = [tree EXCEPT !.dirty = ps]
      BY <2>2
    <3> HIDE DEF ps
    <3>4. tree' \in TreeRecord /\ tree'.dirty \subseteq plan \cup {"artefact"}
      BY <3>1, <3>2, <3>3, TreeFields
    <3>5. CASE Goto("judge") /\ UNCHANGED <<retries, plan, validated, commits>>
      BY <3>1, <3>4, <3>5 DEF Goto, WorkerInv, BeforeEdits, AfterPassing
    <3>6. CASE validated' = tree'.dirty /\ Goto("status") /\ UNCHANGED <<retries, plan, commits>>
      BY <3>1, <3>4, <3>6 DEF Goto, WorkerInv, BeforeEdits, AfterPassing
    <3> QED BY <2>2, <3>5, <3>6
  <2> QED BY <1>2, <2>1, <2>2 DEF Validate
<1>3. CASE JudgeTests
  <2>1. /\ stage = "judge" /\ tree' = [tree EXCEPT !.dirty = Restored] /\ tree \in TreeRecord
        /\ commits = {}
    BY <1>3 DEF JudgeTests, WorkerInv
  <2>2. Restored \in SUBSET (Files \cup {"artefact"})
    BY <2>1 DEF Restored, TreeRecord
  <2>3. tree' \in TreeRecord /\ tree'.dirty = Restored
    BY <2>1, <2>2, TreeFields
  <2>4. CASE Restored = {} /\ Again
    BY <2>1, <2>3, <2>4, AgainKeeps
  <2>5. CASE EndRun("FAIL") /\ UNCHANGED <<mission, retries, plan, validated, commits, world>>
    BY <2>3, <2>5, EndKeepsWorker DEF WorkerInv
  <2> QED BY <1>3, <2>4, <2>5 DEF JudgeTests
<1> QED BY <1>1, <1>2, <1>3

\* From a validation that passed to the end.
LEMMA CommittingKeeps ==
  ASSUME WorkerInv, \/ Review \/ Add \/ BeforeCommit \/ Fence \/ ScanDiff \/ Commit \/ Confirm
  PROVE  WorkerInv'
<1>1. CASE Review
  BY <1>1, RefusedKeeps, OutcomesKnown DEF Review, Goto, WorkerInv, BeforeEdits, AfterPassing
<1>2. CASE Add
  <2> DEFINE ps == tree.dirty \cap plan
  <2>1. tree' = [tree EXCEPT !.index = ps] /\ tree \in TreeRecord /\ ps \in SUBSET Files
    BY <1>2 DEF Add, WorkerInv
  <2>2. tree' \in TreeRecord /\ tree'.dirty = tree.dirty /\ tree'.index = ps
    <3> HIDE DEF ps
    <3> QED BY <2>1, TreeFields
  <2> QED BY <1>2, <2>2 DEF Add, Goto, WorkerInv, BeforeEdits, AfterPassing
<1>3. CASE BeforeCommit
  BY <1>3 DEF BeforeCommit, Asked, Goto, WorkerInv, BeforeEdits, AfterPassing
<1>4. CASE Fence
  BY <1>4, RefusedKeeps, OutcomesKnown DEF Fence, Goto, WorkerInv, BeforeEdits, AfterPassing
<1>5. CASE ScanDiff
  BY <1>5, RefusedKeeps, OutcomesKnown DEF ScanDiff, Goto, WorkerInv, BeforeEdits, AfterPassing
<1>6. CASE Commit
  <2>1. CASE Refused("FAIL")
    BY <2>1, RefusedKeeps, OutcomesKnown
  <2>2. CASE /\ tree.index # {} /\ commits' = commits \cup {tree.index}
             /\ tree' = [tree EXCEPT !.dirty = tree.dirty \ tree.index, !.index = {}]
             /\ Goto("confirm") /\ UNCHANGED <<retries, plan, validated>>
    <3>1. /\ stage = "commit" /\ commits = {} /\ tree.dirty = validated /\ plan \subseteq Files
          /\ validated \subseteq plan \cup {"artefact"} /\ tree.index = tree.dirty \cap plan
          /\ tree \in TreeRecord
      BY <1>6 DEF Commit, WorkerInv, AfterPassing
    <3>2. tree.index = validated \ {"artefact"}
      BY <3>1, WorkerAssumption
    <3>3. tree' \in TreeRecord
      <4> DEFINE t == [tree EXCEPT !.dirty = tree.dirty \ tree.index]
      <4>1. tree.dirty \ tree.index \in SUBSET (Files \cup {"artefact"}) /\ {} \in SUBSET Files
        BY <3>1 DEF TreeRecord
      <4>2. t \in TreeRecord
        BY <3>1, <4>1, TreeFields
      <4>3. tree' = [t EXCEPT !.index = {}]
        BY <2>2
      <4> HIDE DEF t
      <4> QED BY <4>1, <4>2, <4>3, TreeFields
    <3>4. commits' = {validated'\ {"artefact"}} /\ stage' = "confirm" /\ UNCHANGED <<plan, world, outcome>>
      BY <2>2, <3>1, <3>2 DEF Goto
    <3>5. world.cancel # "early" /\ (outcome = "PASS" => commits # {})
      BY <3>1 DEF WorkerInv
    <3> QED BY <3>1, <3>3, <3>4, <3>5 DEF WorkerInv, BeforeEdits, AfterPassing
  <2> QED BY <1>6, <2>1, <2>2 DEF Commit
<1>7. CASE Confirm
  <2>1. /\ EndRun("PASS") /\ commits # {} /\ plan' \subseteq Files
        /\ UNCHANGED <<world, commits, validated>>
    BY <1>7 DEF Confirm, Cleanup, WorkerInv
  <2>2. tree' \in TreeRecord
    BY <1>7, TreeFields DEF Confirm, Cleanup, WorkerInv
  <2> QED BY <2>1, <2>2, EndKeepsWorker
<1> QED BY <1>1, <1>2, <1>3, <1>4, <1>5, <1>6, <1>7

LEMMA WorkerStepKeeps == WorkerInv /\ [WorkerNext]_workerVars => WorkerInv'
<1> SUFFICES ASSUME WorkerInv, [WorkerNext]_workerVars  PROVE WorkerInv'
  OBVIOUS
<1>1. CASE Stopped
  BY <1>1, RefusedKeeps, OutcomesKnown DEF Stopped
<1>2. CASE CancelRequested
  <2> DEFINE asked == IF stage \in Committing THEN "late" ELSE "early"
  <2>1. /\ world' = [world EXCEPT !.cancel = asked] /\ world \in WorldRecord /\ world.cancel = "no"
        /\ stage # "done" /\ asked \in {"early", "late"}
        /\ UNCHANGED <<stage, plan, tree, validated, commits, outcome>>
    BY <1>2 DEF CancelRequested, WorkerInv
  <2>2. asked = "early" => commits = {} /\ stage \notin {"fence", "scan", "commit", "confirm"}
    BY <2>1 DEF WorkerInv, Committing
  <2> HIDE DEF asked
  <2>3. world' \in WorldRecord /\ world'.cancel = asked
    BY <2>1 DEF WorldRecord
  <2> QED BY <2>1, <2>2, <2>3 DEF WorkerInv
<1>3. CASE DeadlinePasses
  <2>1. world' \in WorldRecord /\ world'.cancel = world.cancel
    BY <1>3 DEF DeadlinePasses, WorkerInv, WorldRecord
  <2> QED BY <1>3, <2>1 DEF DeadlinePasses, WorkerInv
<1>4. CASE SourceMoves
  <2>1. world' \in WorldRecord /\ world'.cancel = world.cancel
    BY <1>4 DEF SourceMoves, WorkerInv, WorldRecord
  <2> QED BY <1>4, <2>1 DEF SourceMoves, WorkerInv
<1>5. CASE UNCHANGED workerVars
  BY <1>5 DEF workerVars, WorkerInv
<1> QED BY <1>1, <1>2, <1>3, <1>4, <1>5, OpeningKeeps, TryKeeps, CommittingKeeps
        DEF WorkerNext, WorkerStep

LEMMA WorkerInitInv == WorkerInit => WorkerInv
  BY DEF WorkerInit, WorkerInv, TreeRecord, WorldRecord, AfterPassing

LEMMA WorkerSound == WorkerInv => CommitIsWhatPassed /\ CancelStopsTheCommit
  BY DEF WorkerInv, CommitIsWhatPassed, CancelStopsTheCommit

-----------------------------------------------------------------------------
(* Governed improvement.                                                   *)

VersionRecord == [of : Proposals, previous : Nat, active : BOOLEAN]

\* Approval is remembered from the review to the version that rests on it, also by the
\* agent that is between the two.
ImproveInv ==
  /\ status = [p \in Proposals |-> status[p]]
  /\ agent = [a \in Agents |-> agent[a]]
  /\ \A a \in Agents : agent[a].at # "rest" => agent[a].of \in Proposals
  /\ versions \in Seq(VersionRecord)
  /\ \A v \in 1..Len(versions) : versions[v].previous < v
  /\ \A p \in Proposals : status[p] = "APPROVED" => p \in approved
  /\ \A a \in Agents : agent[a].at = "insert" => agent[a].of \in approved
  /\ ActivationIsGoverned

LEMMA ActiveOnes ==
  ASSUME ImproveInv
  PROVE  /\ \A v : v \in ActiveVersions <=> v \in 1..Len(versions) /\ versions[v].active
         /\ ActiveVersions = {} => NewestActive = 0
         /\ \A v \in ActiveVersions : NewestActive = v
<1>1. DOMAIN versions = 1..Len(versions) /\ Len(versions) \in Nat
  BY DEF ImproveInv
<1>2. \A v : v \in ActiveVersions <=> v \in 1..Len(versions) /\ versions[v].active
  BY <1>1 DEF ActiveVersions
<1>3. ActiveVersions = {} => NewestActive = 0
  BY DEF NewestActive
<1>4. ASSUME NEW v \in ActiveVersions  PROVE NewestActive = v
  <2>1. v \in Nat /\ \A w \in ActiveVersions : w = v
    BY <1>1, <1>2 DEF ImproveInv, ActivationIsGoverned
  <2>2. \E u \in ActiveVersions : \A w \in ActiveVersions : w <= u
    BY <2>1
  <2>3. NewestActive \in ActiveVersions
    BY <1>4, <2>2 DEF NewestActive
  <2> QED BY <2>1, <2>3
<1> QED BY <1>2, <1>3, <1>4

\* The version that is set aside, or brought back, keeps everything else.
LEMMA Switched ==
  ASSUME NEW r \in VersionRecord
  PROVE  /\ [r EXCEPT !.active = FALSE] \in VersionRecord
         /\ ~[r EXCEPT !.active = FALSE].active
         /\ [r EXCEPT !.active = FALSE].of = r.of /\ [r EXCEPT !.active = FALSE].previous = r.previous
         /\ [r EXCEPT !.active = TRUE] \in VersionRecord
         /\ [r EXCEPT !.active = TRUE].of = r.of /\ [r EXCEPT !.active = TRUE].previous = r.previous
  BY DEF VersionRecord

LEMMA VersionInserted ==
  ASSUME ImproveInv, NEW a \in Agents, InsertVersion(a)
  PROVE  /\ ImproveInv'
         /\ Len(versions') > Len(versions)
         /\ versions'[Len(versions')].previous = NewestActive
<1> DEFINE old == NewestActive
           new == [of |-> agent[a].of, previous |-> old, active |-> TRUE]
           rest == Inactive(versions, old)
           m == Len(versions)
<1>1. /\ agent[a].of \in Proposals /\ agent[a].of \in approved
      /\ versions' = Append(rest, new) /\ Now(a, "mark", agent[a].of, "ACTIVATED")
      /\ UNCHANGED <<status, approved>>
  BY DEF InsertVersion, ImproveInv
<1>2. m \in Nat /\ DOMAIN versions = 1..m /\ \A v \in 1..m : versions[v] \in VersionRecord
  BY DEF ImproveInv
<1>3. old \in 0..m
  <2>1. CASE ActiveVersions = {}
    BY <1>2, <2>1, ActiveOnes
  <2>2. CASE ActiveVersions # {}
    BY <1>2, <2>2, ActiveOnes
  <2> QED BY <2>1, <2>2
<1>4. \A v \in 1..m : v # old => ~versions[v].active
  BY ActiveOnes
<1> HIDE DEF old
<1>5. new \in VersionRecord /\ new.of = agent[a].of /\ new.previous = old
  BY <1>1, <1>2, <1>3 DEF VersionRecord
<1> HIDE DEF new
<1>6. /\ DOMAIN rest = 1..m
      /\ \A v \in 1..m : /\ rest[v] \in VersionRecord /\ ~rest[v].active
                         /\ rest[v].of = versions[v].of /\ rest[v].previous = versions[v].previous
  <2>1. DOMAIN rest = 1..m
    BY <1>2 DEF Inactive
  <2>2. ASSUME NEW v \in 1..m
        PROVE  /\ rest[v] \in VersionRecord /\ ~rest[v].active
               /\ rest[v].of = versions[v].of /\ rest[v].previous = versions[v].previous
    <3>1. versions[v] \in VersionRecord
      BY <1>2
    <3>2. CASE v = old
      <4>1. rest[v] = [versions[v] EXCEPT !.active = FALSE]
        BY <1>2, <3>2 DEF Inactive
      <4> QED BY <3>1, <4>1, Switched
    <3>3. CASE v # old
      <4>1. rest[v] = versions[v]
        BY <1>2, <3>3 DEF Inactive
      <4> QED BY <1>4, <3>1, <3>3, <4>1
    <3> QED BY <3>2, <3>3
  <2> QED BY <2>1, <2>2
<1>7. rest \in Seq(VersionRecord) /\ Len(rest) = m
  <2>1. rest = [v \in 1..m |-> rest[v]]
    BY <1>2 DEF Inactive
  <2> HIDE DEF rest, m
  <2> QED BY <1>2, <1>6, <2>1
<1> HIDE DEF rest
<1>8. /\ versions' \in Seq(VersionRecord) /\ Len(versions') = m + 1
      /\ versions'[m + 1] = new /\ \A v \in 1..m : versions'[v] = rest[v]
      /\ DOMAIN versions' = 1..m + 1
  BY <1>1, <1>5, <1>7
<1>9. \A v \in 1..m + 1 : v = m + 1 \/ v \in 1..m
  BY <1>2
<1>10. \A v \in 1..Len(versions') : versions'[v].previous < v
  BY <1>2, <1>3, <1>5, <1>6, <1>8, <1>9 DEF ImproveInv
<1>11. \A v \in ActiveVersions' : v = m + 1
  BY <1>6, <1>8, <1>9 DEF ActiveVersions
<1>12. \A v \in DOMAIN versions' : versions'[v].of \in approved'
  <2>1. \A v \in 1..m : versions[v].of \in approved
    BY <1>2 DEF ImproveInv, ActivationIsGoverned
  <2> QED BY <1>1, <1>5, <1>6, <1>8, <1>9, <2>1
<1>13. ActivationIsGoverned'
  BY <1>11, <1>12 DEF ActivationIsGoverned
<1>14. /\ agent' = [b \in Agents |-> agent'[b]]
       /\ \A b \in Agents : agent'[b].at # "rest" => agent'[b].of \in Proposals
       /\ \A b \in Agents : agent'[b].at = "insert" => agent'[b].of \in approved'
  BY <1>1 DEF Now, ImproveInv
<1>15. ImproveInv'
  BY <1>1, <1>8, <1>10, <1>13, <1>14 DEF ImproveInv
<1> QED BY <1>2, <1>5, <1>8, <1>15 DEF m, old

LEMMA VersionRolledBack ==
  ASSUME ImproveInv, NEW a \in Agents, Rollback(a)
  PROVE  /\ ImproveInv'
         /\ Len(versions') = Len(versions)
         /\ NewestActive' = versions[NewestActive].previous
<1> DEFINE v == NewestActive
           m == Len(versions)
           prev == versions[v].previous
<1>1. /\ v # 0 /\ Now(a, "mark", versions[v].of, "ROLLED_BACK") /\ UNCHANGED <<status, approved>>
      /\ versions' = [w \in DOMAIN versions |->
                        IF w = v THEN [versions[w] EXCEPT !.active = FALSE]
                        ELSE IF w = prev THEN [versions[w] EXCEPT !.active = TRUE]
                        ELSE versions[w]]
  BY DEF Rollback
<1>2. m \in Nat /\ DOMAIN versions = 1..m /\ \A w \in 1..m : versions[w] \in VersionRecord
  BY DEF ImproveInv
<1>3. v \in 1..m /\ \A w \in 1..m : w # v => ~versions[w].active
  BY <1>1, ActiveOnes
<1>4. versions[v].of \in Proposals /\ prev \in Nat /\ prev < v
  BY <1>2, <1>3 DEF ImproveInv, VersionRecord
<1> HIDE DEF v, prev
<1>5. ASSUME NEW w \in 1..m
      PROVE  /\ versions'[w] \in VersionRecord
             /\ versions'[w].of = versions[w].of /\ versions'[w].previous = versions[w].previous
             /\ w # prev => ~versions'[w].active
             /\ w = prev => versions'[w] = [versions[w] EXCEPT !.active = TRUE]
  <2>1. versions[w] \in VersionRecord
    BY <1>2
  <2>2. CASE w = v
    <3>1. versions'[w] = [versions[w] EXCEPT !.active = FALSE]
      BY <1>1, <1>2, <2>2
    <3>2. w # prev
      BY <1>2, <1>3, <1>4, <2>2
    <3> QED BY <2>1, <3>1, <3>2, Switched
  <2>3. CASE w # v /\ w = prev
    <3>1. versions'[w] = [versions[w] EXCEPT !.active = TRUE]
      BY <1>1, <1>2, <2>3
    <3> QED BY <2>1, <2>3, <3>1, Switched
  <2>4. CASE w # v /\ w # prev
    <3>1. versions'[w] = versions[w]
      BY <1>1, <1>2, <2>4
    <3> QED BY <1>3, <2>1, <2>4, <3>1
  <2> QED BY <2>2, <2>3, <2>4
<1>6. versions' = [w \in 1..m |-> versions'[w]]
  BY <1>1, <1>2
<1>7. versions' \in Seq(VersionRecord) /\ Len(versions') = m /\ DOMAIN versions' = 1..m
  <2> HIDE DEF m
  <2> QED BY <1>2, <1>5, <1>6
<1>8. \A w \in 1..m : versions'[w].previous < w
  BY <1>5 DEF ImproveInv
<1>9. \A w \in ActiveVersions' : w = prev
  BY <1>5, <1>7 DEF ActiveVersions
<1>10. \A w \in DOMAIN versions' : versions'[w].of \in approved'
  <2>1. \A w \in 1..m : versions[w].of \in approved
    BY <1>2 DEF ImproveInv, ActivationIsGoverned
  <2> QED BY <1>1, <1>5, <1>7, <2>1
<1>11. ActivationIsGoverned'
  BY <1>9, <1>10 DEF ActivationIsGoverned
<1>12. /\ agent' = [b \in Agents |-> agent'[b]]
       /\ \A b \in Agents : agent'[b].at # "rest" => agent'[b].of \in Proposals
       /\ \A b \in Agents : agent'[b].at = "insert" => agent'[b].of \in approved'
  BY <1>1, <1>4 DEF Now, ImproveInv
<1>13. ImproveInv'
  BY <1>1, <1>7, <1>8, <1>11, <1>12 DEF ImproveInv
<1>14. NewestActive' = prev
  <2>1. CASE prev = 0
    <3>1. ActiveVersions' = {}
      BY <1>7, <1>9, <2>1 DEF ActiveVersions
    <3> QED BY <2>1, <3>1 DEF NewestActive
  <2>2. CASE prev # 0
    <3>1. prev \in 1..m
      BY <1>2, <1>3, <1>4, <2>2
    <3>2. versions'[prev].active
      <4>1. versions[prev] \in VersionRecord
        BY <1>2, <3>1
      <4>2. versions'[prev] = [versions[prev] EXCEPT !.active = TRUE]
        BY <1>5, <3>1
      <4> QED BY <4>1, <4>2 DEF VersionRecord
    <3>3. prev \in ActiveVersions'
      BY <1>7, <3>1, <3>2 DEF ActiveVersions
    <3>4. ActiveVersions' = {prev}
      BY <1>9, <3>3
    <3>5. \E u \in ActiveVersions' : \A w \in ActiveVersions' : w <= u
      BY <1>4, <3>4
    <3>6. NewestActive' \in ActiveVersions'
      BY <3>3, <3>5 DEF NewestActive
    <3> QED BY <3>4, <3>6
  <2> QED BY <2>1, <2>2
<1> QED BY <1>7, <1>13, <1>14 DEF m, prev, v

\* What is active is not touched by the other steps.
LEMMA OtherImprovements ==
  ASSUME ImproveInv, NEW a \in Agents,
         \/ Save(a) \/ JudgeProposal(a) \/ Submit(a) \/ Mark(a) \/ Dies(a)
         \/ \E p \in Proposals :
              \/ Propose(a, p) \/ Activate(a, p)
              \/ \E to \in Gate : BeginTransition(a, p, to)
  PROVE  ImproveInv' /\ versions' = versions
<1>1. ASSUME versions' = versions, approved \subseteq approved',
             status' = [p \in Proposals |-> status'[p]], agent' = [b \in Agents |-> agent'[b]],
             \A p \in Proposals : status'[p] = "APPROVED" => p \in approved',
             \A b \in Agents : agent'[b].at # "rest" => agent'[b].of \in Proposals,
             \A b \in Agents : agent'[b].at = "insert" => agent'[b].of \in approved'
      PROVE  ImproveInv'
  BY <1>1 DEF ImproveInv, ActivationIsGoverned, ActiveVersions
<1>2. agent[a].at # "rest" => agent[a].of \in Proposals
  BY DEF ImproveInv
<1>3. CASE Save(a)
  BY <1>1, <1>2, <1>3 DEF Save, Rests, AtRest, ImproveInv
<1>4. CASE JudgeProposal(a)
  BY <1>1, <1>2, <1>4 DEF JudgeProposal, Now, Rests, AtRest, ImproveInv
<1>5. CASE Submit(a)
  BY <1>1, <1>2, <1>5 DEF Submit, Now, Rests, AtRest, ImproveInv
<1>6. CASE Mark(a)
  <2>1. /\ agent[a].at = "mark" /\ agent[a].of \in Proposals /\ UNCHANGED <<status, approved, versions>>
        /\ Now(a, "save", agent[a].of, agent[a].to) \/ Rests(a)
    BY <1>2, <1>6 DEF Mark
  <2>2. CASE Now(a, "save", agent[a].of, agent[a].to)
    BY <1>1, <2>1, <2>2 DEF Now, ImproveInv
  <2>3. CASE Rests(a)
    BY <1>1, <2>1, <2>3 DEF Rests, AtRest, ImproveInv
  <2> QED BY <2>1, <2>2, <2>3
<1>7. CASE Dies(a)
  BY <1>1, <1>7 DEF Dies, Rests, AtRest, ImproveInv
<1>8. ASSUME NEW p \in Proposals, Propose(a, p)  PROVE ImproveInv' /\ versions' = versions
  BY <1>1, <1>8 DEF Propose, Now, ImproveInv
<1>9. ASSUME NEW p \in Proposals, Activate(a, p)  PROVE ImproveInv' /\ versions' = versions
  BY <1>1, <1>9 DEF Activate, Now, ImproveInv
<1>10. ASSUME NEW p \in Proposals, NEW to \in Gate, BeginTransition(a, p, to)
       PROVE  ImproveInv' /\ versions' = versions
  BY <1>1, <1>10 DEF BeginTransition, Now, ImproveInv
<1> QED BY <1>3, <1>4, <1>5, <1>6, <1>7, <1>8, <1>9, <1>10

LEMMA ImproveStep ==
  ASSUME ImproveInv, [ImproveNext]_improveVars
  PROVE  /\ ImproveInv'
         /\ NewestActive' # NewestActive =>
              IF Len(versions') > Len(versions) THEN versions'[Len(versions')].previous = NewestActive
              ELSE NewestActive' = versions[NewestActive].previous
<1>1. CASE UNCHANGED improveVars
  BY <1>1 DEF improveVars, ImproveInv, ActivationIsGoverned, ActiveVersions, NewestActive
<1>2. ASSUME NEW a \in Agents, InsertVersion(a)
      PROVE  /\ ImproveInv' /\ Len(versions') > Len(versions)
             /\ versions'[Len(versions')].previous = NewestActive
  BY <1>2, VersionInserted
<1>3. ASSUME NEW a \in Agents, Rollback(a)
      PROVE  /\ ImproveInv' /\ ~(Len(versions') > Len(versions))
             /\ NewestActive' = versions[NewestActive].previous
  <2>1. ImproveInv' /\ Len(versions') = Len(versions) /\ NewestActive' = versions[NewestActive].previous
    BY <1>3, VersionRolledBack
  <2>2. Len(versions) \in Nat
    BY DEF ImproveInv
  <2> QED BY <2>1, <2>2
<1>4. ASSUME versions' = versions  PROVE NewestActive' = NewestActive
  BY <1>4 DEF NewestActive, ActiveVersions
<1>5. ASSUME NEW a \in Agents,
             \/ Save(a) \/ JudgeProposal(a) \/ Submit(a) \/ Mark(a) \/ Dies(a)
             \/ \E p \in Proposals :
                  \/ Propose(a, p) \/ Activate(a, p)
                  \/ \E to \in Gate : BeginTransition(a, p, to)
      PROVE  ImproveInv' /\ NewestActive' = NewestActive
  BY <1>4, <1>5, OtherImprovements
<1> QED BY <1>1, <1>2, <1>3, <1>5 DEF ImproveNext

LEMMA ImproveInitInv == ImproveInit => ImproveInv
  BY DEF ImproveInit, ImproveInv, AtRest, ActivationIsGoverned, ActiveVersions

-----------------------------------------------------------------------------
(* Computer control.                                                       *)

ActionRecord ==
  [pc : {"idle", "refresh", "before", "dispatch", "verify"},
   kind : Kinds, point : {"near", "far"}, check : {"default", "predicate", "none"},
   approved : BOOLEAN, dry : BOOLEAN, attempts : 0..1, sent : 0..2, failed : BOOLEAN,
   appBefore : Apps \cup {""}, moved : BOOLEAN, effect : {"none", "late", "shown"},
   error : Errors, verdict : VerificationStates]

\* How often an action was sent follows from where its call is and from its retries, and
\* a retry is of an action that may be repeated; what a dispatch has shown was seen.
ActionSafe(q) ==
  /\ q.failed => q.pc = "idle"
  /\ q.sent > 0 \/ q.pc # "idle" => (HighRisk(q.kind) => q.approved)
  /\ q.sent > 0 \/ q.pc \in {"before", "dispatch", "verify"} => ~q.dry
  /\ q.pc = "refresh" => q.sent = 0 /\ q.attempts = 0
  /\ q.pc \in {"before", "dispatch"} => q.sent = q.attempts
  /\ q.pc = "verify" => q.sent = q.attempts + 1
  /\ q.attempts > 0 \/ q.sent > 1 => Retryable(q.kind) /\ ~HighRisk(q.kind) /\ q.check = "default"
  /\ SeesPixels /\ q.pc = "verify" /\ q.effect = "shown" => q.moved

ControlInv == action \in ActionRecord /\ ActionSafe(action)

\* A call that has ended: what is kept of it, and what is reset.
LEMMA EndedCall ==
  ASSUME NEW q \in ActionRecord, NEW error \in Errors, NEW verdict \in VerificationStates,
         EndAct(q, error, verdict)
  PROVE  /\ action' \in ActionRecord /\ action'.pc = "idle"
         /\ action'.kind = q.kind /\ action'.check = q.check
         /\ action'.approved = q.approved /\ action'.dry = q.dry /\ action'.failed = q.failed
         /\ action'.sent = q.sent /\ action'.attempts = q.attempts
<1>1. action' \in ActionRecord
  BY DEF EndAct, ActionRecord, Apps
<1>2. /\ action'.pc = "idle" /\ action'.kind = q.kind /\ action'.check = q.check
      /\ action'.sent = q.sent /\ action'.attempts = q.attempts
  BY DEF EndAct, ActionRecord
<1>3. /\ action'.approved = q.approved /\ action'.dry = q.dry /\ action'.failed = q.failed
  BY DEF EndAct, ActionRecord
<1> QED BY <1>1, <1>2, <1>3

\* A call ends as it was sent so far.
LEMMA EndKeepsAction ==
  ASSUME NEW q \in ActionRecord, NEW error \in Errors, NEW verdict \in VerificationStates,
         EndAct(q, error, verdict),
         q.sent > 0 => (HighRisk(q.kind) => q.approved) /\ ~q.dry,
         q.attempts > 0 \/ q.sent > 1 => Retryable(q.kind) /\ ~HighRisk(q.kind) /\ q.check = "default"
  PROVE  ControlInv'
<1>1. /\ action' \in ActionRecord /\ action'.pc = "idle"
      /\ action'.kind = q.kind /\ action'.check = q.check
      /\ action'.approved = q.approved /\ action'.dry = q.dry /\ action'.failed = q.failed
      /\ action'.sent = q.sent /\ action'.attempts = q.attempts
  BY EndedCall
<1>2. ActionSafe(action)'
  BY <1>1 DEF ActionSafe
<1> QED BY <1>1, <1>2 DEF ControlInv

LEMMA ActKeeps ==
  ASSUME NEW kind \in Kinds, NEW point \in {"near", "far"},
         NEW check \in {"default", "predicate", "none"}, NEW dry \in BOOLEAN,
         NEW agreed \in BOOLEAN, Act(kind, point, check, agreed, dry)
  PROVE  ControlInv'
<1> DEFINE begins == [NoAction EXCEPT !.kind = kind, !.point = point, !.check = check,
                                    !.approved = agreed, !.dry = dry]
<1>1. /\ NoAction \in ActionRecord /\ NoAction.sent = 0 /\ NoAction.attempts = 0
      /\ ~NoAction.failed
  BY DEF NoAction, ActionRecord, Kinds, Errors, VerificationStates
<1>2. begins \in ActionRecord
  BY <1>1 DEF ActionRecord
<1>3. begins.sent = 0 /\ begins.attempts = 0 /\ begins.kind = kind
  BY <1>1 DEF ActionRecord
<1>4. begins.approved = agreed /\ ~begins.failed
  BY <1>1 DEF ActionRecord
<1>5. {"VALIDATION", "APPROVAL_REQUIRED"} \subseteq Errors /\ "FAILED" \in VerificationStates
  BY DEF Errors, VerificationStates
<1>6. \/ EndAct(begins, "VALIDATION", "FAILED") \/ EndAct(begins, "APPROVAL_REQUIRED", "FAILED")
      \/ (HighRisk(kind) => agreed) /\ action' = [begins EXCEPT !.pc = "refresh"]
  BY DEF Act
<1> HIDE DEF begins
<1>7. CASE EndAct(begins, "VALIDATION", "FAILED") \/ EndAct(begins, "APPROVAL_REQUIRED", "FAILED")
  BY <1>2, <1>3, <1>5, <1>7, EndKeepsAction
<1>8. CASE (HighRisk(kind) => agreed) /\ action' = [begins EXCEPT !.pc = "refresh"]
  <2>1. /\ action' \in ActionRecord /\ action'.pc = "refresh" /\ action'.kind = kind
        /\ action'.sent = 0 /\ action'.attempts = 0
    BY <1>2, <1>3, <1>8 DEF ActionRecord
  <2>2. action'.approved = agreed /\ ~action'.failed
    BY <1>2, <1>4, <1>8 DEF ActionRecord
  <2>3. ActionSafe(action)'
    BY <1>8, <2>1, <2>2 DEF ActionSafe
  <2> QED BY <2>1, <2>3 DEF ControlInv
<1> QED BY <1>6, <1>7, <1>8

LEMMA PlanKeeps ==
  ASSUME ControlInv, PlanTarget \/ RefreshFails
  PROVE  ControlInv'
<1>1. action \in ActionRecord /\ ActionSafe(action) /\ action.pc = "refresh"
  BY DEF PlanTarget, RefreshFails, ControlInv
<1>2. action.sent = 0 /\ action.attempts = 0
  BY <1>1 DEF ActionSafe
<1>3. /\ {"VALIDATION", "NONE", "BACKEND_FAILURE"} \subseteq Errors
      /\ {"FAILED", "UNVERIFIED"} \subseteq VerificationStates
  BY DEF Errors, VerificationStates
<1>4. CASE \/ EndAct(action, "VALIDATION", "FAILED") \/ EndAct(action, "NONE", "UNVERIFIED")
           \/ EndAct(action, "BACKEND_FAILURE", "FAILED")
  BY <1>1, <1>2, <1>3, <1>4, EndKeepsAction
<1>5. CASE ~action.dry /\ action' = [action EXCEPT !.pc = "before"]
  <2>1. /\ action' \in ActionRecord /\ action'.pc = "before" /\ action'.kind = action.kind
        /\ action'.sent = 0 /\ action'.attempts = 0
    BY <1>1, <1>2, <1>5 DEF ActionRecord
  <2>2. action'.approved = action.approved /\ action'.dry = action.dry /\ action'.failed = action.failed
    BY <1>1, <1>5 DEF ActionRecord
  <2>3. ActionSafe(action)'
    BY <1>1, <1>5, <2>1, <2>2 DEF ActionSafe
  <2> QED BY <2>1, <2>3 DEF ControlInv
<1> QED BY <1>4, <1>5 DEF PlanTarget, RefreshFails, BackendError

LEMMA CaptureKeeps ==
  ASSUME ControlInv, NEW app \in Apps \cup {""}, CaptureBefore(app)
  PROVE  ControlInv'
<1>1. /\ action \in ActionRecord /\ ActionSafe(action) /\ action.pc = "before"
      /\ action' = [action EXCEPT !.pc = "dispatch", !.appBefore = app, !.moved = FALSE]
  BY DEF CaptureBefore, ControlInv
<1>2. action' \in ActionRecord
  BY <1>1 DEF ActionRecord
<1>3. /\ action'.pc = "dispatch" /\ action'.kind = action.kind /\ action'.check = action.check
      /\ action'.sent = action.sent /\ action'.attempts = action.attempts
  BY <1>1 DEF ActionRecord
<1>4. action'.approved = action.approved /\ action'.dry = action.dry /\ action'.failed = action.failed
  BY <1>1 DEF ActionRecord
<1>5. ActionSafe(action)'
  BY <1>1, <1>3, <1>4 DEF ActionSafe
<1> QED BY <1>2, <1>5 DEF ControlInv

LEMMA DispatchKeeps ==
  ASSUME ControlInv, NEW effect \in {"none", "late", "shown"},
         \/ DispatchSucceeds(effect)
         \/ \E cause \in {"permission", "timeout", "fault"} :
              DispatchFails(cause, effect) \/ DispatchRaises(cause, effect)
  PROVE  ControlInv'
<1>1. action \in ActionRecord /\ ActionSafe(action) /\ action.pc = "dispatch"
  BY DEF DispatchSucceeds, DispatchFails, DispatchRaises, ControlInv
<1>2. /\ action.sent = action.attempts /\ action.attempts \in 0..1 /\ action.sent + 1 \in 0..2
      /\ HighRisk(action.kind) => action.approved
      /\ ~action.dry
      /\ action.attempts > 0 => Retryable(action.kind) /\ ~HighRisk(action.kind) /\ action.check = "default"
  <2>1. action.attempts \in 0..1
    BY <1>1 DEF ActionRecord
  <2> QED BY <1>1, <2>1 DEF ActionSafe
<1>3. CASE DispatchSucceeds(effect)
  <2> DEFINE seen == action.moved \/ effect = "shown"
             n == action.sent + 1
  <2>1. /\ action' = [action EXCEPT !.pc = "verify", !.sent = n, !.effect = effect, !.moved = seen]
        /\ seen \in BOOLEAN /\ (effect = "shown" => seen)
    BY <1>1, <1>3 DEF DispatchSucceeds, ActionRecord
  <2>2. n \in 0..2 /\ n = action.attempts + 1
    BY <1>2
  <2> HIDE DEF seen, n
  <2>3. action' \in ActionRecord
    BY <1>1, <2>1, <2>2 DEF ActionRecord
  <2>4. /\ action'.pc = "verify" /\ action'.kind = action.kind /\ action'.check = action.check
        /\ action'.sent = n /\ action'.attempts = action.attempts /\ action'.effect = effect
    BY <1>1, <2>1 DEF ActionRecord
  <2>5. action'.approved = action.approved /\ action'.dry = action.dry /\ action'.failed = action.failed
    BY <1>1, <2>1 DEF ActionRecord
  <2>6. action'.moved = seen
    BY <1>1, <2>1 DEF ActionRecord
  <2>7. ActionSafe(action)'
    BY <1>1, <1>2, <2>1, <2>2, <2>4, <2>5, <2>6 DEF ActionSafe
  <2> QED BY <2>3, <2>7 DEF ControlInv
<1>4. ASSUME NEW cause \in {"permission", "timeout", "fault"},
             DispatchFails(cause, effect) \/ DispatchRaises(cause, effect)
      PROVE  ControlInv'
  <2> DEFINE n == action.sent + 1
             failing == [action EXCEPT !.sent = n, !.failed = TRUE, !.effect = effect]
  <2>1. n \in 0..2 /\ n = action.attempts + 1
    BY <1>2
  <2>2. \/ EndAct(failing, "PERMISSION_REQUIRED", "BLOCKED_EXTERNAL")
        \/ EndAct(failing, "TIMEOUT", "FAILED")
        \/ EndAct(failing, "BACKEND_FAILURE", "FAILED")
    <3>1. Failed(effect) = failing
      BY DEF Failed
    <3> HIDE DEF failing
    <3>2. MapBackendFailure(failing, cause) \/ BackendError(failing)
      BY <1>4, <3>1 DEF DispatchFails, DispatchRaises
    <3> QED BY <3>2 DEF MapBackendFailure, BackendError, Blocked
  <2> HIDE DEF n
  <2>3. failing \in ActionRecord
    BY <1>1, <2>1 DEF ActionRecord
  <2>4. failing.sent = n /\ failing.attempts = action.attempts /\ failing.kind = action.kind /\ failing.check = action.check
    BY <1>1 DEF ActionRecord
  <2>5. failing.approved = action.approved /\ failing.dry = action.dry
    BY <1>1 DEF ActionRecord
  <2>6. /\ {"PERMISSION_REQUIRED", "TIMEOUT", "BACKEND_FAILURE"} \subseteq Errors
        /\ {"BLOCKED_EXTERNAL", "FAILED"} \subseteq VerificationStates
    BY DEF Errors, VerificationStates
  <2> HIDE DEF failing
  <2>7. /\ failing.sent > 0 => (HighRisk(failing.kind) => failing.approved) /\ ~failing.dry
        /\ failing.attempts > 0 \/ failing.sent > 1 =>
             Retryable(failing.kind) /\ ~HighRisk(failing.kind) /\ failing.check = "default"
    BY <1>2, <2>1, <2>4, <2>5
  <2> QED BY <2>2, <2>3, <2>6, <2>7, EndKeepsAction
<1> QED BY <1>3, <1>4

\* A retry is the first one.
LEMMA OneMore == ASSUME NEW k \in 0..1, k < 1  PROVE k + 1 \in 0..1
  OBVIOUS

\* Verification ends the call, or goes round again for what could not be seen to happen.
LEMMA VerifyKeeps ==
  ASSUME ControlInv, NEW app \in Apps \cup {""}, NEW passed \in BOOLEAN, Verify(app, passed)
  PROVE  /\ ControlInv'
         /\ SeesPixels /\ action'.pc = "before" => action.effect # "shown"
<1> DEFINE verdict == IF action.check = "predicate"
                        THEN IF passed THEN "VERIFIED" ELSE "FAILED"
                        ELSE Verdict(app)
<1>1. /\ action \in ActionRecord /\ ActionSafe(action) /\ action.pc = "verify"
      /\ \/ MayRetry(verdict) /\ action' = [action EXCEPT !.pc = "before", !.attempts = action.attempts + 1]
         \/ EndAct(action, "NONE", verdict)
  BY DEF Verify, ControlInv
<1>2. /\ action.sent = action.attempts + 1 /\ action.attempts \in 0..1
      /\ HighRisk(action.kind) => action.approved
      /\ ~action.dry /\ action.check \in {"default", "predicate", "none"}
      /\ action.attempts > 0 => Retryable(action.kind) /\ ~HighRisk(action.kind) /\ action.check = "default"
  BY <1>1 DEF ActionSafe, ActionRecord
<1>3. verdict \in {"VERIFIED", "FAILED", "UNVERIFIED"}
  BY DEF Verdict
<1>4. verdict = "UNVERIFIED" => action.check \notin {"predicate", "none"} /\ ~(SeesPixels /\ action.moved)
  BY DEF Verdict
<1> HIDE DEF verdict
<1>5. CASE EndAct(action, "NONE", verdict)
  <2>1. "NONE" \in Errors /\ verdict \in VerificationStates
    BY <1>3 DEF Errors, VerificationStates
  <2>2. action.attempts > 0 \/ action.sent > 1 =>
          Retryable(action.kind) /\ ~HighRisk(action.kind) /\ action.check = "default"
    BY <1>1 DEF ActionSafe
  <2>3. ControlInv'
    BY <1>1, <1>2, <1>5, <2>1, <2>2, EndKeepsAction
  <2>4. action'.pc = "idle"
    BY <1>1, <1>5, <2>1, EndedCall
  <2> QED BY <2>3, <2>4
<1>6. CASE MayRetry(verdict) /\ action' = [action EXCEPT !.pc = "before", !.attempts = action.attempts + 1]
  <2> DEFINE n == action.attempts + 1
  <2>1. /\ action.attempts < 1 /\ Retryable(action.kind) /\ ~HighRisk(action.kind)
        /\ action.check = "default" /\ ~(SeesPixels /\ action.moved)
    BY <1>2, <1>4, <1>6 DEF MayRetry
  <2>2. n \in 0..1 /\ n = action.sent /\ action' = [action EXCEPT !.pc = "before", !.attempts = n]
    <3>1. action.attempts \in 0..1
      BY <1>1 DEF ActionRecord
    <3>2. action.sent = action.attempts + 1
      BY <1>1, <1>2 DEF ActionSafe
    <3>3. action.attempts < 1
      BY <2>1
    <3>4. n = action.sent
      BY <3>2
    <3>5. n \in 0..1
      BY <3>1, <3>3, OneMore
    <3> QED BY <1>6, <3>4, <3>5
  <2> HIDE DEF n
  <2>3. action' \in ActionRecord
    BY <1>1, <2>2 DEF ActionRecord
  <2>4. /\ action'.pc = "before" /\ action'.kind = action.kind /\ action'.check = action.check
        /\ action'.sent = action.sent /\ action'.attempts = n
    BY <1>1, <2>2 DEF ActionRecord
  <2>5. action'.approved = action.approved /\ action'.dry = action.dry /\ action'.failed = action.failed
    BY <1>1, <2>2 DEF ActionRecord
  <2>6. ActionSafe(action)'
    BY <1>1, <1>2, <2>1, <2>2, <2>4, <2>5 DEF ActionSafe
  <2>7. SeesPixels => action.effect # "shown"
    BY <1>1, <2>1 DEF ActionSafe
  <2> QED BY <2>3, <2>6, <2>7 DEF ControlInv
<1> QED BY <1>1, <1>5, <1>6

\* The screen changes: by a late effect or by whatever else runs.
LEMMA ScreenKeeps ==
  ASSUME ControlInv, EffectShows \/ DesktopChanges
  PROVE  ControlInv' /\ (action.pc = "verify" => action'.pc # "before")
<1> DEFINE seen == action.pc \in {"dispatch", "verify"}
<1>1. action \in ActionRecord /\ ActionSafe(action)
  BY DEF ControlInv
<1>2. \/ action' = [action EXCEPT !.effect = "shown", !.moved = seen]
      \/ action' = [action EXCEPT !.moved = seen]
      \/ action' = action
  BY DEF EffectShows, DesktopChanges
<1>3. seen \in BOOLEAN /\ (action.pc = "verify" => seen)
  OBVIOUS
<1> HIDE DEF seen
<1>4. action' \in ActionRecord
  BY <1>1, <1>2, <1>3 DEF ActionRecord
<1>5. /\ action'.pc = action.pc /\ action'.kind = action.kind /\ action'.check = action.check
      /\ action'.sent = action.sent /\ action'.attempts = action.attempts
  BY <1>1, <1>2 DEF ActionRecord
<1>6. action'.approved = action.approved /\ action'.dry = action.dry /\ action'.failed = action.failed
  BY <1>1, <1>2 DEF ActionRecord
<1>7. action' # action => action'.moved = seen
  BY <1>1, <1>2 DEF ActionRecord
<1>8. SeesPixels /\ action'.pc = "verify" /\ action'.effect = "shown" => action'.moved
  BY <1>1, <1>3, <1>5, <1>7 DEF ActionSafe
<1>9. ActionSafe(action)'
  BY <1>1, <1>5, <1>6, <1>8 DEF ActionSafe
<1> QED BY <1>4, <1>5, <1>9 DEF ControlInv

LEMMA ControlStep ==
  ASSUME ControlInv, [ControlNext]_controlVars
  PROVE  /\ ControlInv'
         /\ SeesPixels /\ action.pc = "verify" /\ action'.pc = "before" => action.effect # "shown"
<1>1. CASE UNCHANGED action
  BY <1>1 DEF ControlInv
<1>2. ASSUME NEW kind \in Kinds, NEW point \in {"near", "far"},
             NEW check \in {"default", "predicate", "none"}, NEW dry \in BOOLEAN,
             NEW agreed \in {HighRisk(kind), FALSE}, Act(kind, point, check, agreed, dry)
      PROVE  ControlInv' /\ action.pc # "verify"
  <2>1. agreed \in BOOLEAN
    BY DEF HighRisk
  <2>2. action.pc = "idle"
    BY <1>2 DEF Act
  <2> QED BY <1>2, <2>1, <2>2, ActKeeps
<1>3. CASE PlanTarget \/ RefreshFails
  BY <1>3, PlanKeeps DEF PlanTarget, RefreshFails
<1>4. ASSUME NEW app \in Apps \cup {""}, CaptureBefore(app)  PROVE ControlInv' /\ action.pc # "verify"
  BY <1>4, CaptureKeeps DEF CaptureBefore
<1>5. ASSUME NEW app \in Apps \cup {""}, NEW passed \in BOOLEAN, Verify(app, passed)
      PROVE  ControlInv' /\ (SeesPixels /\ action'.pc = "before" => action.effect # "shown")
  BY <1>5, VerifyKeeps
<1>6. ASSUME NEW effect \in {"none", "late", "shown"},
             \/ DispatchSucceeds(effect)
             \/ \E cause \in {"permission", "timeout", "fault"} :
                  DispatchFails(cause, effect) \/ DispatchRaises(cause, effect)
      PROVE  ControlInv' /\ action.pc # "verify"
  BY <1>6, DispatchKeeps DEF DispatchSucceeds, DispatchFails, DispatchRaises
<1>7. CASE EffectShows \/ DesktopChanges
  BY <1>7, ScreenKeeps
<1>8. \/ UNCHANGED action
      \/ \E kind \in Kinds, point \in {"near", "far"}, check \in {"default", "predicate", "none"},
            dry \in BOOLEAN :
           \E agreed \in {HighRisk(kind), FALSE} : Act(kind, point, check, agreed, dry)
      \/ PlanTarget \/ RefreshFails
      \/ \E app \in Apps \cup {""} : CaptureBefore(app) \/ \E passed \in BOOLEAN : Verify(app, passed)
      \/ \E effect \in {"none", "late", "shown"} :
           \/ DispatchSucceeds(effect)
           \/ \E cause \in {"permission", "timeout", "fault"} :
                DispatchFails(cause, effect) \/ DispatchRaises(cause, effect)
      \/ EffectShows \/ DesktopChanges
  BY DEF ControlNext, controlVars
<1> QED BY <1>1, <1>2, <1>3, <1>4, <1>5, <1>6, <1>7, <1>8

LEMMA ControlInitInv == ControlInit => ControlInv
<1> SUFFICES ASSUME ControlInit  PROVE ControlInv
  OBVIOUS
<1>1. NoAction \in ActionRecord
  BY DEF NoAction, ActionRecord, Kinds, Errors, VerificationStates
<1>2. /\ NoAction.sent = 0 /\ NoAction.attempts = 0 /\ NoAction.pc = "idle"
  BY DEF NoAction
<1>3. action = NoAction
  BY DEF ControlInit
<1> QED BY <1>1, <1>2, <1>3 DEF ControlInv, ActionSafe

\* What the bounds on the sendings of an action follow from.
LEMMA ControlSound == ControlInv => SendsAreBounded
  BY DEF ControlInv, ActionSafe, ActionRecord, SendsAreBounded

-----------------------------------------------------------------------------
(* The parts, together.                                                    *)

ChangeInv == LauncherInv /\ RootInv /\ EditInv /\ WorkerInv /\ ImproveInv /\ ControlInv

LEMMA ChangesKeep == Spec => []ChangeInv
<1>1. Init => ChangeInv
  BY LauncherInitInv, RootInitInv, EditInitInv, WorkerInitInv, ImproveInitInv, ControlInitInv
     DEF Init, ChangeInv
<1>2. ChangeInv /\ [Next]_vars => ChangeInv'
  BY ChangeSteps, LauncherStep, RootStep, EditStep, WorkerStepKeeps, ImproveStep, ControlStep
     DEF ChangeInv
<1> QED BY <1>1, <1>2, PTL DEF Spec

\* With any number of starts and stops, a daemon that ends by itself, told to or not, has
\* no runtime left, whatever else is killed meanwhile (supervise, app/launcher.py).
THEOREM NoRuntimeIsLeftBehind == Spec => []CleanExitLeavesNothing
<1>1. ChangeInv => CleanExitLeavesNothing
  BY LauncherSound DEF ChangeInv
<1> QED BY <1>1, ChangesKeep, PTL

\* No pidfile is locked by two daemons, and one that supervises holds a lock
\* (try_lock_pidfile and _ensure_pidfile, app/launcher.py).
THEOREM LocksAreExclusive == Spec => []LauncherTypeOK
<1>1. ChangeInv => LauncherTypeOK
  BY LauncherSound DEF ChangeInv
<1> QED BY <1>1, ChangesKeep, PTL

\* With any number of missions, files and edits: the worktree of a mission at work stays,
\* a plan that failed leaves the files as they were, a commit is exactly what was
\* validated, and there is none after an early cancellation (worktree_guard.py,
\* edit_engine.py, repo_code_worker.py of app/workers).
THEOREM EditsLeaveNoHarm == Spec => []EditsAreSafe
<1>1. ChangeInv => EditsAreSafe
  <2> SUFFICES ASSUME ChangeInv  PROVE EditsAreSafe
    OBVIOUS
  <2>1. LiveTreesStay
    BY DEF ChangeInv, RootInv, LiveTreesStay
  <2>2. RestoreIsExact
    BY DEF ChangeInv, EditInv, RestoreIsExact
  <2>3. CommitIsWhatPassed /\ CancelStopsTheCommit
    BY WorkerSound DEF ChangeInv
  <2> QED BY <2>1, <2>2, <2>3 DEF EditsAreSafe
<1> QED BY <1>1, ChangesKeep, PTL

\* With any number of agents and proposals, one version at most is active, each was
\* approved, an activation takes the place of the active one and a rollback brings back
\* the one before it (ActivationStore, app/improvement/versioning.py).
THEOREM ImprovementIsGoverned == Spec => ActivationIsSound
<1>1. ChangeInv => ActivationIsGoverned
  BY DEF ChangeInv, ImproveInv
<1>2. ASSUME ChangeInv, [Next]_vars
      PROVE  [NewestActive' # NewestActive =>
                IF Len(versions') > Len(versions) THEN versions'[Len(versions')].previous = NewestActive
                ELSE NewestActive' = versions[NewestActive].previous]_improveVars
  <2>1. ImproveInv /\ [ImproveNext]_improveVars
    BY <1>2, ChangeSteps DEF ChangeInv
  <2> QED BY <2>1, ImproveStep
<1> QED BY <1>1, <1>2, ChangesKeep, PTL DEF Spec, ActivationIsSound, ActiveFollowsLineage

\* Of any number of kinds of action and applications, and on a backend that sees pixels:
\* an action of a computer is sent with the approval it needs and never in a dry run,
\* twice only if it may be repeated, and not again once its effect has shown
\* (ComputerRuntime.act, app/computer/runtime.py).
THEOREM ActionsHaveReason == ASSUME SeesPixels PROVE Spec => ActsWithReason
<1>1. ChangeInv => SendsAreBounded
  BY ControlSound DEF ChangeInv
<1>2. ASSUME ChangeInv, [Next]_vars
      PROVE  [(action.pc = "verify" /\ action'.pc = "before") => action.effect # "shown"]_controlVars
  <2>1. ControlInv /\ [ControlNext]_controlVars
    BY <1>2, ChangeSteps DEF ChangeInv
  <2> QED BY <2>1, ControlStep
<1> QED BY <1>1, <1>2, ChangesKeep, PTL DEF Spec, ActsWithReason, RepeatsOnlyInert

-----------------------------------------------------------------------------
(* Types of the repository worker.                                         *)

WorkerBounds ==
  /\ mission \in [llm : BOOLEAN, keep : BOOLEAN]
  /\ retries \in 0..MaxRetries
  /\ validated \subseteq Files \cup {"artefact"}
  /\ outcome \in Outcomes \cup {"none"}
  /\ outcome = "none" <=> stage # "done"
  /\ tree.at = "removed" => outcome = "PASS"

LEMMA WorkerGoesOn ==
  ASSUME WorkerBounds, NEW s, s # "done", stage # "done", Goto(s), retries' \in 0..MaxRetries,
         validated' \subseteq Files \cup {"artefact"}, tree'.at = "removed" => tree.at = "removed"
  PROVE  WorkerBounds'
  BY DEF WorkerBounds, Goto, Outcomes

LEMMA WorkerEnds ==
  ASSUME WorkerBounds, NEW o \in Outcomes, EndRun(o), UNCHANGED <<mission, retries, validated>>,
         stage # "done", tree'.at = "removed" => tree.at = "removed" \/ o = "PASS"
  PROVE  WorkerBounds'
  BY DEF WorkerBounds, EndRun, Outcomes

LEMMA TreeStays ==
  ASSUME NEW t \in TreeRecord, NEW ps
  PROVE  [t EXCEPT !.dirty = ps].at = t.at /\ [t EXCEPT !.index = ps].at = t.at
  BY DEF TreeRecord

LEMMA WorkerBoundsStep == WorkerInv /\ WorkerBounds /\ [WorkerNext]_workerVars => WorkerBounds'
<1> SUFFICES ASSUME WorkerInv, WorkerBounds, [WorkerNext]_workerVars  PROVE WorkerBounds'
  OBVIOUS
<1>1. tree \in TreeRecord /\ retries \in Nat /\ MaxRetries \in Nat /\ validated \subseteq Files \cup {"artefact"}
      /\ retries \in 0..MaxRetries
  BY WorkerAssumption DEF WorkerInv, WorkerBounds
<1>2. ASSUME NEW o \in Outcomes, Refused(o), stage # "done"  PROVE WorkerBounds'
  BY <1>2, WorkerEnds DEF Refused
<1>3. ASSUME NEW o \in Outcomes, EndRun(o), stage # "done", tree'.at = "removed" => tree.at = "removed",
             UNCHANGED <<mission, retries, plan, validated, commits, world>>
      PROVE  WorkerBounds'
  BY <1>3, WorkerEnds
<1>4. ASSUME Again, stage # "done", tree'.at = "removed" => tree.at = "removed"  PROVE WorkerBounds'
  <2>1. CASE mission.llm /\ retries < MaxRetries /\ retries' = retries + 1 /\ Goto("repair") /\ UNCHANGED validated
    <3>1. retries' \in 0..MaxRetries
      BY <1>1, <2>1
    <3> QED BY <1>1, <1>4, <2>1, <3>1, WorkerGoesOn
  <2>2. CASE EndRun("FAIL") /\ UNCHANGED <<mission, retries, plan, validated, commits, world>>
    BY <1>3, <1>4, <2>2 DEF Outcomes
  <2> QED BY <1>4, <2>1, <2>2 DEF Again
<1>5. ASSUME NEW s, s # "done", Goto(s), stage # "done", UNCHANGED <<retries, validated>>,
             tree'.at = "removed" => tree.at = "removed"
      PROVE  WorkerBounds'
  BY <1>1, <1>5, WorkerGoesOn
<1>6. CASE Accept
  BY <1>2, <1>5, <1>6 DEF Accept, Outcomes
<1>7. CASE Allocate
  <2>1. tree'.at # "removed" \/ UNCHANGED tree
    BY <1>1, <1>7 DEF Allocate, Refused, TreeRecord
  <2> QED BY <1>2, <1>3, <1>5, <1>7, <2>1 DEF Allocate, Outcomes
<1>8. CASE DetectTools \/ Plan \/ Repair
  BY <1>2, <1>5, <1>8 DEF DetectTools, Plan, Repair, Outcomes
<1>9. CASE Prepare
  <2>1. CASE mission.llm /\ Again /\ UNCHANGED tree
    BY <1>4, <1>9, <2>1 DEF Prepare
  <2> QED BY <1>2, <1>5, <1>9, <2>1 DEF Prepare, Outcomes
<1>10. CASE Apply
  <2>1. tree'.at = tree.at
    BY <1>1, <1>10, TreeStays DEF Apply, Refused
  <2> QED BY <1>2, <1>3, <1>5, <1>10, <2>1 DEF Apply, Outcomes
<1>11. CASE Validate
  <2>1. tree'.at = tree.at
    BY <1>1, <1>11, TreeStays DEF Validate, Refused
  <2>2. CASE validated' = tree'.dirty /\ Goto("status") /\ UNCHANGED retries
    <3>1. WorkerInv'
      BY WorkerStepKeeps
    <3>2. validated' \subseteq Files \cup {"artefact"}
      BY <2>2, <3>1 DEF WorkerInv, TreeRecord
    <3> QED BY <1>1, <1>11, <2>1, <2>2, <3>2, WorkerGoesOn DEF Validate
  <2> QED BY <1>2, <1>5, <1>11, <2>1, <2>2 DEF Validate, Outcomes
<1>12. CASE JudgeTests
  <2>1. tree'.at = tree.at /\ stage # "done"
    BY <1>1, <1>12, TreeStays DEF JudgeTests
  <2> QED BY <1>3, <1>4, <1>12, <2>1 DEF JudgeTests, Outcomes
<1>13. CASE Review \/ BeforeCommit \/ Fence \/ ScanDiff
  BY <1>2, <1>5, <1>13 DEF Review, BeforeCommit, Fence, ScanDiff, Outcomes
<1>14. CASE Add
  <2>1. tree'.at = tree.at
    BY <1>1, <1>14, TreeStays DEF Add
  <2> QED BY <1>5, <1>14, <2>1 DEF Add
<1>15. CASE Commit
  <2>1. tree'.at = tree.at
    BY <1>1, <1>15 DEF Commit, Refused, TreeRecord
  <2> QED BY <1>2, <1>5, <1>15, <2>1 DEF Commit, Outcomes
<1>16. CASE Confirm
  BY <1>16, WorkerEnds DEF Confirm, Cleanup, Outcomes
<1>17. CASE Stopped
  BY <1>2, <1>17 DEF Stopped, Outcomes
<1>18. CASE CancelRequested \/ DeadlinePasses \/ SourceMoves \/ UNCHANGED workerVars
  BY <1>18 DEF CancelRequested, DeadlinePasses, SourceMoves, workerVars, WorkerBounds
<1> QED BY <1>6, <1>7, <1>8, <1>9, <1>10, <1>11, <1>12, <1>13, <1>14, <1>15, <1>16, <1>17, <1>18
        DEF WorkerNext, WorkerStep

LEMMA WorkerBoundsBegin == WorkerInit => WorkerBounds
  BY WorkerAssumption DEF WorkerInit, WorkerBounds

LEMMA WorkerTypes == WorkerInv /\ WorkerBounds => WorkerTypeOK
  BY DEF WorkerInv, WorkerBounds, WorkerTypeOK, TreeRecord, WorldRecord

-----------------------------------------------------------------------------
(* Types of the edit engine.                                               *)

EditBounds ==
  /\ DOMAIN original \subseteq PathNames /\ DOMAIN staged \subseteq PathNames
  /\ \A n \in DOMAIN staged : staged[n] \in Text
  /\ \A f \in Paths : files[f] \in Text
  /\ done \in 0..EditBound /\ Len(prepared) <= EditBound
  /\ \A i \in 1..Len(prepared) : prepared[i].name \in DOMAIN staged

LEMMA TextFacts ==
  /\ EditBound \in Nat
  /\ \A k \in 1..EditBound : {k} \in Text /\ \A t \in Text : t \cup {k} \in Text
  /\ \A f \in Paths : Base[f] \in Text
  /\ NoFile \in Text
  BY EditAssumption DEF Text, Base, NoFile

\* The next edit of the plan keeps the bounds, whatever text it stages.
LEMMA StagedBounds ==
  ASSUME EditInv, EditBounds, NEW act, NEW n \in PathNames, NEW text \in Text, This <= EditBound,
         staged' = With(staged, n, text), DOMAIN original' \subseteq PathNames, Staged(act, n)
  PROVE  EditBounds'
<1>1. /\ Len(prepared) \in Nat /\ Len(prepared) + 1 <= EditBound /\ UNCHANGED <<files, done>>
      /\ prepared' = Append(prepared, [action |-> act, name |-> n])
  BY DEF This, Staged, EditInv
<1>2. /\ DOMAIN staged' = DOMAIN staged \cup {n}
      /\ \A m \in DOMAIN staged' : staged'[m] \in Text
  BY DEF With, EditBounds
<1>3. Len(prepared') = Len(prepared) + 1 /\ Len(prepared') <= EditBound
      /\ \A i \in 1..Len(prepared) : prepared'[i] = prepared[i]
      /\ prepared'[Len(prepared) + 1].name = n
  <2> DEFINE e == [action |-> act, name |-> n]
  <2>1. e.name = n
    OBVIOUS
  <2> HIDE DEF e
  <2>2. prepared' = Append(prepared, e)
    BY <1>1 DEF e
  <2> QED BY <1>1, <2>1, <2>2 DEF EditInv
<1>4. ASSUME NEW i \in 1..Len(prepared')  PROVE prepared'[i].name \in DOMAIN staged'
  BY <1>1, <1>2, <1>3 DEF EditBounds
<1> QED BY <1>1, <1>2, <1>3, <1>4 DEF EditBounds

LEMMA EditBoundsStep == EditInv /\ EditBounds /\ [EditNext]_editVars => EditBounds'
<1> SUFFICES ASSUME EditInv, EditBounds, [EditNext]_editVars  PROVE EditBounds'
  OBVIOUS
<1>1. EditBound \in Nat /\ Len(prepared) \in Nat /\ done \in Nat /\ NoFile \in Text
  BY TextFacts DEF EditInv
<1>2. ASSUME NEW n \in PathNames, StageCreate(n)  PROVE EditBounds'
  <2>1. This \in 1..EditBound
    BY <1>1, <1>2 DEF StageCreate, This
  <2>2. {This} \in Text
    BY <2>1, TextFacts
  <2> QED BY <1>2, <2>2, StagedBounds DEF StageCreate, EditBounds
<1>3. ASSUME NEW n \in PathNames, StageDelete(n)  PROVE EditBounds'
  <2>1. DOMAIN original' \subseteq PathNames
    BY <1>3 DEF StageDelete, With, EditBounds
  <2> QED BY <1>1, <1>3, <2>1, StagedBounds DEF StageDelete
<1>4. ASSUME NEW n \in PathNames, StageEdit(n)  PROVE EditBounds'
  <2> DEFINE first == IF n \in DOMAIN original THEN original[n] ELSE files[PathOf(n)]
             current == IF n \in DOMAIN staged THEN staged[n] ELSE first
  <2>1. /\ original' = With(original, n, first) /\ staged' = With(staged, n, current \cup {This})
        /\ This <= EditBound /\ Staged("edit", n)
    BY <1>4 DEF StageEdit
  <2>2. first \in Text
    BY TextFacts, BaseFiles DEF EditInv, EditBounds
  <2>3. current \in Text
    BY <2>2 DEF EditBounds
  <2>4. DOMAIN original' \subseteq PathNames
    <3> HIDE DEF first
    <3> QED BY <2>1 DEF With, EditBounds
  <2> HIDE DEF current
  <2>5. This \in 1..EditBound
    BY <1>1, <2>1 DEF This
  <2>6. current \cup {This} \in Text
    BY <2>3, <2>5, TextFacts
  <2> QED BY <2>1, <2>4, <2>6, StagedBounds
<1>5. CASE Refuse \/ Accepted \/ Revert \/ UNCHANGED editVars
  BY <1>5 DEF Refuse, Accepted, Revert, editVars, EditBounds
<1>6. CASE Write \/ Restore
  <2> DEFINE k == done + 1
             f == PathOf(prepared[k].name)
  <2>1. done < Len(prepared) /\ UNCHANGED <<original, staged, prepared>>
        /\ (done' = 0 \/ done' = done + 1)
    BY <1>6 DEF Write, Restore, EditInv
  <2>2. k \in 1..Len(prepared)
    BY <1>1, <2>1
  <2>3. done' \in 0..EditBound
    BY <1>1, <2>1 DEF EditBounds
  <2>4. \E text \in Text : files' = [files EXCEPT ![f] = text]
    <3> HIDE DEF k
    <3>1. prepared[k] \in EditRecord /\ HasWayBack(prepared[k])
      BY <2>2 DEF EditInv
    <3>2. f \in Paths /\ files[f] \in Text
      BY <3>1, BaseFiles DEF EditRecord, EditBounds
    <3>3. staged[prepared[k].name] \in Text
      BY <2>2 DEF EditBounds
    <3>4. CASE Write
      BY <1>1, <3>2, <3>3, <3>4 DEF Write, k
    <3>5. CASE Restore
      <4>1. files' = [files EXCEPT ![f] = RestoredText(prepared[k])]
        BY <3>5 DEF Restore, k
      <4>2. RestoredText(prepared[k]) \in Text
        BY <1>1, <3>1, <3>2, TextFacts DEF RestoredText, EditInv
      <4> QED BY <4>1, <4>2
    <3> QED BY <1>6, <3>4, <3>5
  <2>5. \A g \in Paths : files'[g] \in Text
    <3> HIDE DEF f
    <3> QED BY <2>4 DEF EditInv, EditBounds
  <2> QED BY <2>1, <2>3, <2>5 DEF EditBounds
<1> QED BY <1>2, <1>3, <1>4, <1>5, <1>6 DEF EditNext

LEMMA EditBoundsBegin == EditInit => EditBounds
  BY TextFacts DEF EditInit, EditBounds, NoTexts

LEMMA EditTypes == EditInv /\ EditBounds => EditTypeOK
<1> SUFFICES ASSUME EditInv, EditBounds  PROVE EditTypeOK
  OBVIOUS
<1>1. \A i \in DOMAIN prepared : prepared[i].action # "create" => prepared[i].name \in DOMAIN original
  BY DEF EditInv, HasWayBack
<1>2. files \in [Paths -> Text]
  BY DEF EditInv, EditBounds
<1> QED BY <1>1, <1>2 DEF EditBounds, EditTypeOK

-----------------------------------------------------------------------------
(* Types of the improvement loop.                                          *)

ImproveBounds ==
  /\ \A p \in Proposals : status[p] \in Statuses \cup {"none"}
  /\ approved \subseteq Proposals
  /\ \A a \in Agents : agent[a].to \in Statuses \cup {"none"}

LEMMA StatusesKnown ==
  {"DRAFT", "PENDING_REVIEW", "APPROVED", "REJECTED", "ACTIVATED", "ROLLED_BACK"} \subseteq Statuses
<1>1. /\ <<"DRAFT", "PENDING_REVIEW">> \in TRANSITIONS /\ <<"PENDING_REVIEW", "APPROVED">> \in TRANSITIONS
      /\ <<"PENDING_REVIEW", "REJECTED">> \in TRANSITIONS /\ <<"APPROVED", "ACTIVATED">> \in TRANSITIONS
      /\ <<"APPROVED", "ROLLED_BACK">> \in TRANSITIONS
  BY DEF TRANSITIONS
<1>2. ASSUME NEW s, NEW t, <<s, t>> \in TRANSITIONS  PROVE s \in Statuses /\ t \in Statuses
  <2>1. <<s, t>>[1] = s /\ <<s, t>>[2] = t
    OBVIOUS
  <2> QED BY <1>2, <2>1 DEF Statuses
<1> QED BY <1>1, <1>2

LEMMA ImproveBoundsStep == ImproveInv /\ ImproveBounds /\ [ImproveNext]_improveVars => ImproveBounds'
<1> SUFFICES ASSUME ImproveInv, ImproveBounds, [ImproveNext]_improveVars  PROVE ImproveBounds'
  OBVIOUS
<1> DEFINE Listed == Statuses \cup {"none"}
<1>0. {"DRAFT", "PENDING_REVIEW", "APPROVED", "REJECTED", "ACTIVATED", "ROLLED_BACK", "none"} \subseteq Listed
  BY StatusesKnown
<1>1. /\ \A p \in Proposals : status[p] \in Listed
      /\ \A a \in Agents : agent[a].to \in Listed /\ (agent[a].at # "rest" => agent[a].of \in Proposals)
      /\ status = [p \in Proposals |-> status[p]] /\ agent = [a \in Agents |-> agent[a]]
      /\ approved \subseteq Proposals
  BY DEF ImproveInv, ImproveBounds
<1>2. ASSUME \A p \in Proposals : status'[p] \in Listed, approved' \subseteq Proposals,
             \A a \in Agents : agent'[a].to \in Listed
      PROVE  ImproveBounds'
  BY <1>2 DEF ImproveBounds, Statuses, TRANSITIONS
<1> HIDE DEF Listed
<1>3. CASE UNCHANGED improveVars
  BY <1>1, <1>2, <1>3 DEF improveVars
<1>4. ASSUME NEW a \in Agents, NEW at, NEW p, NEW to \in Listed, Now(a, at, p, to)
      PROVE  \A b \in Agents : agent'[b].to \in Listed
  BY <1>1, <1>4 DEF Now
<1>5. ASSUME NEW a \in Agents, Rests(a)  PROVE \A b \in Agents : agent'[b].to \in Listed
  BY <1>0, <1>1, <1>5 DEF Rests, AtRest
<1>6. ASSUME NEW p \in Proposals, NEW s \in Listed, status' = [status EXCEPT ![p] = s]
      PROVE  \A q \in Proposals : status'[q] \in Listed
  BY <1>1, <1>6
<1>7. ASSUME NEW a \in Agents, UNCHANGED <<status, approved>>,
             Rests(a) \/ \E at, p : \E to \in Listed : Now(a, at, p, to)
      PROVE  ImproveBounds'
  BY <1>1, <1>2, <1>4, <1>5, <1>7
<1>8. ASSUME NEW a \in Agents, Save(a)  PROVE ImproveBounds'
  <2>1. agent[a].of \in Proposals /\ agent[a].to \in Listed
    BY <1>1, <1>8 DEF Save
  <2>2. approved' \subseteq Proposals
    BY <1>1, <1>8, <2>1 DEF Save
  <2> QED BY <1>2, <1>5, <1>6, <1>8, <2>1, <2>2 DEF Save
<1>9. ASSUME NEW a \in Agents, JudgeProposal(a)  PROVE ImproveBounds'
  <2>1. agent[a].of \in Proposals /\ UNCHANGED approved
        /\ (UNCHANGED status \/ status' = [status EXCEPT ![agent[a].of] = "DRAFT"])
    BY <1>1, <1>9 DEF JudgeProposal
  <2>2. Now(a, "submit", agent[a].of, "DRAFT") \/ Rests(a)
    BY <1>9 DEF JudgeProposal
  <2>3. \A b \in Agents : agent'[b].to \in Listed
    BY <1>0, <1>4, <1>5, <2>2
  <2>4. \A q \in Proposals : status'[q] \in Listed
    BY <1>0, <1>1, <1>6, <2>1
  <2> QED BY <1>1, <1>2, <2>1, <2>3, <2>4
<1>10. ASSUME NEW a \in Agents, Submit(a) \/ Mark(a) \/ Dies(a)  PROVE ImproveBounds'
  BY <1>0, <1>1, <1>7, <1>10 DEF Submit, Mark, Dies
<1>11. ASSUME NEW a \in Agents, InsertVersion(a) \/ Rollback(a)  PROVE ImproveBounds'
  BY <1>0, <1>7, <1>11 DEF InsertVersion, Rollback
<1>12. ASSUME NEW a \in Agents, NEW p \in Proposals, Propose(a, p)  PROVE ImproveBounds'
  <2>1. Now(a, "judge", p, "DRAFT") /\ status' = [status EXCEPT ![p] = "DRAFT"] /\ UNCHANGED approved
    BY <1>12 DEF Propose
  <2> QED BY <1>0, <1>1, <1>2, <1>4, <1>6, <2>1
<1>13. ASSUME NEW a \in Agents, NEW p \in Proposals, Activate(a, p)  PROVE ImproveBounds'
  BY <1>0, <1>7, <1>13 DEF Activate
<1>14. ASSUME NEW a \in Agents, NEW p \in Proposals, NEW to \in Gate, BeginTransition(a, p, to)
       PROVE  ImproveBounds'
  <2>1. to \in Listed
    BY <1>0 DEF Gate
  <2> QED BY <1>7, <1>14, <2>1 DEF BeginTransition
<1> QED BY <1>3, <1>8, <1>9, <1>10, <1>11, <1>12, <1>13, <1>14 DEF ImproveNext

LEMMA ImproveBoundsBegin == ImproveInit => ImproveBounds
  BY DEF ImproveInit, ImproveBounds, AtRest

LEMMA ImproveTypes == ImproveInv /\ ImproveBounds => ImproveTypeOK
<1> SUFFICES ASSUME ImproveInv, ImproveBounds  PROVE ImproveTypeOK
  OBVIOUS
<1>1. ASSUME NEW v \in DOMAIN versions
      PROVE  versions[v] \in [of : Proposals, previous : 0..(v - 1), active : BOOLEAN]
  <2>1. v \in Nat /\ versions[v] \in VersionRecord /\ versions[v].previous < v
    BY DEF ImproveInv
  <2>2. versions[v].previous \in 0..(v - 1)
    BY <2>1 DEF VersionRecord
  <2> QED BY <2>1, <2>2 DEF VersionRecord
<1>2. status \in [Proposals -> Statuses \cup {"none"}]
  BY DEF ImproveInv, ImproveBounds
<1> QED BY <1>1, <1>2 DEF ImproveBounds, ImproveTypeOK

-----------------------------------------------------------------------------
(* Types of computer control.                                              *)

SessionRecord == [status : SessionStatuses, layout : Layouts]
DesktopRecord == [layout : Layouts, app : Apps]
ScreenBounds == session \in SessionRecord /\ desktop \in DesktopRecord

LEMMA ScreenBoundsStep == ScreenBounds /\ [ControlNext]_controlVars => ScreenBounds'
<1> SUFFICES ASSUME ScreenBounds, [ControlNext]_controlVars  PROVE ScreenBounds'
  OBVIOUS
<1>0. {"READY", "ACTIVE", "PAUSED", "BLOCKED", "CLOSED"} \subseteq SessionStatuses
  BY DEF SessionStatuses
<1>1. session \in SessionRecord /\ desktop \in DesktopRecord
  BY DEF ScreenBounds
<1>2. CASE UNCHANGED <<session, desktop>>
  BY <1>1, <1>2 DEF ScreenBounds
<1>3. ASSUME NEW s \in SessionStatuses, session' = [session EXCEPT !.status = s], desktop' = desktop
      PROVE  ScreenBounds'
  BY <1>1, <1>3 DEF ScreenBounds, SessionRecord
<1>4. ASSUME NEW kind, NEW point, NEW check, NEW agreed, NEW dry, Act(kind, point, check, agreed, dry)
      PROVE  ScreenBounds'
  BY <1>2, <1>4 DEF Act
<1>5. ASSUME NEW app, CaptureBefore(app)  PROVE ScreenBounds'
  BY <1>2, <1>5 DEF CaptureBefore
<1>6. ASSUME NEW effect, DispatchSucceeds(effect)  PROVE ScreenBounds'
  BY <1>2, <1>6 DEF DispatchSucceeds
<1>7. ASSUME NEW effect, NEW cause, DispatchFails(cause, effect) \/ DispatchRaises(cause, effect)
      PROVE  ScreenBounds'
  <2>1. \E q : MapBackendFailure(q, cause) \/ BackendError(q)
    BY <1>7 DEF DispatchFails, DispatchRaises
  <2>2. session' = session \/ session' = [session EXCEPT !.status = "BLOCKED"]
    BY <2>1 DEF MapBackendFailure, BackendError, Blocked
  <2> QED BY <1>0, <1>2, <1>3, <1>7, <2>2 DEF DispatchFails, DispatchRaises
<1>8. ASSUME NEW app, NEW passed, Verify(app, passed)  PROVE ScreenBounds'
  <2>1. session' = session \/ session' = [session EXCEPT !.status = IF @ = "READY" THEN "ACTIVE" ELSE @]
    BY <1>8 DEF Verify
  <2>2. session' \in SessionRecord
    BY <1>0, <1>1, <2>1 DEF SessionRecord
  <2> QED BY <1>1, <1>8, <2>2 DEF Verify, ScreenBounds
<1>9. CASE PlanTarget
  BY <1>1, <1>9 DEF PlanTarget, ScreenBounds, SessionRecord, DesktopRecord
<1>10. CASE RefreshFails
  BY <1>2, <1>10 DEF RefreshFails, BackendError
<1>11. CASE (Pause \/ Unpause \/ CloseSession) /\ UNCHANGED <<desktop, action>>
  BY <1>0, <1>3, <1>11 DEF Pause, Unpause, CloseSession
<1>12. CASE EffectShows /\ UNCHANGED <<session, desktop>>
  BY <1>2, <1>12
<1>13. CASE DesktopChanges /\ UNCHANGED session
  BY <1>1, <1>13 DEF DesktopChanges, ScreenBounds, DesktopRecord
<1>14. CASE UNCHANGED controlVars
  BY <1>2, <1>14 DEF controlVars
<1> QED BY <1>4, <1>5, <1>6, <1>7, <1>8, <1>9, <1>10, <1>11, <1>12, <1>13, <1>14 DEF ControlNext

LEMMA ScreenBoundsBegin == ControlInit => ScreenBounds
  BY DEF ControlInit, ScreenBounds, SessionRecord, DesktopRecord, SessionStatuses, Layouts, Apps

LEMMA ControlTypes == ControlInv /\ ScreenBounds => ControlTypeOK
  BY DEF ControlInv, ScreenBounds, ActionRecord, SessionRecord, DesktopRecord, ControlTypeOK

-----------------------------------------------------------------------------
(* Types of the worktree root, and of the parts together.                  *)

\* What a mission found to be leftovers it holds until it has removed them.
HeldBriefly == \A m \in RootMissions : tenant[m].found # {} => tenant[m].step \in {"sweep", "dead"}

LEMMA HeldBrieflyStep == RootInv /\ HeldBriefly /\ [RootNext]_rootVars => HeldBriefly'
<1> SUFFICES ASSUME RootInv, HeldBriefly, [RootNext]_rootVars  PROVE HeldBriefly'
  OBVIOUS
<1>1. tenant \in [RootMissions -> TenantRecord]
  BY DEF RootInv
<1>2. ASSUME NEW m \in RootMissions, NEW q, tenant' = [tenant EXCEPT ![m] = q],
             q.found # {} => q.step \in {"sweep", "dead"}
      PROVE  HeldBriefly'
  BY <1>1, <1>2 DEF HeldBriefly
<1>3. ASSUME NEW m \in RootMissions, NEW s \in TenantPlaces, StepTo(m, s),
             s = "dead" \/ tenant[m].step \notin {"sweep", "dead"}
      PROVE  HeldBriefly'
  <2> DEFINE q == [tenant[m] EXCEPT !.step = s]
  <2>1. q.step = s /\ q.found = tenant[m].found /\ tenant' = [tenant EXCEPT ![m] = q]
    BY <1>1, <1>3, TenantSteps DEF StepTo
  <2> HIDE DEF q
  <2>2. q.found # {} => q.step \in {"sweep", "dead"}
    BY <1>3, <2>1 DEF HeldBriefly
  <2> QED BY <1>2, <2>1, <2>2
<1>4. {"refused", "work", "adding", "done", "dead"} \subseteq TenantPlaces
  BY DEF TenantPlaces
<1>5. ASSUME NEW m \in RootMissions, Survey(m)  PROVE HeldBriefly'
  <2>1. CASE tenant' = [tenant EXCEPT ![m] = [step |-> "sweep", found |-> Leftovers]]
    BY <1>2, <2>1
  <2> QED BY <1>3, <1>4, <1>5, <2>1 DEF Survey
<1>6. ASSUME NEW m \in RootMissions, Sweep(m)  PROVE HeldBriefly'
  BY <1>2, <1>6 DEF Sweep
<1>7. ASSUME NEW m \in RootMissions, AddTree(m) \/ LeaveTree(m) \/ DieInTree(m)  PROVE HeldBriefly'
  BY <1>3, <1>4, <1>7 DEF AddTree, LeaveTree, DieInTree
<1>8. CASE UNCHANGED tenant
  BY <1>8 DEF HeldBriefly
<1> QED BY <1>5, <1>6, <1>7, <1>8 DEF RootNext, LoseRepository, rootVars

LEMMA HeldBrieflyBegins == RootInit => HeldBriefly
  BY DEF RootInit, HeldBriefly

LEMMA RootTypes == RootInv /\ HeldBriefly => RootTypeOK
  BY DEF RootInv, HeldBriefly, TenantRecord, TenantPlaces, DirStates, RootTypeOK

ChangeBounds == EditBounds /\ WorkerBounds /\ ImproveBounds /\ ScreenBounds /\ HeldBriefly
ChangeTypes == /\ LauncherTypeOK /\ RootTypeOK /\ EditTypeOK
               /\ WorkerTypeOK /\ ImproveTypeOK /\ ControlTypeOK

LEMMA ChangeTypesKeep == Spec => []ChangeTypes
<1>1. Init => ChangeBounds
  BY EditBoundsBegin, WorkerBoundsBegin, ImproveBoundsBegin, ScreenBoundsBegin, HeldBrieflyBegins
     DEF Init, ChangeBounds
<1>2. ChangeInv /\ ChangeBounds /\ [Next]_vars => ChangeBounds'
  BY ChangeSteps, EditBoundsStep, WorkerBoundsStep, ImproveBoundsStep, ScreenBoundsStep, HeldBrieflyStep
     DEF ChangeInv, ChangeBounds
<1>3. ChangeInv /\ ChangeBounds => ChangeTypes
  BY LauncherSound, RootTypes, EditTypes, WorkerTypes, ImproveTypes, ControlTypes
     DEF ChangeInv, ChangeBounds, ChangeTypes
<1> QED BY <1>1, <1>2, <1>3, ChangesKeep, PTL DEF Spec
=============================================================================
