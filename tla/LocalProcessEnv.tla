--------------------------- MODULE LocalProcessEnv ---------------------------
(* The browser environments of mode local_process: one env_server subprocess  *)
(* per generation, on a port leased by a lock file that all workers of the    *)
(* machine share, within the quota of its worker's slot pool.  A task is one  *)
(* generation, from create_local_process_env to the end of exit().  A worker  *)
(* is one Python process: its tasks interleave at awaits only, tasks of       *)
(* different workers between any two system calls.  A cancellation reaches    *)
(* a task at the await it is suspended in.                                    *)
EXTENDS Integers, FiniteSets

CONSTANTS Task,          \* generations
          Worker,        \* Python processes on the machine
          None,
          Home,          \* task |-> the worker whose event loop runs it
          NumPorts,      \* ports of the range port_start .. port_end
          MaxProcesses,  \* max_processes, the quota of one worker
          MaxCancels,    \* bound: task timeouts and cancellations by abort()
          MaxFaults      \* bound: failed spawns, requests and servers

ASSUME LocalAssumption ==
  /\ IsFiniteSet(Task) /\ None \notin Task
  /\ Home \in [Task -> Worker]
  /\ NumPorts \in Nat /\ MaxProcesses \in Nat \ {0}
  /\ MaxCancels \in Nat /\ MaxFaults \in Nat

Port  == 1 .. NumPorts
\* Every inode is named by a path or held open by a task, or is free again.
Inode == 1 .. NumPorts + Cardinality(Task)

VARIABLES
  pc,       \* where the task is
  loop,     \* worker |-> the task in a stretch without awaits, or None
  file,     \* port |-> the inode its lock path names, or 0
  fd,       \* task |-> the inode it holds open, or 0
  flock,    \* inode |-> the task that has its exclusive lock, or None
  port,     \* task |-> the port it tries or has leased; 0 before the first
  lease,    \* task |-> it has a LocalProcessPortLease that is not released
  sem,      \* worker |-> value of the pool's semaphore
  slot,     \* task |-> it has taken a slot it has not given back
  server,   \* task |-> its child: none | booting | up | dead
  signal,   \* task |-> the signal its process group was sent: no | term | kill
  peer,     \* task |-> the task whose server answers at its base_url
  hosts,    \* task |-> the task whose WebEnv lives in its server, or None
  shield,   \* task |-> exit() runs in the shielded task of _safe_exit_env
  overdue,  \* history: task |-> its child outlived the wait that follows SIGKILL
  cancels, faults

locks == <<file, fd, flock, port, lease>>
pool  == <<sem, slot>>
child == <<server, signal, peer, hosts>>
env   == <<cancels, faults>>
closing == <<shield, overdue>>
vars  == <<pc, loop, locks, pool, child, closing, env>>

Running(t)   == server[t] \in {"booting", "up"}
Bound(p)     == \E t \in Task : server[t] = "up" /\ port[t] = p
Exclusive(t) == lease[t] /\ \A u \in Task \ {t} : lease[u] => port[u] # port[t]

\* The event loop of t's worker resumes t, or goes on with t.
Scheduled(t) == loop[Home[t]] \in {None, t}
At(t, here)  == pc[t] = here /\ Scheduled(t)
Go(t, there) == pc' = [pc EXCEPT ![t] = there]
Keep(t)      == loop' = [loop EXCEPT ![Home[t]] = t]     \* goes on, no await
Await(t)     == loop' = [loop EXCEPT ![Home[t]] = None]
Fault        == faults < MaxFaults /\ faults' = faults + 1 /\ UNCHANGED cancels
Cancelled    == cancels < MaxCancels /\ cancels' = cancels + 1 /\ UNCHANGED faults
NoFault      == UNCHANGED env

-----------------------------------------------------------------------------
(* LocalProcessSlotPool.                                                      *)

\* acquire: the semaphore is awaited, for acquire_timeout_secs at most.
Start(t) ==
  /\ At(t, "start")
  /\ Go(t, "slotWait") /\ Await(t)
  /\ UNCHANGED <<locks, pool, child, closing, env>>

\* The slot is there, and _acquire_port starts with the first port at once.
SlotTaken(t) ==
  /\ At(t, "slotWait")
  /\ sem[Home[t]] > 0
  /\ sem' = [sem EXCEPT ![Home[t]] = @ - 1]
  /\ slot' = [slot EXCEPT ![t] = TRUE]
  /\ port' = [port EXCEPT ![t] = 1]
  /\ Go(t, "open") /\ Keep(t)
  /\ UNCHANGED <<file, fd, flock, lease, child, closing, env>>

\* Mutant: the clean-up releases the slot whether or not it was acquired.
SlotTimeoutReleases(t) ==
  /\ At(t, "slotWait")
  /\ (sem[Home[t]] = 0 /\ NoFault) \/ Cancelled
  /\ sem' = [sem EXCEPT ![Home[t]] = @ + 1]
  /\ Go(t, "gone") /\ Await(t)
  /\ UNCHANGED <<locks, slot, child, closing>>

\* TimeoutError or cancellation: create_local_process_env raises, nothing was
\* acquired.
SlotTimeout(t) ==
  /\ At(t, "slotWait")
  /\ (sem[Home[t]] = 0 /\ NoFault) \/ Cancelled
  /\ Go(t, "gone") /\ Await(t)
  /\ UNCHANGED <<locks, pool, child, closing>>

\* release: the last thing a task does with its worker's pool.
GiveSlotBack(t) ==
  /\ sem' = [sem EXCEPT ![Home[t]] = @ + 1]
  /\ slot' = [slot EXCEPT ![t] = FALSE]
  /\ Go(t, "gone") /\ Await(t)

-----------------------------------------------------------------------------
(* _acquire_port: no await, but every system call races the other workers.    *)

\* Mutant: only the errors after the port search give the slot back.
RangeExhaustedKeepsSlot(t) ==
  /\ At(t, "open")
  /\ port[t] > NumPorts
  /\ Go(t, "gone") /\ Await(t)
  /\ UNCHANGED <<locks, pool, child, closing, env>>

\* No free port in the range: RuntimeError, and the slot is given back.
RangeExhausted(t) ==
  /\ At(t, "open")
  /\ port[t] > NumPorts
  /\ GiveSlotBack(t)
  /\ UNCHANGED <<locks, child, closing, env>>

\* os.open with O_CREAT: the inode the path names, or a new one.
OpenLockFile(t) ==
  /\ At(t, "open")
  /\ port[t] \in Port
  /\ LET p    == port[t]
         free == {i \in Inode : (\A q \in Port : file[q] # i) /\ (\A u \in Task : fd[u] # i)}
         i    == IF file[p] # 0 THEN file[p] ELSE CHOOSE j \in free : TRUE
     IN /\ file' = [file EXCEPT ![p] = i]
        /\ fd' = [fd EXCEPT ![t] = i]
  /\ Go(t, "flock") /\ Keep(t)
  /\ UNCHANGED <<flock, port, lease, pool, child, closing, env>>

NextPort(t) ==
  /\ fd' = [fd EXCEPT ![t] = 0]
  /\ port' = [port EXCEPT ![t] = @ + 1]
  /\ Go(t, "open") /\ Keep(t)
  /\ UNCHANGED <<file, lease, pool, child, closing, env>>

\* Mutant: LOCK_SH instead of LOCK_EX.
LockPortShared(t) ==
  /\ At(t, "flock")
  /\ flock' = [flock EXCEPT ![fd[t]] = t]
  /\ Go(t, "probe") /\ Keep(t)
  /\ UNCHANGED <<file, fd, port, lease, pool, child, closing, env>>

\* fcntl.flock(LOCK_EX | LOCK_NB).
LockPort(t) ==
  /\ At(t, "flock")
  /\ flock[fd[t]] = None
  /\ flock' = [flock EXCEPT ![fd[t]] = t]
  /\ Go(t, "probe") /\ Keep(t)
  /\ UNCHANGED <<file, fd, port, lease, pool, child, closing, env>>

\* BlockingIOError: the descriptor is closed, the next port is tried.
PortLocked(t) ==
  /\ At(t, "flock")
  /\ flock[fd[t]] # None
  /\ NextPort(t)
  /\ UNCHANGED flock

\* _is_port_free says no: unlock, close (the file stays), next port.
PortInUse(t) ==
  /\ At(t, "probe")
  /\ Bound(port[t])
  /\ flock' = [flock EXCEPT ![fd[t]] = None]
  /\ NextPort(t)

\* The port is leased and the child is spawned, in a session of its own.
SpawnServer(t) ==
  /\ At(t, "probe")
  /\ ~Bound(port[t])
  /\ lease' = [lease EXCEPT ![t] = TRUE]
  /\ server' = [server EXCEPT ![t] = "booting"]
  /\ Go(t, "health") /\ Await(t)
  /\ UNCHANGED <<file, fd, flock, port, pool, signal, peer, hosts, closing, env>>

\* The log file or the spawn fails: the cleanup finds no process.
SpawnFails(t) ==
  /\ At(t, "probe")
  /\ ~Bound(port[t])
  /\ Fault
  /\ lease' = [lease EXCEPT ![t] = TRUE]
  /\ Go(t, "unlock") /\ Keep(t)
  /\ UNCHANGED <<file, fd, flock, port, pool, child, closing>>

-----------------------------------------------------------------------------
(* From the health poll to the end of the generation.                         *)

\* GET /health is answered on the port: by the child, or by whoever is there.
HealthOk(t) ==
  /\ At(t, "health")
  /\ server[t] # "dead"
  /\ \E u \in Task : /\ server[u] = "up" /\ port[u] = port[t]
                     /\ peer' = [peer EXCEPT ![t] = u]
  /\ Go(t, "reset") /\ Await(t)
  /\ UNCHANGED <<locks, pool, server, signal, hosts, closing, env>>

\* Mutant: the clean-up of a failed start does not kill the child.
HealthFailsNoKill(t) ==
  /\ At(t, "health")
  /\ (server[t] = "dead" /\ NoFault) \/ Fault \/ Cancelled
  /\ Go(t, "unlock") /\ Keep(t)
  /\ UNCHANGED <<locks, pool, child, closing>>

\* The poll gives up (child exited, startup timeout, cancellation): a child
\* that still runs is killed and awaited, then lease and slot are released.
HealthFails(t) ==
  /\ At(t, "health")
  /\ (server[t] = "dead" /\ NoFault) \/ Fault \/ Cancelled
  /\ \/ /\ server[t] = "dead"
        /\ Go(t, "unlock") /\ Keep(t)
        /\ UNCHANGED signal
     \/ /\ Running(t)
        /\ signal' = [signal EXCEPT ![t] = "kill"]
        /\ Go(t, "reap") /\ Await(t)
  /\ UNCHANGED <<locks, pool, server, peer, hosts, closing>>

\* _terminate_process_group: nothing to do for a child that has exited.
Terminate(t) ==
  \/ /\ server[t] = "dead"
     /\ Go(t, "unlock") /\ Keep(t)
     /\ UNCHANGED signal
  \/ /\ Running(t)
     /\ signal' = [signal EXCEPT ![t] = "term"]
     /\ Go(t, "termWait") /\ Await(t)

\* initialize: the server at base_url makes its one WebEnv.
ResetOk(t) ==
  /\ At(t, "reset")
  /\ server[peer[t]] = "up" /\ hosts[peer[t]] = None
  /\ hosts' = [hosts EXCEPT ![peer[t]] = t]
  /\ Go(t, "run") /\ Await(t)
  /\ UNCHANGED <<locks, pool, server, signal, peer, closing, env>>

\* It has one already, is gone, fails, or the call is cancelled: exit() at
\* once, in the task itself, and without /exit since the environment is broken.
ResetFails(t) ==
  /\ At(t, "reset")
  /\ \/ (server[peer[t]] # "up" \/ hosts[peer[t]] # None) /\ NoFault
     \/ Fault \/ Cancelled
  /\ Terminate(t)
  /\ UNCHANGED <<locks, pool, server, peer, hosts, closing>>

\* step raises an Exception: exit() in the task itself.
StepFails(t) ==
  /\ At(t, "run")
  /\ \/ (server[peer[t]] # "up" \/ hosts[peer[t]] = None) /\ NoFault
     \/ Fault
  /\ Terminate(t)
  /\ UNCHANGED <<locks, pool, server, peer, hosts, closing>>

\* The trajectory ends, by itself, by an error elsewhere or by a cancellation
\* (no Exception, so step lets it pass): _safe_exit_env runs exit() in a task
\* that no cancellation reaches.
Finish(t) ==
  /\ At(t, "run")
  /\ shield' = [shield EXCEPT ![t] = TRUE]
  /\ \/ server[t] = "dead" /\ Go(t, "unlock") /\ Keep(t)
     \/ Running(t) /\ Go(t, "exitPost") /\ Await(t)
  /\ UNCHANGED <<overdue, locks, pool, child, env>>

\* POST /exit is answered or not; the process group is terminated in any case.
ExitPosted(t) ==
  /\ At(t, "exitPost")
  /\ \/ hosts' = [hosts EXCEPT ![peer[t]] = None]
     \/ UNCHANGED hosts
  /\ Terminate(t)
  /\ UNCHANGED <<locks, pool, server, peer, closing, env>>

\* Mutant: after SIGKILL nobody waits for the process to end.
TermTimeoutNoWait(t) ==
  /\ At(t, "termWait")
  /\ Running(t)
  /\ signal' = [signal EXCEPT ![t] = "kill"]
  /\ Go(t, "unlock") /\ Keep(t)
  /\ UNCHANGED <<locks, pool, server, peer, hosts, closing, env>>

\* kill_timeout_secs after SIGTERM: SIGKILL.
TermTimeout(t) ==
  /\ At(t, "termWait")
  /\ Running(t)
  /\ signal' = [signal EXCEPT ![t] = "kill"]
  /\ Go(t, "killWait") /\ Await(t)
  /\ UNCHANGED <<locks, pool, server, peer, hosts, closing, env>>

\* max(1.0, kill_timeout_secs) after SIGKILL: the time-out is suppressed, and
\* exit() goes on whether or not the child has ended.
KillTimeout(t) ==
  /\ At(t, "killWait")
  /\ Running(t)
  /\ overdue' = [overdue EXCEPT ![t] = TRUE]
  /\ Go(t, "unlock") /\ Keep(t)
  /\ UNCHANGED <<shield, locks, pool, child, env>>

\* proc.wait() returns.  The wait of a failed creation has no time-out.
Reaped(t) ==
  /\ pc[t] \in {"reap", "termWait", "killWait"} /\ Scheduled(t)
  /\ server[t] = "dead"
  /\ Go(t, "unlock") /\ Keep(t)
  /\ UNCHANGED <<locks, pool, child, closing, env>>

\* A cancellation during that wait skips the rest of the clean-up.
CleanupCancelled(t) ==
  /\ pc[t] \in {"reap", "termWait", "killWait"} /\ Scheduled(t)
  /\ ~shield[t]
  /\ Cancelled
  /\ Go(t, "gone") /\ Await(t)
  /\ UNCHANGED <<locks, pool, child, closing>>

\* LocalProcessPortLease.release: unlock and close, ...
Unlock(t) ==
  /\ At(t, "unlock")
  /\ lease' = [lease EXCEPT ![t] = FALSE]
  /\ flock' = [flock EXCEPT ![fd[t]] = None]
  /\ fd' = [fd EXCEPT ![t] = 0]
  /\ Go(t, "unlink") /\ Keep(t)
  /\ UNCHANGED <<file, port, pool, child, closing, env>>

\* ... then unlink whatever the path names now; the slot goes back.
Unlink(t) ==
  /\ At(t, "unlink")
  /\ file' = [file EXCEPT ![port[t]] = 0]
  /\ GiveSlotBack(t)
  /\ UNCHANGED <<fd, flock, port, lease, child, closing, env>>

-----------------------------------------------------------------------------
(* The env_server subprocess.                                                 *)

Dead(t) == /\ server' = [server EXCEPT ![t] = "dead"]
           /\ hosts' = [hosts EXCEPT ![t] = None]
           /\ UNCHANGED <<pc, loop, locks, pool, signal, peer, closing>>

\* uvicorn binds its port, or exits because somebody else has it.  A process
\* that was sent SIGKILL runs no code of its own again, however long it lingers.
Bind(t) ==
  /\ server[t] = "booting" /\ signal[t] # "kill"
  /\ NoFault
  /\ \/ /\ ~Bound(port[t])
        /\ server' = [server EXCEPT ![t] = "up"]
        /\ UNCHANGED <<pc, loop, locks, pool, signal, peer, hosts, closing>>
     \/ Bound(port[t]) /\ Dead(t)

\* It ends after a signal, or for a reason of its own.
Die(t)   == Running(t) /\ signal[t] # "no" /\ NoFault /\ Dead(t)
Crash(t) == Running(t) /\ signal[t] = "no" /\ Fault /\ Dead(t)

Init ==
  /\ pc = [t \in Task |-> "start"]
  /\ loop = [w \in Worker |-> None]
  /\ file = [p \in Port |-> 0]
  /\ fd = [t \in Task |-> 0]
  /\ flock = [i \in Inode |-> None]
  /\ port = [t \in Task |-> 0]
  /\ lease = [t \in Task |-> FALSE]
  /\ sem = [w \in Worker |-> MaxProcesses]
  /\ slot = [t \in Task |-> FALSE]
  /\ server = [t \in Task |-> "none"]
  /\ signal = [t \in Task |-> "no"]
  /\ peer = [t \in Task |-> None]
  /\ hosts = [t \in Task |-> None]
  /\ shield = [t \in Task |-> FALSE] /\ overdue = shield
  /\ cancels = 0 /\ faults = 0

Create(t) == \/ Start(t) \/ SlotTaken(t) \/ SlotTimeout(t)
             \/ RangeExhausted(t) \/ OpenLockFile(t) \/ LockPort(t) \/ PortLocked(t)
             \/ PortInUse(t) \/ SpawnServer(t) \/ SpawnFails(t)
             \/ HealthOk(t) \/ HealthFails(t)
Use(t)    == ResetOk(t) \/ ResetFails(t) \/ StepFails(t) \/ Finish(t)
Exit(t)   == \/ ExitPosted(t) \/ TermTimeout(t) \/ KillTimeout(t) \/ Reaped(t) \/ CleanupCancelled(t)
             \/ Unlock(t) \/ Unlink(t)

\* Every generation has ended: the workers are idle until the next rollout.
Idle == (\A t \in Task : pc[t] = "gone") /\ UNCHANGED vars

Next == \/ \E t \in Task : Create(t) \/ Use(t) \/ Exit(t) \/ Bind(t) \/ Die(t) \/ Crash(t)
        \/ Idle
Spec == Init /\ [][Next]_vars

\* The event loops run what is ready, every request and wait has a timeout, a
\* server comes up or gives up, and SIGKILL is obeyed sooner or later.
Fairness == \A t \in Task : /\ WF_vars(Create(t) \/ Use(t) \/ Exit(t))
                            /\ WF_vars(Bind(t))
                            /\ WF_vars(signal[t] = "kill" /\ Die(t))
FairSpec == Spec /\ Fairness

-----------------------------------------------------------------------------
(* Properties.                                                                *)

\* Type invariant.
TypeOK ==
  /\ pc \in [Task -> {"start", "slotWait", "open", "flock", "probe", "health", "reset", "run", "exitPost",
                     "termWait", "killWait", "reap", "unlock", "unlink", "gone"}]
  /\ loop \in [Worker -> Task \cup {None}]
  /\ file \in [Port -> Inode \cup {0}] /\ fd \in [Task -> Inode \cup {0}]
  /\ flock \in [Inode -> Task \cup {None}]
  /\ port \in [Task -> 0 .. NumPorts + 1] /\ lease \in [Task -> BOOLEAN]
  /\ sem \in [Worker -> 0 .. MaxProcesses] /\ slot \in [Task -> BOOLEAN]
  /\ server \in [Task -> {"none", "booting", "up", "dead"}]
  /\ signal \in [Task -> {"no", "term", "kill"}]
  /\ peer \in [Task -> Task \cup {None}] /\ hosts \in [Task -> Task \cup {None}]
  /\ shield \in [Task -> BOOLEAN] /\ overdue \in [Task -> BOOLEAN]
  /\ cancels \in 0 .. MaxCancels /\ faults \in 0 .. MaxFaults

\* The quota of a worker: never more env_server processes than max_processes,
\* also while some of them are being terminated and new generations wait, and
\* when a clean-up is cancelled half way.  A process that outlives the wait after
\* SIGKILL is no longer counted: exit() has given its slot away.
Counted(w) == {t \in Task : Home[t] = w /\ Running(t) /\ ~overdue[t]}
Quota == \A w \in Worker : Cardinality(Counted(w)) <= MaxProcesses

\* No clean-up gives the port away under a server: as long as the child may
\* run, its lease is held and the lock of the lease is its own.  Only a child
\* that was sent SIGKILL, and not even then ended in time, loses them.
LeaseOutlivesServer ==
  \A t \in Task : Running(t) => \/ lease[t] /\ flock[fd[t]] = t
                                \/ overdue[t] /\ signal[t] = "kill"

\* "Exclusive lock file": two leases never have the same port.
LeaseExclusive == \A t \in Task : lease[t] => Exclusive(t)

\* "A fresh local env_server subprocess is created for each generation": what
\* answers at an environment's address is its own child, and the browser in
\* there, if any, is its own.
FreshServer ==
  \A t \in Task : pc[t] \in {"reset", "run", "exitPost"} => peer[t] = t /\ hosts[t] \in {None, t}

\* If nothing is cancelled the machine comes to rest with every slot back in
\* its pool, every lock released and every server dead, whatever fails.
AllReturned ==
  [](cancels = 0) => <>[](/\ \A t \in Task : pc[t] = "gone" /\ ~Running(t)
                          /\ \A w \in Worker : sem[w] = MaxProcesses
                          /\ \A i \in Inode : flock[i] = None)

-----------------------------------------------------------------------------
(* The inductive invariant behind Quota and LeaseOutlivesServer.              *)

Held(w) == {t \in Task : Home[t] = w /\ slot[t]}

Searching == {"open", "flock", "probe"}
Leasing   == {"health", "reset", "run", "exitPost", "termWait", "killWait", "reap", "unlock"}

\* What a task holds, by where it is.
Holds(t) ==
  /\ Running(t) => lease[t] \/ overdue[t]
  /\ overdue[t] => signal[t] = "kill" /\ pc[t] \in {"unlock", "unlink", "gone"}
  /\ lease[t] => slot[t] /\ fd[t] \in Inode /\ flock[fd[t]] = t /\ port[t] \in Port
  /\ pc[t] \in {"start", "slotWait"} => ~slot[t] /\ ~lease[t] /\ fd[t] = 0
  /\ pc[t] \in Searching => slot[t] /\ ~lease[t]
  /\ pc[t] = "open" => fd[t] = 0 /\ port[t] > 0
  /\ pc[t] \in {"flock", "probe"} => fd[t] \in Inode /\ port[t] \in Port
  /\ pc[t] = "probe" => flock[fd[t]] = t
  /\ pc[t] \in Leasing => slot[t] /\ lease[t]
  /\ pc[t] = "killWait" => signal[t] = "kill"
  /\ pc[t] \in {"unlock", "unlink"} => ~Running(t) \/ overdue[t]
  /\ pc[t] = "unlink" => slot[t] /\ ~lease[t] /\ port[t] \in Port

\* The semaphore and the slots taken add up to the quota, and every task holds
\* what its place in the code says: the slot outlives the lease, the lease the
\* process unless it is overdue, and the lock is held by nobody else meanwhile.
LocalInv == /\ TypeOK
            /\ \A t \in Task : Holds(t)
            /\ \A w \in Worker : sem[w] + Cardinality(Held(w)) = MaxProcesses
=============================================================================
