------------------------------ MODULE Startup -------------------------------
(***************************************************************************)
(* How a user's mini-tmux finds or starts the daemon: client_connect,      *)
(* client_get_lock (src/client.c) and server_start (src/server.c), by      *)
(* several processes at once.                                              *)
(*                                                                         *)
(* A process that cannot connect locks default.lock, unlinks the socket,   *)
(* binds and listens, forks the daemon and connects to it.  The daemon     *)
(* inherits the lock and is never told to drop it, so the lock is held     *)
(* until both the process and its daemon have ended.                       *)
(*                                                                         *)
(* Abstracted: a daemon and a socket are named after the process that      *)
(* made them (one process makes at most one); what connected processes do  *)
(* (module Server).  flock fails only because the lock is taken.           *)
(***************************************************************************)
EXTENDS Integers

CONSTANTS
  Proc,      \* processes of the user's terminals, each run once
  None,      \* no process
  MaxFaults  \* bound: system calls that fail, processes and daemons that die

ASSUME ProcAssumption == None \notin Proc
ASSUME FaultAssumption == MaxFaults \in Nat

VARIABLES
  pc,         \* where each process is in client_connect
  path,       \* whose socket the socket file is
  lock,       \* whose open lock file has the flock
  daemon,     \* "none", "running" or "ended": the daemon each process forked
  server_fd,  \* whose socket each process is connected to
  faults      \* how many calls have failed, how many have died

vars == <<pc, path, lock, daemon, server_fd, faults>>

-----------------------------------------------------------------------------
Settled == {"connected", "left", "failed", "dead"}
Gone == {"left", "failed", "dead"}
Location ==
  {"start", "lock", "wait", "drop", "unlink", "bind", "listen", "fork", "reconnect"}
    \cup Settled

(* A socket accepts connections from listen() on, while somebody has it    *)
(* open: first the process, then the daemon it forked.                     *)
Listening(s) == s # None /\ (pc[s] = "fork" \/ daemon[s] = "running")

(* The lock goes when the last process that has it open is gone.           *)
CloseInDaemon(p) == IF lock = p THEN None ELSE lock   \* variant: O_CLOEXEC on fork
LockAfter(p) == IF lock = p /\ daemon[p] # "running" THEN None ELSE lock

Goto(p, l) == pc' = [pc EXCEPT ![p] = l]

Init ==
  /\ pc = [p \in Proc |-> "start"]
  /\ path = None /\ lock = None
  /\ daemon = [p \in Proc |-> "none"]
  /\ server_fd = [p \in Proc |-> None]
  /\ faults = 0

(* client_connect: the first connect().                                    *)
Connect(p) ==
  /\ pc[p] = "start"
  /\ \/ Listening(path) /\ Goto(p, "connected") /\ server_fd' = [server_fd EXCEPT ![p] = path]
     \/ ~Listening(path) /\ Goto(p, "lock") /\ UNCHANGED server_fd
  /\ UNCHANGED <<path, lock, daemon, faults>>

(* client_get_lock: LOCK_NB, and if it is taken a blocking flock.          *)
IgnoreLock(p) ==                 \* variant: the result of flock is not used
  /\ pc[p] = "lock"
  /\ lock' = IF lock = None THEN p ELSE lock
  /\ Goto(p, "unlink")
  /\ UNCHANGED <<path, daemon, server_fd, faults>>
GetLock(p) ==
  /\ pc[p] = "lock"
  /\ \/ lock = None /\ lock' = p /\ Goto(p, "unlink")
     \/ lock # None /\ Goto(p, "wait") /\ UNCHANGED lock
  /\ UNCHANGED <<path, daemon, server_fd, faults>>

(* ... which, once granted, is closed again: -2 is returned.               *)
LockGranted(p) ==
  /\ pc[p] = "wait" /\ lock = None
  /\ lock' = p /\ Goto(p, "drop")
  /\ UNCHANGED <<path, daemon, server_fd, faults>>
DropLock(p) ==
  /\ pc[p] = "drop"
  /\ lock' = None /\ Goto(p, "bind")
  /\ UNCHANGED <<path, daemon, server_fd, faults>>

UnlinkNothing(p) ==              \* variant: the stale socket is left
  /\ pc[p] = "unlink" /\ Goto(p, "bind")
  /\ UNCHANGED <<path, lock, daemon, server_fd, faults>>
Unlink(p) ==
  /\ pc[p] = "unlink" /\ Goto(p, "bind")
  /\ path' = None
  /\ UNCHANGED <<lock, daemon, server_fd, faults>>

(* server_start: bind fails if the file exists.                            *)
Bind(p) ==
  /\ pc[p] = "bind"
  /\ \/ path = None /\ path' = p /\ Goto(p, "listen") /\ UNCHANGED lock
     \/ path # None /\ Goto(p, "failed") /\ lock' = LockAfter(p) /\ UNCHANGED path
  /\ UNCHANGED <<daemon, server_fd, faults>>

Listen(p) ==
  /\ pc[p] = "listen" /\ Goto(p, "fork")
  /\ UNCHANGED <<path, lock, daemon, server_fd, faults>>

(* Both forks, waitpid for the first child, close of the listening socket. *)
Fork(p) ==
  /\ pc[p] = "fork" /\ Goto(p, "reconnect")
  /\ daemon' = [daemon EXCEPT ![p] = "running"]
  /\ UNCHANGED <<path, lock, server_fd, faults>>

RetryConnect(p) ==               \* variant: until it succeeds
  /\ pc[p] = "reconnect" /\ Listening(path)
  /\ Goto(p, "connected") /\ server_fd' = [server_fd EXCEPT ![p] = path]
  /\ UNCHANGED <<path, lock, daemon, faults>>
TrustConnect(p) ==               \* variant: the result of connect is not used
  /\ pc[p] = "reconnect"
  /\ Goto(p, "connected") /\ server_fd' = [server_fd EXCEPT ![p] = path]
  /\ UNCHANGED <<path, lock, daemon, faults>>
Reconnect(p) ==
  /\ pc[p] = "reconnect"
  /\ \/ Listening(path) /\ Goto(p, "connected") /\ UNCHANGED lock
        /\ server_fd' = [server_fd EXCEPT ![p] = path]
     \/ ~Listening(path) /\ Goto(p, "failed") /\ lock' = LockAfter(p) /\ UNCHANGED server_fd
  /\ UNCHANGED <<path, daemon, faults>>

(* client_main returns.                                                    *)
Leave(p) ==
  /\ pc[p] = "connected" /\ Goto(p, "left")
  /\ lock' = LockAfter(p)
  /\ UNCHANGED <<path, daemon, server_fd, faults>>

(* A process is killed while it starts; a daemon is killed or crashes.     *)
Die(p) ==
  /\ faults < MaxFaults
  /\ pc[p] \notin Settled /\ Goto(p, "dead")
  /\ lock' = LockAfter(p) /\ faults' = faults + 1
  /\ UNCHANGED <<path, daemon, server_fd>>
DaemonEnds(p) ==
  /\ faults < MaxFaults
  /\ daemon[p] = "running" /\ daemon' = [daemon EXCEPT ![p] = "ended"]
  /\ lock' = (IF lock = p /\ pc[p] \in Gone THEN None ELSE lock)
  /\ faults' = faults + 1
  /\ UNCHANGED <<pc, path, server_fd>>

(* A system call fails: socket, unlink, bind, listen, the first fork end   *)
(* the process, and leave the socket file as it is.  Without the lock file *)
(* the process goes on without the lock.  When setsid or the second fork   *)
(* fails there is no daemon, which only the connect will find.             *)
Fails(p) ==
  /\ faults < MaxFaults /\ faults' = faults + 1
  /\ \/ pc[p] \in {"start", "unlink", "bind", "listen", "fork", "reconnect"}
        /\ Goto(p, "failed") /\ lock' = LockAfter(p)
     \/ pc[p] = "lock" /\ Goto(p, "bind") /\ UNCHANGED lock
     \/ pc[p] = "fork" /\ Goto(p, "reconnect") /\ UNCHANGED lock
  /\ UNCHANGED <<path, daemon, server_fd>>

-----------------------------------------------------------------------------
(* What a process does of itself once it runs. *)
Proceed(p) ==
  \/ GetLock(p) \/ LockGranted(p) \/ DropLock(p) \/ Unlink(p)
  \/ Bind(p) \/ Listen(p) \/ Fork(p) \/ Reconnect(p)

Next == \E p \in Proc :
  Connect(p) \/ Proceed(p) \/ Leave(p) \/ Fails(p) \/ Die(p) \/ DaemonEnds(p)

Spec == Init /\ [][Next]_vars

(* A process that was started runs on; nobody has to start, leave or die.  *)
LiveSpec == Spec /\ \A p \in Proc : WF_vars(Proceed(p))

-----------------------------------------------------------------------------
(* Properties. *)

(* Types; and a process that goes on as connected has a connection.        *)
TypeOK ==
  /\ pc \in [Proc -> Location]
  /\ path \in Proc \cup {None} /\ lock \in Proc \cup {None}
  /\ daemon \in [Proc -> {"none", "running", "ended"}]
  /\ server_fd \in [Proc -> Proc \cup {None}]
  /\ faults \in 0 .. MaxFaults
  /\ \A p \in Proc : pc[p] = "connected" => server_fd[p] # None

(* The socket file of a daemon that was started under the lock is not      *)
(* taken away or replaced while the daemon runs, whatever other processes  *)
(* do, fail at or die of (client.c:73, 116; server.c:545).                 *)
LockedSocketStays == \A p \in Proc :
  lock = p /\ (pc[p] \in {"listen", "fork"} \/ daemon[p] = "running") => path = p

(* As long as nothing fails or dies there is one daemon, the socket file   *)
(* is its own, and every process that is connected is connected to it      *)
(* (client.c:87-130, server.c:653-666).                                    *)
OneDaemon == faults = 0 =>
  /\ \A p \in Proc : daemon[p] = "running" => path = p
  /\ \A p \in Proc : pc[p] = "connected" => Listening(server_fd[p])

(* Whatever was left behind - a stale socket file, of a daemon that        *)
(* crashed or of a start that failed half-way - a process that comes to it *)
(* alone neither waits nor fails, once nothing fails any more              *)
(* (client.c:116-122, server.c:545-572).                                   *)
Alone(p) == pc[p] = "start" /\ \A q \in Proc \ {p} : pc[q] \in Gone /\ daemon[q] # "running"
Recovers == \A p \in Proc :
  [](Alone(p) /\ faults = MaxFaults => []~(pc[p] \in {"wait", "failed"}))

(* A start ends, or waits for the lock of a daemon that runs or a process  *)
(* that is in use (client.c:73-82).                                        *)
InUse(q) == daemon[q] = "running" \/ pc[q] = "connected"
WaitsForUsersOnly == \A p \in Proc :
  pc[p] = "lock" ~> (pc[p] \in Settled \/ \E q \in Proc \ {p} : lock = q /\ InUse(q))

(* Whoever runs mini-tmux gets a session or an error (i18n.c:25).          *)
StartEnds == \A p \in Proc : pc[p] = "lock" ~> pc[p] \in Settled
=============================================================================
