--------------------------- MODULE StartupProofs ----------------------------
(***************************************************************************)
(* For any number of processes and faults: the lock protects the socket of *)
(* a daemon that was started under it; and while nothing fails or dies     *)
(* there is one daemon, which everybody is connected to.                   *)
(***************************************************************************)
EXTENDS Startup, TLAPS

-----------------------------------------------------------------------------
(* The inductive invariant. *)

(* Between taking the lock and using or dropping it a process has it. *)
LockTaken == \A p \in Proc : pc[p] \in {"unlink", "drop"} => lock = p

(* A process has no daemon before it forks. *)
NotForked == \A p \in Proc :
  pc[p] \in {"start", "lock", "wait", "drop", "unlink", "bind", "listen", "fork"}
    => daemon[p] = "none"

IInv == TypeOK /\ LockTaken /\ NotForked /\ LockedSocketStays

(* While nothing fails or dies, every process past the lock has it, it is  *)
(* never free again, and every step after it succeeds.                     *)
Starting == {"unlink", "bind", "listen", "fork", "reconnect"}
Quiet == faults = 0 =>
  /\ \A p \in Proc :
       /\ pc[p] \in Starting \/ daemon[p] = "running" => lock = p
       /\ pc[p] \notin {"drop", "failed", "dead"} /\ daemon[p] # "ended"
       /\ pc[p] = "reconnect" => daemon[p] = "running"
       /\ pc[p] = "bind" => path = None
       /\ pc[p] = "connected" => Listening(server_fd[p])
       /\ lock = None => pc[p] \in {"start", "lock"}
  /\ lock # None => pc[lock] \in Starting \/ daemon[lock] = "running"

-----------------------------------------------------------------------------
(* Every step of every process keeps the invariant. *)

LEMMA InitInv == Init => IInv /\ Quiet
BY ProcAssumption, FaultAssumption
   DEF Init, IInv, TypeOK, Location, Settled, LockTaken, NotForked, LockedSocketStays,
       Quiet, Starting, Listening

(* The types, action by action. *)
LEMMA TypeStep ==
  ASSUME TypeOK, NEW p \in Proc,
         Connect(p) \/ Proceed(p) \/ Leave(p) \/ Fails(p) \/ Die(p) \/ DaemonEnds(p)
  PROVE  TypeOK'
<1> USE ProcAssumption, FaultAssumption DEF TypeOK, Goto, Location, Settled, LockAfter, Listening
<1>1. CASE Connect(p)
  BY <1>1 DEF Connect
<1>2. CASE GetLock(p)
  BY <1>2 DEF GetLock
<1>3. CASE LockGranted(p)
  BY <1>3 DEF LockGranted
<1>4. CASE DropLock(p)
  BY <1>4 DEF DropLock
<1>5. CASE Unlink(p)
  BY <1>5 DEF Unlink
<1>6. CASE Bind(p)
  BY <1>6 DEF Bind
<1>7. CASE Listen(p)
  BY <1>7 DEF Listen
<1>8. CASE Fork(p)
  BY <1>8 DEF Fork
<1>9. CASE Reconnect(p)
  BY <1>9 DEF Reconnect
<1>10. CASE Leave(p)
  BY <1>10 DEF Leave
<1>11. CASE Die(p)
  BY <1>11 DEF Die
<1>12. CASE DaemonEnds(p)
  BY <1>12 DEF DaemonEnds
<1>13. CASE Fails(p)
  BY <1>13 DEF Fails
<1>14. QED
  BY <1>1, <1>2, <1>3, <1>4, <1>5, <1>6, <1>7, <1>8, <1>9, <1>10, <1>11, <1>12,
     <1>13 DEF Proceed

(* Who has the lock, who has a daemon, and whose the socket file is. *)
LEMMA LockStep ==
  ASSUME IInv, NEW p \in Proc,
         Connect(p) \/ Proceed(p) \/ Leave(p) \/ Fails(p) \/ Die(p) \/ DaemonEnds(p)
  PROVE  (LockTaken /\ NotForked /\ LockedSocketStays)'
<1> USE ProcAssumption
    DEF IInv, TypeOK, LockTaken, NotForked, LockedSocketStays, Goto, LockAfter
<1>1. CASE Connect(p)
  BY <1>1 DEF Connect
<1>2. CASE GetLock(p)
  BY <1>2 DEF GetLock
<1>3. CASE LockGranted(p)
  BY <1>3 DEF LockGranted
<1>4. CASE DropLock(p)
  BY <1>4 DEF DropLock
<1>5. CASE Unlink(p)
  BY <1>5 DEF Unlink
<1>6. CASE Bind(p)
  BY <1>6 DEF Bind
<1>7. CASE Listen(p)
  BY <1>7 DEF Listen
<1>8. CASE Fork(p)
  BY <1>8 DEF Fork
<1>9. CASE Reconnect(p)
  BY <1>9 DEF Reconnect
<1>10. CASE Leave(p)
  BY <1>10 DEF Leave
<1>11. CASE Die(p)
  BY <1>11 DEF Die, Settled
<1>12. CASE DaemonEnds(p)
  BY <1>12 DEF DaemonEnds
<1>13. CASE Fails(p)
  BY <1>13 DEF Fails
<1>14. QED
  BY <1>1, <1>2, <1>3, <1>4, <1>5, <1>6, <1>7, <1>8, <1>9, <1>10, <1>11, <1>12,
     <1>13 DEF Proceed

(* The invariant of the spec without conditions. *)
LEMMA Invariance == Spec => []IInv
<1>1. Init => IInv
  BY InitInv
<1>2. IInv /\ [Next]_vars => IInv'
  <2> SUFFICES ASSUME IInv, [Next]_vars PROVE IInv'
    OBVIOUS
  <2>1. CASE Next
    <3>1. PICK p \in Proc : Connect(p) \/ Proceed(p) \/ Leave(p) \/ Fails(p) \/ Die(p) \/ DaemonEnds(p)
      BY <2>1 DEF Next
    <3>2. QED BY <3>1, TypeStep, LockStep DEF IInv
  <2>2. CASE UNCHANGED vars
    BY <2>2 DEF vars, IInv, TypeOK, LockTaken, NotForked, LockedSocketStays
  <2>3. QED BY <2>1, <2>2
<1>3. QED BY <1>1, <1>2, PTL DEF Spec

(* Every variable keeps its type, and a connected process has a connection *)
(* (client.c:105, 122).                                                    *)
THEOREM TypeCorrect == Spec => []TypeOK
<1>1. IInv => TypeOK
  BY DEF IInv
<1>2. QED BY <1>1, Invariance, PTL

(* The socket of a daemon started under the lock is its own as long as it  *)
(* runs, for any number of processes and faults (client.c:73, 116).        *)
THEOREM SocketIsKept == Spec => []LockedSocketStays
<1>1. IInv => LockedSocketStays
  BY DEF IInv
<1>2. QED BY <1>1, Invariance, PTL

-----------------------------------------------------------------------------
(* Without faults. *)

LEMMA QuietStep ==
  ASSUME IInv, Quiet, NEW p \in Proc,
         Connect(p) \/ Proceed(p) \/ Leave(p) \/ Fails(p) \/ Die(p) \/ DaemonEnds(p)
  PROVE  Quiet'
<1>1. CASE Fails(p) \/ Die(p) \/ DaemonEnds(p)
  <2>1. faults' # 0
    BY <1>1 DEF Fails, Die, DaemonEnds, IInv, TypeOK
  <2>2. QED BY <2>1 DEF Quiet
<1>2. SUFFICES ASSUME faults = 0, Connect(p) \/ Proceed(p) \/ Leave(p) PROVE Quiet'
  <2>1. CASE Connect(p) \/ Proceed(p) \/ Leave(p)
    <3>1. faults' = faults
      BY <2>1 DEF Connect, Proceed, Leave, GetLock, LockGranted, DropLock, Unlink, Bind,
                  Listen, Fork, Reconnect
    <3>2. CASE faults # 0
      BY <3>1, <3>2 DEF Quiet
    <3>3. QED BY <1>2, <2>1, <3>2
  <2>2. QED BY <1>1, <2>1
<1> USE <1>2, ProcAssumption
    DEF IInv, TypeOK, LockTaken, NotForked, LockedSocketStays, Quiet, Starting, Goto, Listening
<1>3. CASE Connect(p)
  BY <1>3 DEF Connect
<1>4. CASE GetLock(p)
  BY <1>4 DEF GetLock
<1>5. CASE LockGranted(p) \/ DropLock(p)
  BY <1>5 DEF LockGranted, DropLock
<1>6. CASE Unlink(p)
  BY <1>6 DEF Unlink
<1>7. CASE Bind(p)
  BY <1>7 DEF Bind
<1>8. CASE Listen(p)
  BY <1>8 DEF Listen
<1>9. CASE Fork(p)
  BY <1>9 DEF Fork
<1>10. CASE Reconnect(p)
  BY <1>10 DEF Reconnect
<1>11. CASE Leave(p)
  BY <1>11 DEF Leave, LockAfter
<1>12. QED
  BY <1>3, <1>4, <1>5, <1>6, <1>7, <1>8, <1>9, <1>10, <1>11 DEF Proceed

(* As long as nothing fails or dies, however many processes start at once, *)
(* there is one daemon, reachable at the socket file, and everybody who is *)
(* connected is connected to it (client.c:87-130, server.c:653-666).       *)
THEOREM DaemonIsUnique == Spec => []OneDaemon
<1>1. Init => Quiet
  BY InitInv
<1>2. IInv /\ Quiet /\ [Next]_vars => Quiet'
  <2> SUFFICES ASSUME IInv, Quiet, [Next]_vars PROVE Quiet'
    OBVIOUS
  <2>1. CASE Next
    BY <2>1, QuietStep DEF Next
  <2>2. CASE UNCHANGED vars
    BY <2>2 DEF vars, Quiet, Listening
  <2>3. QED BY <2>1, <2>2
<1>3. IInv /\ Quiet => OneDaemon
  BY DEF IInv, Quiet, OneDaemon, LockedSocketStays
<1>4. QED BY <1>1, <1>2, <1>3, Invariance, PTL DEF Spec
=============================================================================
