---------------------------- MODULE ServerProofs ----------------------------
(***************************************************************************)
(* Theorems about Server, for every number of clients, shells, slots,      *)
(* panes and descriptors.                                                  *)
(***************************************************************************)
EXTENDS Server, SequenceTheorems, FiniteSetTheorems, TLAPS

-----------------------------------------------------------------------------
(* Helpers keep their types. *)

LEMMA UpdateType ==
  ASSUME NEW S, NEW sl \in Seq(S), NEW k \in 1 .. Len(sl), NEW s \in S
  PROVE  /\ [sl EXCEPT ![k] = s] \in Seq(S)
         /\ Len([sl EXCEPT ![k] = s]) = Len(sl)
         /\ \A j \in 1 .. Len(sl) :
              [sl EXCEPT ![k] = s][j] = IF j = k THEN s ELSE sl[j]
  OBVIOUS

LEMMA ExceptType ==      \* j may be no index of sl
  ASSUME NEW S, NEW sl \in Seq(S), NEW j, NEW s \in S
  PROVE  [sl EXCEPT ![j] = s] \in Seq(S)
<1>1. CASE j \in 1 .. Len(sl)
  BY <1>1, UpdateType
<1>2. CASE j \notin 1 .. Len(sl)
  <2>1. DOMAIN sl = 1 .. Len(sl) /\ sl = [x \in DOMAIN sl |-> sl[x]]
    OBVIOUS
  <2>2. [sl EXCEPT ![j] = s] = sl
    BY <1>2, <2>1, Zenon
  <2>3. QED
    BY <2>2
<1>3. QED
  BY <1>1, <1>2

LEMMA AssociateType ==
  ASSUME NEW sl \in Seq(Session), NEW f \in FdOrNone
  PROVE  Associate(sl, f) \in Seq(Session)
<1>1. CASE WithClientFd(sl, f) # {}
  BY <1>1 DEF Associate
<1>2. CASE WithClientFd(sl, f) = {}
  <2>1. NextId(sl) \in Nat
    <3>1. CASE sl = <<>>
      BY <3>1 DEF NextId
    <3>2. CASE sl # <<>>
      <4>1. Len(sl) \in 1 .. Len(sl)
        BY <3>2, EmptySeq
      <4>2. sl[Len(sl)] \in Session
        BY <4>1, ElementOfSeq
      <4>3. sl[Len(sl)].id \in Nat
        BY <4>2 DEF Session
      <4>4. QED
        BY <3>2, <4>3 DEF NextId
    <3>3. QED
      BY <3>1, <3>2
  <2>2. [k \in Pane |-> None] \in [Pane -> OpenFile \cup {None}]
    OBVIOUS
  <2>3. NewSession(NextId(sl), f) \in Session
    BY <2>1, <2>2 DEF NewSession, Session
  <2>4. QED
    BY <1>2, <2>3 DEF Associate
<1>3. QED
  BY <1>1, <1>2

LEMMA ListDelType ==
  ASSUME NEW S, NEW sl \in Seq(S), NEW k \in 1 .. Len(sl)
  PROVE  /\ ListDel(sl, k) \in Seq(S)
         /\ Len(ListDel(sl, k)) = Len(sl) - 1
         /\ \A j \in 1 .. (Len(sl) - 1) :
              ListDel(sl, k)[j] = IF j < k THEN sl[j] ELSE sl[j + 1]
<1>1. \A j \in 1 .. (Len(sl) - 1) : (IF j < k THEN sl[j] ELSE sl[j + 1]) \in S
  OBVIOUS
<1>2. ListDel(sl, k) \in [1 .. (Len(sl) - 1) -> S]
  BY <1>1 DEF ListDel
<1>3. Len(sl) - 1 \in Nat
  OBVIOUS
<1>4. QED
  BY <1>2, <1>3 DEF ListDel

LEMMA WithoutPaneType ==
  ASSUME NEW s \in Session, NEW j
  PROVE  /\ WithoutPane(s, j) \in Session
         /\ Ended(WithoutPane(s, j)) \in Session
<1>1. s.master_fds \in Seq(FdOrNone) /\ s.pane_pids \in Seq(Pid \cup {None})
  BY DEF Session
<1>2. [s.master_fds EXCEPT ![j] = NoFd] \in Seq(FdOrNone)
  BY <1>1, ExceptType DEF FdOrNone
<1>3. [s.pane_pids EXCEPT ![j] = None] \in Seq(Pid \cup {None})
  BY <1>1, ExceptType
<1>4. WithoutPane(s, j) \in Session
  BY <1>2, <1>3 DEF WithoutPane, Session
<1>5. QED
  BY <1>4 DEF Ended, Session, FdOrNone

LEMMA WithPaneType ==
  ASSUME NEW s \in Session, NEW g \in Fd, NEW p \in Pid
  PROVE  [s EXCEPT !.master_fds = Append(@, g), !.pane_pids = Append(@, p)] \in Session
<1>1. Append(s.master_fds, g) \in Seq(FdOrNone)
  BY DEF Session, FdOrNone
<1>2. Append(s.pane_pids, p) \in Seq(Pid \cup {None})
  BY DEF Session
<1>3. QED
  BY <1>1, <1>2 DEF Session

LEMMA FiniteIndexes ==
  ASSUME NEW n \in Nat, NEW T \in SUBSET (1 .. n)
  PROVE  Cardinality(T) \in Nat
<1>1. IsFiniteSet(1 .. n)
  BY FS_Interval
<1>2. IsFiniteSet(T)
  BY <1>1, FS_Subset
<1>3. QED
  BY <1>2, FS_CardinalityType

LEMMA CloseType ==
  ASSUME NEW fs, NEW tab \in [Fd -> OpenFile \cup {None}]
  PROVE  Close(fs, tab) \in [Fd -> OpenFile \cup {None}]
  BY DEF Close

LEMMA DiscardType ==
  ASSUME NEW fs, NEW q \in [Client -> Seq(Msg)]
  PROVE  Discard(fs, q) \in [Client -> Seq(Msg)]
  BY DEF Discard

LEMMA ClearSlotType ==
  ASSUME NEW f, client_fds \in [Slot -> FdOrNone]
  PROVE  ClearSlot(f) \in [Slot -> FdOrNone]
  BY DEF ClearSlot, FdOrNone

-----------------------------------------------------------------------------
(* Type correctness. *)

LEMMA MessageType ==
  /\ \A type \in MsgType, arg \in Int : Message(type, arg) \in Msg
  /\ \A k \in Int, screen \in OpenFile \cup {None} : GridSave(k, screen) \in Msg
  BY DEF Message, GridSave, Msg, MsgType

LEMMA GoneType == Gone \in ClientState
  BY EmptySeq DEF Gone, ClientState

LEMMA StopType ==
  ASSUME Stop
  PROVE  /\ pc' = "down" /\ rset' = {} /\ cursor' = 1
         /\ client_fds' \in [Slot -> FdOrNone]
         /\ session_list' = <<>> /\ backlog' = <<>>
         /\ sigchld_pending' \in BOOLEAN
         /\ file' \in [Fd -> OpenFile \cup {None}]
         /\ inbox' \in [Client -> Seq(Msg)]
  BY EmptySeq DEF Stop, FdOrNone

LEMMA TurnType ==
  ASSUME TypeOK, NEW i \in Slot, Turn(i)
  PROVE  /\ client_fds[i] \in Fd
         /\ i + 1 \in 1 .. (MaxClients + 1)
  BY LimitsAssumption DEF TypeOK, Turn, First, Pending, Slot

LEMMA ReceivedType ==
  ASSUME TypeOK, NEW i \in Slot, NEW type, Received(i, type)
  PROVE  /\ client_fds[i] \in Fd
         /\ i + 1 \in 1 .. (MaxClients + 1)
         /\ Sender(i) \in Client
         /\ Head(inbox[Sender(i)]) \in Msg
         /\ Argument(i) \in Int
         /\ Tail(inbox[Sender(i)]) \in Seq(Msg)
         /\ Associated(i) \in Seq(Session)
<1>1. client_fds[i] \in Fd /\ i + 1 \in 1 .. (MaxClients + 1)
  BY TurnType DEF Received
<1>2. Sender(i) \in Client /\ inbox[Sender(i)] # <<>>
  BY DEF Received
<1>3. inbox[Sender(i)] \in Seq(Msg)
  BY <1>2 DEF TypeOK
<1>4. Head(inbox[Sender(i)]) \in Msg /\ Tail(inbox[Sender(i)]) \in Seq(Msg)
  BY <1>2, <1>3, HeadTailProperties
<1>5. Argument(i) \in Int
  BY <1>4 DEF Argument, Msg
<1>6. Associated(i) \in Seq(Session)
  BY <1>1, AssociateType DEF Associated, TypeOK, FdOrNone
<1>7. QED
  BY <1>1, <1>2, <1>4, <1>5, <1>6

LEMMA NextSlotType ==
  ASSUME TypeOK, NEW i \in Slot, NEW type, Received(i, type), NextSlot(i)
  PROVE  /\ pc' = pc /\ rset' = rset /\ client_fds' = client_fds
         /\ sigchld_pending' = sigchld_pending /\ backlog' = backlog
         /\ cursor' \in 1 .. (MaxClients + 1)
         /\ inbox' \in [Client -> Seq(Msg)]
  BY ReceivedType DEF NextSlot, TypeOK

LEMMA HangUpType ==
  ASSUME TypeOK, NEW i \in Slot, NEW fs, Turn(i), HangUp(i, fs)
  PROVE  /\ pc' = pc /\ rset' = rset
         /\ sigchld_pending' = sigchld_pending /\ backlog' = backlog
         /\ cursor' \in 1 .. (MaxClients + 1)
         /\ client_fds' \in [Slot -> FdOrNone]
         /\ file' \in [Fd -> OpenFile \cup {None}]
         /\ inbox' \in [Client -> Seq(Msg)]
<1>1. file' \in [Fd -> OpenFile \cup {None}]
  BY CloseType DEF HangUp, TypeOK
<1>2. inbox' \in [Client -> Seq(Msg)]
  BY DiscardType DEF HangUp, TypeOK
<1>3. cursor' \in 1 .. (MaxClients + 1)
  BY TurnType DEF HangUp
<1>4. client_fds' \in [Slot -> FdOrNone]
  BY DEF HangUp, TypeOK, FdOrNone
<1>5. QED
  BY <1>1, <1>2, <1>3, <1>4 DEF HangUp

(* The daemon's steps around server_receive. *)
LEMMA LoopType ==
  ASSUME TypeOK, AcceptHasConnection,
         \/ EnterSelect \/ SelectFails \/ SelectReturns \/ Accept \/ AcceptFails
         \/ ReceiveDone \/ Sweep \/ SweepDone
         \/ \E p \in Pid : Reap(p)
         \/ ReapDone \/ Clean \/ CleanDone
  PROVE  TypeOK'
<1>1. CASE EnterSelect
  BY <1>1 DEF TypeOK, EnterSelect
<1>2. CASE SelectFails
  BY <1>2, StopType, EmptySeq, LimitsAssumption DEF TypeOK, SelectFails
<1>3. CASE SelectReturns
  <2>1. Watched \subseteq Fd
    BY DEF Watched, TypeOK, FdOrNone
  <2>2. rset' \in SUBSET Fd
    BY <1>3, <2>1 DEF SelectReturns
  <2>3. QED
    BY <1>3, <2>2 DEF TypeOK, SelectReturns
<1>4. CASE Accept
  <2>1. Head(backlog) \in Client /\ Tail(backlog) \in Seq(Client)
    BY <1>4, HeadTailProperties DEF Accept, AcceptHasConnection, TypeOK
  <2>2. file' \in [Fd -> OpenFile \cup {None}]
    BY <1>4, <2>1 DEF Accept, TypeOK, OpenFile
  <2>3. client_fds' \in [Slot -> FdOrNone]
    BY <1>4 DEF Accept, TypeOK, FdOrNone
  <2>4. QED
    BY <1>4, <2>1, <2>2, <2>3 DEF TypeOK, Accept
<1>5. CASE AcceptFails
  BY <1>5 DEF TypeOK, AcceptFails
<1>6. CASE ReceiveDone
  BY <1>6, LimitsAssumption DEF TypeOK, ReceiveDone
<1>7. CASE Sweep
  <2>1. PICK k \in ToSweep :
          /\ client_fds' = ClearSlot(session_list[k].client_fd)
          /\ file' = Close({session_list[k].client_fd}, file)
          /\ inbox' = Discard({session_list[k].client_fd}, inbox)
          /\ session_list' = [session_list EXCEPT
               ![k] = [session_list[k] EXCEPT !.client_fd = NoFd]]
    BY <1>7 DEF Sweep
  <2>2. session_list[k] \in Session /\ k \in 1 .. Len(session_list)
    BY <2>1, ElementOfSeq DEF ToSweep, TypeOK
  <2>3. [session_list[k] EXCEPT !.client_fd = NoFd] \in Session
    BY <2>2 DEF Session, FdOrNone
  <2>4. session_list' \in Seq(Session)
    BY <2>1, <2>2, <2>3, UpdateType DEF TypeOK
  <2>5. /\ client_fds' \in [Slot -> FdOrNone]
        /\ file' \in [Fd -> OpenFile \cup {None}]
        /\ inbox' \in [Client -> Seq(Msg)]
    BY <2>1, ClearSlotType, CloseType, DiscardType DEF TypeOK
  <2>6. QED
    BY <1>7, <2>4, <2>5 DEF TypeOK, Sweep
<1>8. CASE SweepDone
  BY <1>8 DEF TypeOK, SweepDone
<1>9. ASSUME NEW p \in Pid, Reap(p)
      PROVE  TypeOK'
  <2>1. proc' \in [Pid -> {"none", "live", "doomed", "zombie", "reaped"}]
    BY <1>9 DEF Reap, TypeOK
  <2>2. CASE UNCHANGED <<client_fds, session_list, file, inbox>>
    BY <1>9, <2>1, <2>2 DEF TypeOK, Reap
  <2>3. ASSUME NEW k \in 1 .. Len(session_list), NEW j \in Pane, ReapPane(p, k, j)
        PROVE  TypeOK'
    <3> DEFINE s == session_list[k]
               last == Shells(WithoutPane(s, j)) = {}
               hung == IF last THEN s.client_fd ELSE NoFd
    <3>1. s \in Session
      BY <2>3, ElementOfSeq DEF TypeOK
    <3>2. WithoutPane(s, j) \in Session
      BY <3>1, WithoutPaneType
    <3>3. Ended(WithoutPane(s, j)) \in Session
      BY <3>1, WithoutPaneType
    <3>4. session_list' \in Seq(Session)
      BY <2>3, <3>2, <3>3, UpdateType DEF ReapPane, TypeOK
    <3>5. /\ client_fds' \in [Slot -> FdOrNone]
          /\ file' \in [Fd -> OpenFile \cup {None}]
          /\ inbox' \in [Client -> Seq(Msg)]
      BY <2>3, ClearSlotType, CloseType, DiscardType DEF ReapPane, TypeOK
    <3>6. QED
      BY <1>9, <2>1, <3>4, <3>5 DEF TypeOK, Reap
  <2>4. QED
    BY <1>9, <2>2, <2>3 DEF Reap
<1>10. CASE ReapDone
  BY <1>10 DEF TypeOK, ReapDone
<1>11. CASE Clean
  <2>1. session_list' \in Seq(Session)
    BY <1>11, ListDelType DEF Clean, ToClean, TypeOK
  <2>2. QED
    BY <1>11, <2>1 DEF TypeOK, Clean
<1>12. CASE CleanDone
  BY <1>12 DEF TypeOK, CleanDone
<1>13. QED
  BY <1>1, <1>2, <1>3, <1>4, <1>5, <1>6, <1>7, <1>8, <1>9, <1>10, <1>11, <1>12

(* server_receive. *)
LEMMA ReceiveType ==
  ASSUME TypeOK, NEW i \in Slot, Receive(i)
  PROVE  TypeOK'
<1>0. ASSUME Stop, proc' \in [Pid -> {"none", "live", "doomed", "zombie", "reaped"}],
             cl' = cl
      PROVE  TypeOK'
  BY <1>0, StopType, EmptySeq, LimitsAssumption DEF TypeOK
<1>1. CASE ReceiveFails(i)
  <2>1. HangUp(i, {}) /\ Turn(i) /\ UNCHANGED <<session_list, proc, cl>>
    BY <1>1 DEF ReceiveFails
  <2>2. QED
    BY <2>1, HangUpType DEF TypeOK
<1>2. CASE BrokenPipe(i)
  BY <1>0, <1>2 DEF BrokenPipe, TypeOK
<1>3. CASE ListSessions(i)
  <2>1. Received(i, "LIST") /\ HangUp(i, {}) /\ Turn(i) /\ Sender(i) \in Client
    BY <1>3 DEF ListSessions, Received
  <2>2. cl' \in [Client -> ClientState]
    BY <1>3, <2>1, GoneType DEF ListSessions, TypeOK
  <2>3. QED
    BY <1>3, <2>1, <2>2, HangUpType DEF TypeOK, ListSessions
<1>4. CASE KillSession(i)
  <2>1. Turn(i) /\ Sender(i) \in Client
    BY <1>4 DEF KillSession, Received
  <2>2. PICK k \in 1 .. Len(session_list) :
          LET s == session_list[k]
              answered == client_fds[i] \notin ClosedByKill(s) IN
          /\ KillTarget(i, k)
          /\ proc' = Doom(s)
          /\ \/ /\ answered /\ Dead(Sender(i))
                /\ Stop
                /\ UNCHANGED cl
             \/ /\ answered => ~Dead(Sender(i))
                /\ session_list' = ListDel(session_list, k)
                /\ cl' = IF answered THEN [cl EXCEPT ![Sender(i)] = Gone] ELSE cl
                /\ HangUp(i, ClosedByKill(s))
    BY <1>4 DEF KillSession
  <2>3. proc' \in [Pid -> {"none", "live", "doomed", "zombie", "reaped"}]
    BY <2>2 DEF Doom, TypeOK
  <2>4. CASE Stop /\ UNCHANGED cl
    BY <1>0, <2>3, <2>4
  <2>5. CASE /\ session_list' = ListDel(session_list, k)
             /\ cl' \in {[cl EXCEPT ![Sender(i)] = Gone], cl}
             /\ HangUp(i, ClosedByKill(session_list[k]))
    <3>1. session_list' \in Seq(Session)
      BY <2>5, ListDelType DEF TypeOK
    <3>2. cl' \in [Client -> ClientState]
      BY <2>1, <2>5, GoneType DEF TypeOK
    <3>3. QED
      BY <2>1, <2>3, <2>5, <3>1, <3>2, HangUpType DEF TypeOK
  <2>6. QED
    BY <2>2, <2>4, <2>5
<1>5. CASE KillUnknown(i)
  <2>1. Turn(i) /\ Sender(i) \in Client
    BY <1>5 DEF KillUnknown, Received
  <2>2. CASE Stop /\ UNCHANGED <<proc, cl>>
    BY <1>0, <2>2 DEF TypeOK
  <2>3. CASE /\ cl' = [cl EXCEPT ![Sender(i)] = Gone]
             /\ HangUp(i, {})
             /\ UNCHANGED <<session_list, proc>>
    <3>1. cl' \in [Client -> ClientState]
      BY <2>1, <2>3, GoneType DEF TypeOK
    <3>2. QED
      BY <2>1, <2>3, <3>1, HangUpType DEF TypeOK
  <2>4. QED
    BY <1>5, <2>2, <2>3 DEF KillUnknown
<1>6. CASE Resize(i)
  <2>1. Received(i, "RESIZE") /\ NextSlot(i)
    BY <1>6 DEF Resize
  <2>2. QED
    BY <1>6, <2>1, ReceivedType, NextSlotType DEF Resize, TypeOK
<1>7. CASE SpawnPane(i)
  <2>1. Received(i, "COMMAND") /\ NextSlot(i)
    BY <1>7 DEF SpawnPane
  <2>2. PICK k \in 1 .. Len(Associated(i)), p \in Pid, g \in Fd :
          /\ file' = [file EXCEPT ![g] = p]
          /\ proc' = [proc EXCEPT ![p] = "live"]
          /\ session_list' = [Associated(i) EXCEPT
               ![k].master_fds = Append(@, g), ![k].pane_pids = Append(@, p)]
          /\ cl' = [cl EXCEPT ![Sender(i)].st = "run",
                              ![Sender(i)].panes = Append(@, p)]
    BY <1>7 DEF SpawnPane
  <2>3. file' \in [Fd -> OpenFile \cup {None}]
    BY <2>2 DEF TypeOK, OpenFile
  <2>4. proc' \in [Pid -> {"none", "live", "doomed", "zombie", "reaped"}]
    BY <2>2 DEF TypeOK
  <2>5. session_list' \in Seq(Session)
    <3> DEFINE sl == Associated(i)
               s == [sl[k] EXCEPT !.master_fds = Append(@, g), !.pane_pids = Append(@, p)]
    <3>1. sl \in Seq(Session) /\ sl[k] \in Session
      BY <2>1, ReceivedType, ElementOfSeq
    <3>2. s \in Session
      BY <3>1, WithPaneType
    <3>3. session_list' = [sl EXCEPT ![k] = s]
      BY <2>2, <3>1 DEF Session
    <3>4. QED
      BY <3>1, <3>2, <3>3, UpdateType
  <2>6. cl' \in [Client -> ClientState]
    <3>1. Sender(i) \in Client
      BY <2>1, ReceivedType
    <3>2. cl[Sender(i)] \in ClientState
      BY <3>1 DEF TypeOK
    <3>3. Append(cl[Sender(i)].panes, p) \in Seq(OpenFile \cup {None})
      BY <3>2 DEF ClientState, OpenFile
    <3>4. [cl[Sender(i)] EXCEPT !.st = "run", !.panes = Append(@, p)] \in ClientState
      BY <3>2, <3>3 DEF ClientState
    <3>5. cl' = [cl EXCEPT ![Sender(i)] =
                   [cl[Sender(i)] EXCEPT !.st = "run", !.panes = Append(@, p)]]
      BY <2>2, <3>1, <3>2 DEF TypeOK, ClientState
    <3>6. QED
      BY <3>1, <3>4, <3>5 DEF TypeOK
  <2>7. QED
    BY <2>1, <2>3, <2>4, <2>5, <2>6, NextSlotType DEF TypeOK
<1>8. CASE SpawnRefused(i)
  <2>1. Received(i, "COMMAND") /\ NextSlot(i)
    BY <1>8 DEF SpawnRefused
  <2>2. QED
    BY <1>8, <2>1, ReceivedType, NextSlotType DEF SpawnRefused, TypeOK
<1>9. CASE SpawnFails(i)
  BY <1>0, <1>9 DEF SpawnFails, TypeOK
<1>10. CASE Exited(i)
  <2>1. Received(i, "EXITED") /\ Turn(i) /\ HangUp(i, {})
    BY <1>10 DEF Exited, Received
  <2>2. session_list' \in Seq(Session)
    BY <1>10, <2>1, ReceivedType DEF Exited
  <2>3. QED
    BY <1>10, <2>1, <2>2, HangUpType DEF Exited, TypeOK
<1>11. CASE Detach(i)
  <2>1. Received(i, "DETACH") /\ NextSlot(i)
    BY <1>11 DEF Detach
  <2>2. PICK k \in 1 .. Len(Associated(i)) :
          session_list' = [Associated(i) EXCEPT
            ![k] = [Associated(i)[k] EXCEPT !.detached = TRUE]]
    BY <1>11 DEF Detach
  <2>3. Associated(i) \in Seq(Session) /\ Associated(i)[k] \in Session
    BY <2>1, <2>2, ReceivedType, ElementOfSeq
  <2>4. [Associated(i)[k] EXCEPT !.detached = TRUE] \in Session
    BY <2>3 DEF Session
  <2>5. session_list' \in Seq(Session)
    BY <2>2, <2>3, <2>4, UpdateType
  <2>6. QED
    BY <1>11, <2>1, <2>5, NextSlotType DEF Detach, TypeOK
<1>12. CASE Attach(i)
  <2>1. Received(i, "ATTACH") /\ NextSlot(i)
    BY <1>12 DEF Attach
  <2>2. PICK k \in 1 .. Len(Associated(i)) : AttachGranted(i, k)
    BY <1>12 DEF Attach
  <2> DEFINE s == Associated(i)[k]
  <2>3. /\ Associated(i) \in Seq(Session) /\ s \in Session
        /\ client_fds[i] \in Fd /\ Sender(i) \in Client
    BY <2>1, <2>2, ReceivedType, ElementOfSeq
  <2>4. session_list' \in Seq(Session)
    <3> DEFINE grids == [n \in Pane |-> IF n <= PaneCount(s) THEN None ELSE s.grid_data[n]]
               t == [s EXCEPT !.client_fd = client_fds[i], !.detached = FALSE,
                              !.grid_data = grids]
    <3>1. grids \in [Pane -> OpenFile \cup {None}]
      BY <2>3 DEF Session
    <3>2. t \in Session
      BY <2>3, <3>1 DEF Session, FdOrNone
    <3>3. session_list' = [Associated(i) EXCEPT ![k] = t]
      BY <2>2, <2>3 DEF AttachGranted, Session
    <3>4. QED
      BY <2>3, <3>2, <3>3, UpdateType
  <2>5. cl' \in [Client -> ClientState]
    <3>1. PICK e \in [1 .. Cardinality(OpenPanes(s)) -> OpenPanes(s)] :
            cl' = [cl EXCEPT ![Sender(i)] =
                    IF OpenPanes(s) = {} THEN Gone
                    ELSE [st |-> "run", out |-> <<>>,
                          panes |-> [n \in DOMAIN e |-> file[s.master_fds[e[n]]]]]]
      BY <2>2 DEF AttachGranted
    <3>2. Cardinality(OpenPanes(s)) \in Nat
      <4>1. OpenPanes(s) \in SUBSET (1 .. Len(s.master_fds))
        BY DEF OpenPanes
      <4>2. Len(s.master_fds) \in Nat
        BY <2>3 DEF Session
      <4>3. QED
        BY <4>1, <4>2, FiniteIndexes
    <3>3. \A n \in DOMAIN e : file[s.master_fds[e[n]]] \in OpenFile \cup {None}
      BY <3>1 DEF OpenPanes, IsOpen, TypeOK
    <3>4. [n \in DOMAIN e |-> file[s.master_fds[e[n]]]] \in Seq(OpenFile \cup {None})
      <4> DEFINE q == [n \in DOMAIN e |-> file[s.master_fds[e[n]]]]
      <4>1. DOMAIN e = 1 .. Cardinality(OpenPanes(s))
        BY <3>1
      <4>2. q \in [1 .. Cardinality(OpenPanes(s)) -> OpenFile \cup {None}]
        BY <3>3, <4>1
      <4> HIDE DEF q
      <4>3. q \in Seq(OpenFile \cup {None})
        BY <3>2, <4>2, SeqDef
      <4>4. QED
        BY <4>3 DEF q
    <3>5. [st |-> "run", out |-> <<>>,
           panes |-> [n \in DOMAIN e |-> file[s.master_fds[e[n]]]]] \in ClientState
      BY <3>4, EmptySeq DEF ClientState
    <3>6. QED
      BY <2>3, <3>1, <3>5, GoneType DEF TypeOK
  <2>6. QED
    BY <1>12, <2>1, <2>4, <2>5, NextSlotType DEF Attach, TypeOK
<1>13. CASE AttachRefused(i)
  <2>1. Received(i, "ATTACH") /\ NextSlot(i)
    BY <1>13 DEF AttachRefused
  <2>2. cl' \in [Client -> ClientState]
    BY <1>13, <2>1, ReceivedType, GoneType DEF AttachRefused, TypeOK
  <2>3. QED
    BY <1>13, <2>1, <2>2, ReceivedType, NextSlotType DEF AttachRefused, TypeOK
<1>14. CASE SaveGrid(i)
  <2>1. Received(i, "GRID_SAVE") /\ NextSlot(i)
    BY <1>14 DEF SaveGrid
  <2>2. PICK k \in 1 .. Len(Associated(i)) :
          session_list' =
            IF Argument(i) \in Pane
            THEN [Associated(i) EXCEPT
                    ![k].grid_data[Argument(i)] = Head(inbox[Sender(i)]).screen]
            ELSE Associated(i)
    BY <1>14 DEF SaveGrid
  <2>3. Associated(i) \in Seq(Session) /\ Associated(i)[k] \in Session
    BY <2>1, <2>2, ReceivedType, ElementOfSeq
  <2>4. Head(inbox[Sender(i)]).screen \in OpenFile \cup {None}
    BY <2>1, ReceivedType DEF Msg
  <2>5. [Associated(i)[k] EXCEPT !.grid_data[Argument(i)] =
           Head(inbox[Sender(i)]).screen] \in Session
    BY <2>3, <2>4 DEF Session
  <2>6. session_list' \in Seq(Session)
    BY <2>2, <2>3, <2>5, UpdateType
  <2>7. QED
    BY <1>14, <2>1, <2>6, NextSlotType DEF SaveGrid, TypeOK
<1>15. QED
  BY <1>1, <1>2, <1>3, <1>4, <1>5, <1>6, <1>7, <1>8, <1>9, <1>10, <1>11,
     <1>12, <1>13, <1>14 DEF Receive

(* The clients and the shells. *)
LEMMA StartType ==
  ASSUME TypeOK, NEW c \in Client, NEW st \in {"spawn", "wait"}, NEW out \in Seq(Msg),
         Start(c, st, out)
  PROVE  TypeOK'
<1>1. [st |-> st, panes |-> <<>>, out |-> out] \in ClientState
  BY EmptySeq DEF ClientState
<1>2. cl' \in [Client -> ClientState]
  BY <1>1 DEF Start, TypeOK
<1>3. backlog' \in Seq(Client)
  BY DEF Start, TypeOK
<1>4. QED
  BY <1>2, <1>3 DEF Start, TypeOK, server

LEMMA ClientType ==
  ASSUME TypeOK, NEW c \in Client, ClientStep(c)
  PROVE  TypeOK'
<1> USE DEF server
<1>1. \A type \in MsgType, arg \in Int : Message(type, arg) \in Msg
  BY MessageType
<1>2. /\ Message("RESIZE", 0) \in Msg /\ Message("COMMAND", 0) \in Msg
      /\ Message("LIST", 0) \in Msg /\ Message("EXITED", 0) \in Msg
      /\ Message("DETACH", 0) \in Msg
  BY <1>1 DEF MsgType
<1>3. \A id \in 0 .. MaxId : Message("ATTACH", id) \in Msg /\ Message("KILL", id) \in Msg
  BY <1>1, LimitsAssumption DEF MsgType
<1>4. cl[c] \in ClientState
  BY DEF TypeOK
<1>5. CASE StartNew(c)
  <2>1. <<Message("RESIZE", 0), Message("COMMAND", 0)>> \in Seq(Msg)
    BY <1>2
  <2>2. QED
    BY <1>5, <2>1, StartType DEF StartNew
<1>6. CASE StartAttach(c)
  <2>1. \A id \in 0 .. MaxId : <<Message("ATTACH", id)>> \in Seq(Msg)
    BY <1>3
  <2>2. QED
    BY <1>6, <2>1, StartType DEF StartAttach
<1>7. CASE StartList(c)
  <2>1. <<Message("LIST", 0)>> \in Seq(Msg)
    BY <1>2
  <2>2. QED
    BY <1>7, <2>1, StartType DEF StartList
<1>8. CASE StartKill(c)
  <2>1. \A id \in 0 .. MaxId : <<Message("KILL", id)>> \in Seq(Msg)
    BY <1>3
  <2>2. QED
    BY <1>8, <2>1, StartType DEF StartKill
<1>9. CASE Send(c)
  <2>1. cl[c].out \in Seq(Msg) /\ cl[c].out # <<>>
    BY <1>4, <1>9 DEF Send, ClientState
  <2>2. Head(cl[c].out) \in Msg /\ Tail(cl[c].out) \in Seq(Msg)
    BY <2>1, HeadTailProperties
  <2>3. inbox' \in [Client -> Seq(Msg)]
    BY <1>9, <2>2 DEF Send, TypeOK
  <2>4. [cl[c] EXCEPT !.out = Tail(@)] \in ClientState
    BY <1>4, <2>2 DEF ClientState
  <2>5. cl' \in [Client -> ClientState]
    BY <1>9, <2>4, GoneType DEF Send, TypeOK
  <2>6. QED
    BY <1>9, <2>3, <2>5 DEF Send, TypeOK
<1>10. CASE ServerEof(c)
  BY <1>10, GoneType DEF ServerEof, TypeOK
<1>11. CASE PaneSplit(c)
  <2>1. <<Message("RESIZE", 0), Message("COMMAND", 0)>> \in Seq(Msg)
    BY <1>2
  <2>2. [cl[c] EXCEPT !.st = "spawn",
           !.out = <<Message("RESIZE", 0), Message("COMMAND", 0)>>] \in ClientState
    BY <1>4, <2>1 DEF ClientState
  <2>3. cl' \in [Client -> ClientState]
    BY <1>11, <2>2 DEF PaneSplit, TypeOK
  <2>4. QED
    BY <1>11, <2>3 DEF PaneSplit, TypeOK
<1>12. CASE DetachKey(c)
  <2>1. PICK e \in [1 .. Cardinality(Displayed(c)) -> Displayed(c)] :
          cl' = [cl EXCEPT ![c].st = "leave",
                   ![c].out = [n \in DOMAIN e |-> GridSave(e[n], cl[c].panes[e[n]])]
                                \o <<Message("DETACH", 0), Message("EXITED", 0)>>]
    BY <1>12 DEF DetachKey
  <2> DEFINE grids == [n \in DOMAIN e |-> GridSave(e[n], cl[c].panes[e[n]])]
             bye == <<Message("DETACH", 0), Message("EXITED", 0)>>
  <2>2. cl[c].panes \in Seq(OpenFile \cup {None})
    BY <1>4 DEF ClientState
  <2>3. Cardinality(Displayed(c)) \in Nat
    <3>1. Displayed(c) \in SUBSET (1 .. Len(cl[c].panes))
      BY DEF Displayed
    <3>2. Len(cl[c].panes) \in Nat
      BY <2>2
    <3>3. QED
      BY <3>1, <3>2, FiniteIndexes
  <2>4. grids \in Seq(Msg)
    <3>1. DOMAIN e = 1 .. Cardinality(Displayed(c))
      BY <2>1
    <3>2. \A n \in DOMAIN e : /\ e[n] \in Int
                              /\ cl[c].panes[e[n]] \in OpenFile \cup {None}
      BY <2>1, <2>2 DEF Displayed
    <3>3. \A n \in DOMAIN e : GridSave(e[n], cl[c].panes[e[n]]) \in Msg
      BY <3>2, MessageType
    <3>4. grids \in [1 .. Cardinality(Displayed(c)) -> Msg]
      BY <3>1, <3>3
    <3>5. \A n \in Nat : \A q : q \in [1 .. n -> Msg] => q \in Seq(Msg)
      BY SeqDef
    <3> HIDE DEF grids
    <3>6. QED
      BY <2>3, <3>4, <3>5
  <2>5. bye \in Seq(Msg)
    BY <1>2
  <2>6. grids \o bye \in Seq(Msg)
    <3> HIDE DEF grids, bye
    <3>1. QED
      BY <2>4, <2>5, ConcatProperties
  <2>7. cl' \in [Client -> ClientState]
    <3> DEFINE out == grids \o bye
    <3>1. cl' = [cl EXCEPT ![c].st = "leave", ![c].out = out]
      BY <2>1
    <3>2. out \in Seq(Msg)
      BY <2>6
    <3> HIDE DEF out
    <3>3. [cl[c] EXCEPT !.st = "leave", !.out = out] \in ClientState
      BY <1>4, <3>2 DEF ClientState
    <3>4. QED
      BY <3>1, <3>3 DEF TypeOK
  <2>8. QED
    BY <1>12, <2>7 DEF DetachKey, TypeOK
<1>13. CASE PaneEof(c)
  <2>1. PICK j \in 1 .. Len(cl[c].panes) :
          cl' = [cl EXCEPT ![c] =
            IF Displayed(c) = {j}
            THEN [st |-> "leave", panes |-> <<>>, out |-> <<Message("EXITED", 0)>>]
            ELSE [cl[c] EXCEPT !.panes[j] = None]]
    BY <1>13 DEF PaneEof
  <2>2. [st |-> "leave", panes |-> <<>>, out |-> <<Message("EXITED", 0)>>] \in ClientState
    <3>1. <<Message("EXITED", 0)>> \in Seq(Msg)
      BY <1>2
    <3>2. QED
      BY <3>1, EmptySeq DEF ClientState
  <2>3. [cl[c] EXCEPT !.panes[j] = None] \in ClientState
    <3>1. cl[c].panes \in Seq(OpenFile \cup {None})
      BY <1>4 DEF ClientState
    <3>2. [cl[c].panes EXCEPT ![j] = None] \in Seq(OpenFile \cup {None})
      BY <3>1, ExceptType
    <3>3. QED
      BY <1>4, <3>2 DEF ClientState
  <2>4. cl' \in [Client -> ClientState]
    BY <2>1, <2>2, <2>3 DEF TypeOK
  <2>5. QED
    BY <1>13, <2>4 DEF PaneEof, TypeOK
<1>14. CASE Die(c)
  BY <1>14, GoneType DEF Die, TypeOK
<1>15. QED
  BY <1>5, <1>6, <1>7, <1>8, <1>9, <1>10, <1>11, <1>12, <1>13, <1>14 DEF ClientStep

LEMMA ShellType ==
  ASSUME TypeOK, NEW p \in Pid, ShellExit(p)
  PROVE  TypeOK'
  BY DEF ShellExit, TypeOK

LEMMA InitType == Init => TypeOK
<1> SUFFICES ASSUME Init PROVE TypeOK
  OBVIOUS
<1>1. [st |-> "off", panes |-> <<>>, out |-> <<>>] \in ClientState
  BY EmptySeq DEF ClientState
<1>2. QED
  <2>1. <<>> \in Seq(Session) /\ <<>> \in Seq(Client) /\ <<>> \in Seq(Msg)
    BY EmptySeq
  <2>2. cursor \in 1 .. (MaxClients + 1)
    BY LimitsAssumption DEF Init
  <2>3. /\ client_fds \in [Slot -> FdOrNone]
        /\ file \in [Fd -> OpenFile \cup {None}]
        /\ proc \in [Pid -> {"none", "live", "doomed", "zombie", "reaped"}]
    BY DEF Init, FdOrNone
  <2>4. inbox \in [Client -> Seq(Msg)] /\ cl \in [Client -> ClientState]
    BY <1>1, <2>1 DEF Init
  <2>5. QED
    BY <2>1, <2>2, <2>3, <2>4 DEF Init, TypeOK

LEMMA StepType ==
  ASSUME TypeOK, AcceptHasConnection, [Next]_vars
  PROVE  TypeOK'
<1>1. CASE UNCHANGED vars
  BY <1>1 DEF TypeOK, vars, server
<1>2. CASE ServerStep
  BY <1>2, LoopType, ReceiveType DEF ServerStep
<1>3. QED
  BY <1>1, <1>2, ShellType, ClientType DEF Next

-----------------------------------------------------------------------------
(* The numbers in client_fds. *)

LEMMA AcceptWaits ==
  ASSUME TypeOK, AcceptHasConnection, [Next]_vars
  PROVE  AcceptHasConnection'
<1> USE DEF AcceptHasConnection, server
<1>1. CASE UNCHANGED vars
  BY <1>1 DEF vars
<1>2. ASSUME NEW c \in Client, ClientStep(c)
      PROVE  AcceptHasConnection'
  <2>1. ASSUME NEW st, NEW out, Start(c, st, out)
        PROVE  AcceptHasConnection'
    <3>1. backlog \in Seq(Client)
      BY DEF TypeOK
    <3>2. Append(backlog, c) # <<>>
      BY <3>1
    <3>3. QED
      BY <2>1, <3>2 DEF Start
  <2>2. QED
    BY <1>2, <2>1 DEF ClientStep, StartNew, StartAttach, StartList, StartKill,
         Send, ServerEof, PaneSplit, DetachKey, PaneEof, Die
<1>3. ASSUME NEW p \in Pid, ShellExit(p)
      PROVE  AcceptHasConnection'
  BY <1>3 DEF ShellExit
<1>4. ASSUME NEW i \in Slot, Receive(i)
      PROVE  AcceptHasConnection'
  BY <1>4 DEF Receive, ReceiveFails, BrokenPipe, ListSessions, KillSession, KillUnknown,
       Resize, SpawnPane, SpawnRefused, SpawnFails, Exited, Detach, Attach,
       AttachRefused, SaveGrid, Received, Turn, NextSlot, HangUp, Stop
<1>5. ASSUME NEW p \in Pid, Reap(p)
      PROVE  AcceptHasConnection'
  BY <1>5 DEF Reap
<1>6. QED
  BY <1>1, <1>2, <1>3, <1>4, <1>5
     DEF Next, ServerStep, EnterSelect, SelectFails, SelectReturns, Accept, AcceptFails,
         ReceiveDone, Sweep, SweepDone, ReapDone, Clean, CleanDone, Stop

(* Clearing slots keeps the others distinct. *)
DistinctIn(fds) == \A i, j \in Slot : fds[i] = fds[j] /\ i # j => fds[i] = NoFd

LEMMA ClearKeepsDistinct ==
  ASSUME NEW f, client_fds \in [Slot -> FdOrNone], SlotsDistinct
  PROVE  DistinctIn(ClearSlot(f))
  BY DEF DistinctIn, SlotsDistinct, ClearSlot

LEMMA SlotsStep ==
  ASSUME TypeOK, AcceptHasConnection, SlotsOpen, SlotsDistinct, [Next]_vars
  PROVE  SlotsOpen' /\ SlotsDistinct'
<1> USE DEF server
<1>1. CASE UNCHANGED vars
  BY <1>1 DEF vars, SlotsOpen, SlotsDistinct, Watched, IsOpen
<1>2. ASSUME NEW c \in Client, ClientStep(c)
      PROVE  SlotsOpen' /\ SlotsDistinct'
  <2>1. UNCHANGED <<pc, client_fds, file>>
    BY <1>2 DEF ClientStep, StartNew, StartAttach, StartList, StartKill, Start,
         Send, ServerEof, PaneSplit, DetachKey, PaneEof, Die
  <2>2. QED
    BY <2>1 DEF SlotsOpen, SlotsDistinct, Watched, IsOpen
<1>3. ASSUME NEW p \in Pid, ShellExit(p)
      PROVE  SlotsOpen' /\ SlotsDistinct'
  BY <1>3 DEF ShellExit, SlotsOpen, SlotsDistinct, Watched, IsOpen
<1>4. ASSUME NEW i \in Slot, Receive(i)
      PROVE  SlotsOpen' /\ SlotsDistinct'
  <2>1. pc' \notin {"select", "accept"}
    BY <1>4 DEF Receive, ReceiveFails, BrokenPipe, ListSessions, KillSession, KillUnknown,
       Resize, SpawnPane, SpawnRefused, SpawnFails, Exited, Detach, Attach,
       AttachRefused, SaveGrid, Received, Turn, NextSlot, HangUp, Stop
  <2>2. CASE Stop
    BY <2>1, <2>2 DEF Stop, SlotsDistinct, SlotsOpen
  <2>3. CASE client_fds' = client_fds
    BY <2>1, <2>3 DEF SlotsDistinct, SlotsOpen
  <2>4. CASE client_fds' = [client_fds EXCEPT ![i] = NoFd]
    BY <2>1, <2>4 DEF SlotsDistinct, SlotsOpen, TypeOK
  <2>5. QED
    BY <1>4, <2>2, <2>3, <2>4
       DEF Receive, ReceiveFails, BrokenPipe, ListSessions, KillSession, KillUnknown,
       Resize, SpawnPane, SpawnRefused, SpawnFails, Exited, Detach, Attach,
       AttachRefused, SaveGrid, NextSlot, HangUp
<1>5. ASSUME NEW p \in Pid, Reap(p)
      PROVE  SlotsOpen' /\ SlotsDistinct'
  <2>1. pc' \notin {"select", "accept"}
    BY <1>5 DEF Reap
  <2>2. \/ client_fds' = client_fds
        \/ \E f : client_fds' = ClearSlot(f)
    BY <1>5 DEF Reap, ReapPane
  <2>3. SlotsDistinct'
    BY <2>2, ClearKeepsDistinct DEF SlotsDistinct, DistinctIn, TypeOK
  <2>4. QED
    BY <2>1, <2>3 DEF SlotsOpen
<1>6. CASE Sweep
  <2>1. pc' \notin {"select", "accept"}
    BY <1>6 DEF Sweep
  <2>2. \E f : client_fds' = ClearSlot(f)
    BY <1>6 DEF Sweep
  <2>3. SlotsDistinct'
    BY ZenonT(60), <2>2, ClearKeepsDistinct DEF SlotsDistinct, DistinctIn, TypeOK
  <2>4. QED
    BY <2>1, <2>3 DEF SlotsOpen
<1>7. CASE EnterSelect
  BY <1>7 DEF EnterSelect, SlotsOpen, SlotsDistinct, Watched, IsOpen
<1>8. CASE SelectReturns
  BY <1>8 DEF SelectReturns, SlotsOpen, SlotsDistinct, Watched, IsOpen
<1>9. CASE Accept
  <2>1. PICK f \in Fd :
          /\ LowestFree(f)
          /\ client_fds' = [i \in Slot |->
               IF First(i, {j \in Slot : client_fds[j] = NoFd}) THEN f ELSE client_fds[i]]
    BY <1>9 DEF Accept
  <2>2. \A i \in Slot : client_fds[i] # f       \* f is free, the slots are open
    BY <1>9, <2>1 DEF Accept, SlotsOpen, Watched, IsOpen, LowestFree, Fd, NoFd
  <2>3. SlotsDistinct'
    BY <2>1, <2>2 DEF SlotsDistinct, First, Slot
  <2>4. QED
    BY <1>9, <2>3 DEF Accept, SlotsOpen
<1>10. CASE \/ SelectFails \/ AcceptFails \/ ReceiveDone \/ SweepDone
            \/ ReapDone \/ Clean \/ CleanDone
  BY <1>10 DEF SelectFails, AcceptFails, ReceiveDone, SweepDone, ReapDone, Clean, CleanDone,
       Stop, SlotsOpen, SlotsDistinct
<1>11. QED
  BY <1>1, <1>2, <1>3, <1>4, <1>5, <1>6, <1>7, <1>8, <1>9, <1>10 DEF Next, ServerStep

-----------------------------------------------------------------------------
(* The session ids. *)

IdsIncrease(sl) == \A j, k \in 1 .. Len(sl) : j < k => sl[j].id < sl[k].id

LEMMA SameIds ==
  ASSUME NEW sl \in Seq(Session), IdsIncrease(sl),
         NEW k \in 1 .. Len(sl), NEW s \in Session, s.id = sl[k].id
  PROVE  IdsIncrease([sl EXCEPT ![k] = s])
  BY UpdateType DEF IdsIncrease

LEMMA AssociateIds ==
  ASSUME NEW sl \in Seq(Session), IdsIncrease(sl), NEW f \in FdOrNone
  PROVE  IdsIncrease(Associate(sl, f))
<1>1. CASE WithClientFd(sl, f) # {}
  BY <1>1 DEF Associate
<1>2. CASE WithClientFd(sl, f) = {}
  <2> DEFINE new == NewSession(NextId(sl), f)
  <2>1. Associate(sl, f) = Append(sl, new)
    BY <1>2 DEF Associate
  <2>2. new.id = NextId(sl)
    BY DEF NewSession
  <2>3. \A j \in 1 .. Len(sl) : sl[j].id < NextId(sl)
    <3>1. SUFFICES ASSUME NEW j \in 1 .. Len(sl) PROVE sl[j].id < NextId(sl)
      OBVIOUS
    <3>2. Len(sl) \in Nat /\ Len(sl) \in 1 .. Len(sl) /\ sl # <<>>
      BY EmptySeq
    <3>3. sl[j] \in Session /\ sl[Len(sl)] \in Session
      BY <3>2, ElementOfSeq
    <3>4. sl[j].id \in Nat /\ sl[Len(sl)].id \in Nat
      BY <3>3 DEF Session
    <3>5. sl[j].id <= sl[Len(sl)].id
      BY <3>2, <3>4 DEF IdsIncrease
    <3>6. QED
      BY <3>2, <3>4, <3>5 DEF NextId
  <2> HIDE DEF new
  <2>4. QED
    BY <2>1, <2>2, <2>3 DEF IdsIncrease
<1>3. QED
  BY <1>1, <1>2

LEMMA ListDelIds ==
  ASSUME NEW sl \in Seq(Session), IdsIncrease(sl), NEW k \in 1 .. Len(sl)
  PROVE  IdsIncrease(ListDel(sl, k))
<1> DEFINE tl == ListDel(sl, k)
<1>1. /\ Len(tl) = Len(sl) - 1
      /\ \A j \in 1 .. (Len(sl) - 1) : tl[j] = IF j < k THEN sl[j] ELSE sl[j + 1]
  BY ListDelType
<1> HIDE DEF tl
<1>2. SUFFICES ASSUME NEW j \in 1 .. Len(tl), NEW m \in 1 .. Len(tl), j < m
               PROVE  tl[j].id < tl[m].id
  BY DEF IdsIncrease, tl
<1> DEFINE old(x) == IF x < k THEN x ELSE x + 1
<1>3. Len(sl) \in Nat /\ k \in 1 .. Len(sl) /\ j \in 1 .. (Len(sl) - 1) /\ m \in 1 .. (Len(sl) - 1)
  BY <1>1
<1>4. old(j) \in 1 .. Len(sl) /\ old(m) \in 1 .. Len(sl) /\ old(j) < old(m)
  BY <1>2, <1>3
<1>5. tl[j] = sl[old(j)] /\ tl[m] = sl[old(m)]
  BY <1>1, <1>3
<1> HIDE DEF old
<1>6. sl[old(j)].id < sl[old(m)].id
  BY <1>4 DEF IdsIncrease
<1>7. QED
  BY <1>5, <1>6

LEMMA EmptyIds == IdsIncrease(<<>>)
  BY DEF IdsIncrease

LEMMA ReceiveIds ==
  ASSUME TypeOK, IdsIncrease(session_list), NEW i \in Slot, Receive(i)
  PROVE  IdsIncrease(session_list')
<1>0. ASSUME NEW type, Received(i, type)
      PROVE  IdsIncrease(Associated(i)) /\ Associated(i) \in Seq(Session)
  BY <1>0, ReceivedType, AssociateIds DEF Associated, TypeOK, FdOrNone
<1>1. CASE UNCHANGED session_list
  BY <1>1
<1>2. CASE session_list' = <<>>
  BY <1>2, EmptyIds
<1>3. CASE KillSession(i)
  <2>1. \/ session_list' = <<>>
        \/ \E k \in 1 .. Len(session_list) : session_list' = ListDel(session_list, k)
    BY <1>3 DEF KillSession, Stop
  <2>2. QED
    BY <1>2, <2>1, ListDelIds DEF TypeOK
<1>4. CASE Resize(i) \/ SpawnRefused(i) \/ Exited(i) \/ AttachRefused(i)
  BY <1>0, <1>4 DEF Resize, SpawnRefused, Exited, AttachRefused
<1>5. CASE SpawnPane(i)
  <2>1. Received(i, "COMMAND")
    BY <1>5 DEF SpawnPane
  <2>2. PICK k \in 1 .. Len(Associated(i)), p \in Pid, g \in Fd :
          session_list' = [Associated(i) EXCEPT
            ![k].master_fds = Append(@, g), ![k].pane_pids = Append(@, p)]
    BY ZenonT(60), <1>5 DEF SpawnPane
  <2> DEFINE sl == Associated(i)
             s == [sl[k] EXCEPT !.master_fds = Append(@, g), !.pane_pids = Append(@, p)]
  <2>3. sl \in Seq(Session) /\ IdsIncrease(sl) /\ sl[k] \in Session
    BY <1>0, <2>1, <2>2, ElementOfSeq
  <2>4. s \in Session
    BY <2>3, WithPaneType
  <2>5. s.id = sl[k].id
    BY <2>3 DEF Session
  <2>6. session_list' = [sl EXCEPT ![k] = s]
    BY <2>2, <2>3 DEF Session
  <2>7. k \in 1 .. Len(sl)
    BY <2>2
  <2> HIDE DEF s, sl
  <2>8. IdsIncrease([sl EXCEPT ![k] = s])
    BY <2>3, <2>4, <2>5, <2>7, SameIds
  <2>9. QED
    BY <2>6, <2>8
<1>6. CASE Detach(i)
  <2>1. Received(i, "DETACH")
    BY <1>6 DEF Detach
  <2>2. PICK k \in 1 .. Len(Associated(i)) :
          session_list' = [Associated(i) EXCEPT
            ![k] = [Associated(i)[k] EXCEPT !.detached = TRUE]]
    BY <1>6 DEF Detach
  <2>3. Associated(i) \in Seq(Session) /\ Associated(i)[k] \in Session
    BY <1>0, <2>1, <2>2, ElementOfSeq
  <2>4. [Associated(i)[k] EXCEPT !.detached = TRUE] \in Session
    BY <2>3 DEF Session
  <2>5. [Associated(i)[k] EXCEPT !.detached = TRUE].id = Associated(i)[k].id
    BY <2>3 DEF Session
  <2>6. QED
    BY <1>0, <2>1, <2>2, <2>3, <2>4, <2>5, SameIds
<1>7. CASE Attach(i)
  <2>1. Received(i, "ATTACH")
    BY <1>7 DEF Attach
  <2>2. PICK k \in 1 .. Len(Associated(i)) : AttachGranted(i, k)
    BY <1>7 DEF Attach
  <2> DEFINE sl == Associated(i)
             s == sl[k]
             grids == [n \in Pane |-> IF n <= PaneCount(s) THEN None ELSE s.grid_data[n]]
             t == [s EXCEPT !.client_fd = client_fds[i], !.detached = FALSE,
                            !.grid_data = grids]
  <2>3. /\ sl \in Seq(Session) /\ IdsIncrease(sl) /\ s \in Session
        /\ client_fds[i] \in Fd
    BY <1>0, <2>1, <2>2, ReceivedType, ElementOfSeq
  <2>4. grids \in [Pane -> OpenFile \cup {None}]
    BY <2>3 DEF Session
  <2>5. t \in Session
    BY <2>3, <2>4 DEF Session, FdOrNone
  <2>6. t.id = s.id
    BY <2>3 DEF Session
  <2>7. session_list' = [sl EXCEPT ![k] = t]
    BY <2>2, <2>3 DEF AttachGranted, Session
  <2>8. k \in 1 .. Len(sl)
    BY <2>2
  <2> HIDE DEF t, grids, s, sl
  <2>9. IdsIncrease([sl EXCEPT ![k] = t])
    BY <2>3, <2>5, <2>6, <2>8, SameIds DEF s
  <2>10. QED
    BY <2>7, <2>9
<1>8. CASE SaveGrid(i)
  <2>1. Received(i, "GRID_SAVE")
    BY <1>8 DEF SaveGrid
  <2>2. PICK k \in 1 .. Len(Associated(i)) :
          session_list' =
            IF Argument(i) \in Pane
            THEN [Associated(i) EXCEPT
                    ![k].grid_data[Argument(i)] = Head(inbox[Sender(i)]).screen]
            ELSE Associated(i)
    BY <1>8 DEF SaveGrid
  <2> DEFINE sl == Associated(i)
             t == [sl[k] EXCEPT !.grid_data[Argument(i)] = Head(inbox[Sender(i)]).screen]
  <2>3. sl \in Seq(Session) /\ IdsIncrease(sl) /\ sl[k] \in Session
    BY <1>0, <2>1, <2>2, ElementOfSeq
  <2>4. Head(inbox[Sender(i)]).screen \in OpenFile \cup {None}
    BY <2>1, ReceivedType DEF Msg
  <2>5. t \in Session
    BY <2>3, <2>4 DEF Session
  <2>6. t.id = sl[k].id
    BY <2>3 DEF Session
  <2>7. session_list' \in {[sl EXCEPT ![k] = t], sl}
    BY <2>2
  <2> HIDE DEF t, sl
  <2>8. QED
    BY <2>2, <2>3, <2>5, <2>6, <2>7, SameIds DEF sl
<1>9. QED
  BY <1>1, <1>2, <1>3, <1>4, <1>5, <1>6, <1>7, <1>8
     DEF Receive, ReceiveFails, BrokenPipe, ListSessions, KillUnknown, SpawnFails, Stop

LEMMA IdsStep ==
  ASSUME TypeOK, SessionIdsIncrease, [Next]_vars
  PROVE  SessionIdsIncrease'
<1>0. IdsIncrease(session_list)
  BY DEF SessionIdsIncrease, IdsIncrease
<1> SUFFICES IdsIncrease(session_list')
  BY DEF SessionIdsIncrease, IdsIncrease
<1>1. CASE UNCHANGED session_list
  BY <1>0, <1>1
<1>2. CASE session_list' = <<>>
  BY <1>2, EmptyIds
<1>3. ASSUME NEW i \in Slot, Receive(i)
      PROVE  IdsIncrease(session_list')
  BY <1>0, <1>3, ReceiveIds
<1>4. CASE Sweep
  <2>1. PICK k \in ToSweep :
          session_list' = [session_list EXCEPT
            ![k] = [session_list[k] EXCEPT !.client_fd = NoFd]]
    BY <1>4 DEF Sweep
  <2>2. k \in 1 .. Len(session_list) /\ session_list[k] \in Session
    BY <2>1, ElementOfSeq DEF ToSweep, TypeOK
  <2>3. [session_list[k] EXCEPT !.client_fd = NoFd] \in Session
    BY <2>2 DEF Session, FdOrNone
  <2>4. [session_list[k] EXCEPT !.client_fd = NoFd].id = session_list[k].id
    BY <2>2 DEF Session
  <2>5. QED
    BY <1>0, <2>1, <2>2, <2>3, <2>4, SameIds DEF TypeOK
<1>5. ASSUME NEW p \in Pid, NEW k \in 1 .. Len(session_list), NEW j \in Pane,
             ReapPane(p, k, j)
      PROVE  IdsIncrease(session_list')
  <2> DEFINE s == session_list[k]
             t == WithoutPane(s, j)
  <2>1. s \in Session /\ session_list \in Seq(Session)
    BY ElementOfSeq DEF TypeOK
  <2>2. t \in Session /\ Ended(t) \in Session
    BY <2>1, WithoutPaneType
  <2>3. t.id = s.id /\ Ended(t).id = s.id
    BY <2>1 DEF WithoutPane, Ended, Session
  <2>4. session_list' \in {[session_list EXCEPT ![k] = t],
                           [session_list EXCEPT ![k] = Ended(t)]}
    BY <1>5 DEF ReapPane
  <2> HIDE DEF t
  <2>5. QED
    BY <1>0, <2>1, <2>2, <2>3, <2>4, SameIds
<1>6. CASE Clean
  BY <1>0, <1>6, ListDelIds DEF Clean, ToClean, TypeOK
<1>7. ASSUME NEW c \in Client, ClientStep(c)
      PROVE  UNCHANGED session_list
  BY <1>7 DEF ClientStep, StartNew, StartAttach, StartList, StartKill, Start,
       Send, ServerEof, PaneSplit, DetachKey, PaneEof, Die, server
<1>8. ASSUME NEW p \in Pid, ShellExit(p) \/ Reap(p)
      PROVE  IdsIncrease(session_list')
  BY <1>1, <1>5, <1>8 DEF ShellExit, Reap
<1>9. CASE \/ EnterSelect \/ SelectFails \/ SelectReturns \/ Accept \/ AcceptFails
           \/ ReceiveDone \/ SweepDone \/ ReapDone \/ CleanDone
  BY <1>1, <1>2, <1>9 DEF EnterSelect, SelectFails, SelectReturns, Accept, AcceptFails,
       ReceiveDone, SweepDone, ReapDone, CleanDone, Stop
<1>10. CASE UNCHANGED vars
  BY <1>1, <1>10 DEF vars, server
<1>11. QED
  BY <1>1, <1>3, <1>4, <1>6, <1>7, <1>8, <1>9, <1>10 DEF Next, ServerStep

-----------------------------------------------------------------------------
(* SIGCHLD. *)

LEMMA SignalStep ==
  ASSUME SignalKept, [Next]_vars
  PROVE  SignalKept'
<1> USE DEF SignalKept, server
<1>1. CASE UNCHANGED vars
  BY <1>1 DEF vars
<1>2. ASSUME NEW c \in Client, ClientStep(c)
      PROVE  UNCHANGED <<pc, proc, sigchld_pending>>
  BY <1>2 DEF ClientStep, StartNew, StartAttach, StartList, StartKill, Start,
       Send, ServerEof, PaneSplit, DetachKey, PaneEof, Die
<1>3. ASSUME NEW p \in Pid, ShellExit(p)
      PROVE  SignalKept'
  BY <1>3 DEF ShellExit
<1>4. ASSUME NEW i \in Slot, Receive(i)
      PROVE  SignalKept'
  <2>1. pc = "receive"
    BY <1>4 DEF Receive, ReceiveFails, BrokenPipe, ListSessions, KillSession, KillUnknown,
       Resize, SpawnPane, SpawnRefused, SpawnFails, Exited, Detach, Attach,
       AttachRefused, SaveGrid, Received, Turn
  <2>2. \/ pc' = "down"
        \/ sigchld_pending' = sigchld_pending
    BY <1>4 DEF Receive, ReceiveFails, BrokenPipe, ListSessions, KillSession, KillUnknown,
       Resize, SpawnPane, SpawnRefused, SpawnFails, Exited, Detach, Attach,
       AttachRefused, SaveGrid, NextSlot, HangUp, Stop
  <2>3. \A p \in Pid : proc'[p] = "zombie" => proc[p] = "zombie"
    <3>1. ASSUME NEW s, proc' = Doom(s)
          PROVE  \A p \in Pid : proc'[p] = "zombie" => proc[p] = "zombie"
      BY <3>1 DEF Doom
    <3>2. ASSUME NEW q \in Pid, proc' = [proc EXCEPT ![q] = "live"]
          PROVE  \A p \in Pid : proc'[p] = "zombie" => proc[p] = "zombie"
      BY <3>2
    <3>3. \/ UNCHANGED proc
          \/ \E s : proc' = Doom(s)
          \/ \E q \in Pid : proc' = [proc EXCEPT ![q] = "live"]
      BY <1>4 DEF Receive, ReceiveFails, BrokenPipe, ListSessions, KillSession, KillUnknown,
         Resize, SpawnPane, SpawnRefused, SpawnFails, Exited, Detach, Attach,
         AttachRefused, SaveGrid
    <3>4. QED
      BY <3>1, <3>2, <3>3
  <2>4. QED
    BY <2>1, <2>2, <2>3
<1>5. ASSUME NEW p \in Pid, Reap(p)
      PROVE  SignalKept'
  BY <1>5 DEF Reap
<1>6. QED
  BY <1>1, <1>2, <1>3, <1>4, <1>5
     DEF Next, ServerStep, EnterSelect, SelectFails, SelectReturns, Accept, AcceptFails,
         ReceiveDone, Sweep, SweepDone, ReapDone, Clean, CleanDone, Stop

-----------------------------------------------------------------------------
(* The inductive invariant of Server. *)

LEMMA InitInv == Init => IInv
<1> SUFFICES ASSUME Init PROVE IInv
  OBVIOUS
<1>1. TypeOK
  BY InitType
<1>2. AcceptHasConnection /\ SlotsOpen
  BY DEF Init, AcceptHasConnection, SlotsOpen
<1>3. SlotsDistinct /\ SessionIdsIncrease /\ SignalKept
  BY EmptySeq DEF Init, SlotsDistinct, SessionIdsIncrease, SignalKept
<1>4. QED
  BY <1>1, <1>2, <1>3 DEF IInv

(* The properties below are not inductive one by one: SlotsDistinct needs   *)
(* that the slots are open when accept runs, and everything needs the      *)
(* types.  Their conjunction is preserved by every step of the daemon, the *)
(* clients and the shells (server.c:370-522).                              *)
THEOREM Invariance == Spec => []IInv
<1>1. Init => IInv
  BY InitInv
<1>2. IInv /\ [Next]_vars => IInv'
  BY StepType, AcceptWaits, SlotsStep, IdsStep, SignalStep DEF IInv
<1>3. QED
  BY <1>1, <1>2, PTL DEF Spec

(* Every reachable state is well typed: descriptor numbers, slots and the  *)
(* receive cursor stay in range (server.c:370-522).                        *)
THEOREM TypeCorrect == Spec => []TypeOK
<1>1. IInv => TypeOK
  BY DEF IInv
<1>2. QED
  BY <1>1, Invariance, PTL

(* No connection is ever read through two slots of client_fds, whatever    *)
(* numbers accept, posix_openpt and close hand out (server.c:416-455).     *)
THEOREM SlotsAreDistinct == Spec => []SlotsDistinct
<1>1. IInv => SlotsDistinct
  BY DEF IInv
<1>2. QED
  BY <1>1, Invariance, PTL

(* Ids grow along the session list, so find_session_by_id finds the only   *)
(* session with an id (server.c:87-95, 198-205).                           *)
THEOREM IdsAreSorted == Spec => []SessionIdsIncrease
<1>1. IInv => SessionIdsIncrease
  BY DEF IInv
<1>2. QED
  BY <1>1, Invariance, PTL

(* An exited shell always leaves the flag set until the daemon reaps: an   *)
(* exit can be noticed late, but is never forgotten (server.c:462-510).    *)
THEOREM ExitsAreKept == Spec => []SignalKept
<1>1. IInv => SignalKept
  BY DEF IInv
<1>2. QED
  BY <1>1, Invariance, PTL
=============================================================================
