------------------------------- MODULE Server -------------------------------
(***************************************************************************)
(* The mini-tmux daemon (src/server.c: server_loop, server_receive) with   *)
(* the clients that talk to it (src/client.c) and the shells it runs       *)
(* (src/spawn.c).                                                          *)
(*                                                                         *)
(* The daemon is one thread: select, accept at most one connection, read   *)
(* at most one message from every readable connection, close the           *)
(* connections of sessions that were detached, reap exited shells, delete  *)
(* dead sessions, select again.  Clients and shells run concurrently with  *)
(* every one of these steps.                                               *)
(*                                                                         *)
(* What makes the daemon delicate is that it identifies things by file     *)
(* descriptor NUMBER: a session remembers the number of its client and of  *)
(* its PTY masters, client_fds the numbers to select on, and the kernel    *)
(* hands the lowest free number to whatever is opened next.  The model     *)
(* therefore keeps the daemon's descriptor table ("file") explicitly.      *)
(*                                                                         *)
(* Abstracted: window sizes, the screen contents (a saved screen is the    *)
(* name of the PTY it shows), the text of replies, and the time a reply    *)
(* spends in the socket (a client has its reply when the daemon sent it).  *)
(***************************************************************************)
EXTENDS Integers, Sequences, FiniteSets

CONSTANTS
  Client,      \* client processes; each connects at most once
  Pid,         \* shells; a shell and its PTY master are named alike
  None,        \* no file, no shell, no screen
  MaxFd,       \* highest descriptor the daemon may open (RLIMIT_NOFILE)
  MaxClients,  \* slots of client_fds          (MAX_CLIENTS in server.h)
  MaxPanes,    \* panes of a session           (MAX_PANES in server.h)
  MaxId,       \* bound: highest session id a user asks for
  Roles,       \* what clients are started for
  MayDie       \* may a client die (be killed) at any moment?

ASSUME NamesAssumption ==
  /\ Client \cap Pid = {}
  /\ None \notin Client \cup Pid
ASSUME LimitsAssumption ==
  /\ MaxFd \in Nat
  /\ MaxClients \in Nat \ {0}
  /\ MaxPanes \in Nat \ {0}
  /\ MaxId \in Nat
ASSUME EnvironmentAssumption ==
  /\ Roles \subseteq {"new", "attach", "list", "kill"}
  /\ MayDie \in BOOLEAN

VARIABLES
  pc,              \* where the daemon is in server_loop
  rset,            \* read_fds after select: the readable descriptors
  cursor,          \* next slot of client_fds the receive loop looks at
  client_fds,      \* slot -> descriptor number or NoFd
  session_list,    \* the sessions, in list order
  sigchld_pending, \* flag set by the SIGCHLD handler
  file,            \* the daemon's descriptor table: number -> open file
  proc,            \* life of every shell
  backlog,         \* connections the kernel completed, not yet accepted
  inbox,           \* bytes a client sent that the daemon has not read
  cl               \* the clients

server == <<pc, rset, cursor, client_fds, session_list>>
vars == <<server, sigchld_pending, file, proc, backlog, inbox, cl>>

-----------------------------------------------------------------------------
NoFd == -1
Fd == 0 .. MaxFd
FdOrNone == Fd \cup {NoFd}
Slot == 1 .. MaxClients
Pane == 1 .. MaxPanes
OpenFile == Client \cup Pid     \* the daemon's end of a socket; a PTY master

MsgType == {"LIST", "KILL", "RESIZE", "COMMAND", "EXITED",
            "DETACH", "ATTACH", "GRID_SAVE"}
(* MSG_DETACH asks to attach when it carries a session id and to detach    *)
(* when it is empty: the two are ATTACH and DETACH here.  MSG_DETACHKILL   *)
(* is KILL.  "arg" is the session id (ATTACH, KILL) or the pane            *)
(* (GRID_SAVE), "screen" the screen a GRID_SAVE carries.                   *)
Msg == [type : MsgType, arg : Int, screen : OpenFile \cup {None}]
Message(type, arg) == [type |-> type, arg |-> arg, screen |-> None]
GridSave(k, screen) == [type |-> "GRID_SAVE", arg |-> k, screen |-> screen]

(* struct session; pane_count is Len(master_fds). *)
Session == [id           : Nat,
            client_fd    : FdOrNone,
            detached     : BOOLEAN,
            child_exited : BOOLEAN,
            master_fds   : Seq(FdOrNone),
            pane_pids    : Seq(Pid \cup {None}),
            grid_data    : [Pane -> OpenFile \cup {None}]]

(* A client: what it is doing, the PTY masters it was sent (by pane id;    *)
(* None once the pane was closed), and the messages it has still to write. *)
(*   off - not started       spawn - blocked in recv_fd for a new pane     *)
(*   wait - for an answer    run - in client_loop    leave - loop left     *)
ClientState == [st    : {"off", "wait", "spawn", "run", "leave", "gone"},
                panes : Seq(OpenFile \cup {None}),
                out   : Seq(Msg)]
Gone == [st |-> "gone", panes |-> <<>>, out |-> <<>>]

-----------------------------------------------------------------------------
(* The kernel: descriptors, sockets. *)

IsOpen(f) == f \in Fd /\ file[f] # None
LowestFree(f) == f \in Fd /\ file[f] = None /\ \A g \in 0 .. (f - 1) : file[g] # None
TableFull == \A f \in Fd : file[f] # None
Close(fs, tab) == [f \in Fd |-> IF f \in fs THEN None ELSE tab[f]]

(* Closing the last descriptor of a socket discards what was not read. *)
Discard(fs, q) ==
  [c \in Client |-> IF \E f \in fs \cap Fd : file[f] = c THEN <<>> ELSE q[c]]

Dead(c) == cl[c].st = "gone"
InService(c) ==      \* the daemon's end of c's connection is open
  \/ \E f \in Fd : file[f] = c
  \/ \E k \in 1 .. Len(backlog) : backlog[k] = c

(* The daemon stops: its descriptors are closed, its memory is gone. *)
Stop ==
  /\ pc' = "down"
  /\ file' = [f \in Fd |-> None]
  /\ client_fds' = [i \in Slot |-> NoFd]
  /\ inbox' = [c \in Client |-> <<>>]
  /\ session_list' = <<>> /\ backlog' = <<>> /\ rset' = {} /\ cursor' = 1
  /\ sigchld_pending' = FALSE

-----------------------------------------------------------------------------
(* The session list. *)

First(k, S) == k \in S /\ \A j \in S : k <= j     \* k is the first of S

WithClientFd(sl, f) == {k \in 1 .. Len(sl) : sl[k].client_fd = f}
WithId(sl, id) == {k \in 1 .. Len(sl) : sl[k].id = id}

ForgottenId(sl) == -1             \* variant: the id stays as session_init left it
CountedId(sl) == Len(sl)          \* variant: the id counts the sessions
NextId(sl) == IF sl = <<>> THEN 0 ELSE sl[Len(sl)].id + 1

NewSession(id, f) ==
  [id |-> id, client_fd |-> f, detached |-> FALSE, child_exited |-> FALSE,
   master_fds |-> <<>>, pane_pids |-> <<>>, grid_data |-> [k \in Pane |-> None]]

(* Every message but LIST and KILL is first associated with a session: the *)
(* first one whose client_fd is this number, or else a new one.            *)
Associate(sl, f) ==
  IF WithClientFd(sl, f) = {} THEN Append(sl, NewSession(NextId(sl), f)) ELSE sl

ListDel(sl, k) ==
  [j \in 1 .. (Len(sl) - 1) |-> IF j < k THEN sl[j] ELSE sl[j + 1]]

PaneCount(s) == Len(s.master_fds)
Shells(s) == {s.pane_pids[k] : k \in 1 .. Len(s.pane_pids)} \ {None}
MasterNumbers(s) == {s.master_fds[k] : k \in 1 .. Len(s.master_fds)} \ {NoFd}

-----------------------------------------------------------------------------
Init ==
  /\ pc = "setup" /\ rset = {} /\ cursor = 1
  /\ client_fds = [i \in Slot |-> NoFd]
  /\ session_list = <<>>
  /\ sigchld_pending = FALSE
  /\ file = [f \in Fd |-> None]
  /\ proc = [p \in Pid |-> "none"]
  /\ backlog = <<>>
  /\ inbox = [c \in Client |-> <<>>]
  /\ cl = [c \in Client |-> [st |-> "off", panes |-> <<>>, out |-> <<>>]]

-----------------------------------------------------------------------------
(* server_loop: select and accept. *)

Watched == {client_fds[i] : i \in Slot} \ {NoFd}

(* A socket is readable when bytes or the end of the stream wait in it; a  *)
(* PTY master when its shell wrote something, or exited.                   *)
MustBeReady(f) ==
  \/ file[f] \in Client /\ (inbox[file[f]] # <<>> \/ Dead(file[f]))
  \/ file[f] \in Pid /\ proc[file[f]] \in {"zombie", "reaped"}
MayBeReady(f) == MustBeReady(f) \/ file[f] \in Pid

ClearFlagLate ==       \* variant: the flag is cleared at the top of the loop
  /\ pc = "setup"
  /\ \A f \in Watched : IsOpen(f)
  /\ pc' = "select"
  /\ sigchld_pending' = FALSE
  /\ UNCHANGED <<rset, cursor, client_fds, session_list, file, proc, backlog, inbox, cl>>
EnterSelect ==
  /\ pc = "setup"
  /\ \A f \in Watched : IsOpen(f)
  /\ pc' = "select"
  /\ UNCHANGED <<rset, cursor, client_fds, session_list, sigchld_pending,
                 file, proc, backlog, inbox, cl>>

(* select returns EBADF, server_loop breaks and the daemon exits. *)
SelectFails ==
  /\ pc = "setup"
  /\ \E f \in Watched : ~IsOpen(f)
  /\ Stop
  /\ UNCHANGED <<proc, cl>>

SelectReturns ==
  /\ pc = "select"
  /\ \E R \in SUBSET {f \in Watched : MayBeReady(f)} :
       /\ {f \in Watched : MustBeReady(f)} \subseteq R
       /\ R # {} \/ backlog # <<>>
       /\ rset' = R
  /\ pc' = IF backlog # <<>> THEN "accept" ELSE "receive"
  /\ UNCHANGED <<cursor, client_fds, session_list, sigchld_pending,
                 file, proc, backlog, inbox, cl>>

(* One connection per pass.  When all slots are taken the new descriptor   *)
(* is neither stored nor closed; when accept fails nothing changes.        *)
AcceptEverywhere ==    \* variant: the loop over the slots goes on after the first
  /\ pc = "accept"
  /\ \E f \in Fd :
       /\ LowestFree(f)
       /\ file' = [file EXCEPT ![f] = Head(backlog)]
       /\ client_fds' = [i \in Slot |->
            IF client_fds[i] = NoFd THEN f ELSE client_fds[i]]
  /\ backlog' = Tail(backlog)
  /\ pc' = "receive"
  /\ UNCHANGED <<rset, cursor, session_list, sigchld_pending, proc, inbox, cl>>
Accept ==
  /\ pc = "accept"
  /\ \E f \in Fd :
       /\ LowestFree(f)
       /\ file' = [file EXCEPT ![f] = Head(backlog)]
       /\ client_fds' = [i \in Slot |->
            IF First(i, {j \in Slot : client_fds[j] = NoFd}) THEN f ELSE client_fds[i]]
  /\ backlog' = Tail(backlog)
  /\ pc' = "receive"
  /\ UNCHANGED <<rset, cursor, session_list, sigchld_pending, proc, inbox, cl>>

AcceptFails ==
  /\ pc = "accept"
  /\ TableFull
  /\ pc' = "receive"
  /\ UNCHANGED <<rset, cursor, client_fds, session_list, sigchld_pending,
                 file, proc, backlog, inbox, cl>>

-----------------------------------------------------------------------------
(* server_receive, once for every slot whose descriptor is in rset. *)

Pending == {i \in cursor .. MaxClients : client_fds[i] \in rset}
Turn(i) == pc = "receive" /\ First(i, Pending)
Sender(i) == file[client_fds[i]]
Received(i, type) ==
  /\ Turn(i)
  /\ Sender(i) \in Client
  /\ inbox[Sender(i)] # <<>>
  /\ Head(inbox[Sender(i)]).type = type
Argument(i) == Head(inbox[Sender(i)]).arg

(* server_receive returned 1: on to the next slot, the connection stays. *)
NextSlot(i) ==
  /\ cursor' = i + 1
  /\ inbox' = [inbox EXCEPT ![Sender(i)] = Tail(@)]
  /\ UNCHANGED <<pc, rset, client_fds, sigchld_pending, backlog>>

(* server_receive returned -1: server_loop closes the connection.  "fs"    *)
(* are the descriptors server_receive closed itself.                       *)
HangUp(i, fs) ==
  /\ cursor' = i + 1
  /\ file' = Close(fs \cup {client_fds[i]}, file)
  /\ inbox' = Discard(fs \cup {client_fds[i]}, inbox)
  /\ client_fds' = [client_fds EXCEPT ![i] = NoFd]
  /\ UNCHANGED <<pc, rset, sigchld_pending, backlog>>

(* The header cannot be read: the client is gone, or the number in the     *)
(* slot names no file any more, or it names a PTY master by now, whose     *)
(* output gives a length no malloc grants.  (The read from the PTY blocks  *)
(* until the shell printed 16 bytes; that time is not modelled.)           *)
ReceiveFails(i) ==
  /\ Turn(i)
  /\ \/ Sender(i) \in Client /\ inbox[Sender(i)] = <<>> /\ Dead(Sender(i))
     \/ Sender(i) \notin Client
  /\ HangUp(i, {})
  /\ UNCHANGED <<session_list, proc, cl>>

(* Answering a client that is gone raises SIGPIPE, which nobody handles. *)
PaneLimit(i) ==
  \E k \in WithClientFd(session_list, client_fds[i]) :
    First(k, WithClientFd(session_list, client_fds[i]))
      /\ PaneCount(session_list[k]) >= MaxPanes
BrokenPipe(i) ==
  /\ \/ Received(i, "LIST")
     \/ Received(i, "ATTACH")
     \/ Received(i, "COMMAND") /\ ~PaneLimit(i)
  /\ Dead(Sender(i))
  /\ Stop
  /\ UNCHANGED <<proc, cl>>

ListSessions(i) ==
  /\ Received(i, "LIST")
  /\ ~Dead(Sender(i))
  /\ cl' = [cl EXCEPT ![Sender(i)] = Gone]
  /\ HangUp(i, {})
  /\ UNCHANGED <<session_list, proc>>

(* MSG_DETACHKILL: the shells get SIGKILL, the masters and the connection  *)
(* of the session are closed - by number, whatever the numbers name now.   *)
KillTarget(i, k) ==
  /\ First(k, WithId(session_list, Argument(i)))
  /\ PaneCount(session_list[k]) > 0
ClosedByKill(s) == MasterNumbers(s) \cup ({s.client_fd} \ {NoFd})
NoSignal(s) == proc               \* variant: kill is forgotten
Doom(s) == [p \in Pid |-> IF p \in Shells(s) /\ proc[p] = "live"
                            THEN "doomed" ELSE proc[p]]

KillSession(i) ==
  /\ Received(i, "KILL")
  /\ \E k \in 1 .. Len(session_list) :
       LET s == session_list[k]
           answered == client_fds[i] \notin ClosedByKill(s) IN
       /\ KillTarget(i, k)
       /\ proc' = Doom(s)
       /\ \/ /\ answered /\ Dead(Sender(i))                \* SIGPIPE
             /\ Stop
             /\ UNCHANGED cl
          \/ /\ answered => ~Dead(Sender(i))
             /\ session_list' = ListDel(session_list, k)
             /\ cl' = IF answered THEN [cl EXCEPT ![Sender(i)] = Gone] ELSE cl
             /\ HangUp(i, ClosedByKill(s))

KillUnknown(i) ==
  /\ Received(i, "KILL")
  /\ ~\E k \in 1 .. Len(session_list) : KillTarget(i, k)
  /\ \/ /\ Dead(Sender(i))
        /\ Stop
        /\ UNCHANGED <<proc, cl>>
     \/ /\ ~Dead(Sender(i))
        /\ cl' = [cl EXCEPT ![Sender(i)] = Gone]
        /\ HangUp(i, {})
        /\ UNCHANGED <<session_list, proc>>

Associated(i) == Associate(session_list, client_fds[i])
Current(i, k) == First(k, WithClientFd(Associated(i), client_fds[i]))

Resize(i) ==
  /\ Received(i, "RESIZE")
  /\ session_list' = Associated(i)
  /\ NextSlot(i)
  /\ UNCHANGED <<file, proc, cl>>

(* MSG_COMMAND "new-session" or "pane-split": a new PTY and its shell.  At *)
(* the pane limit the message is dropped without an answer.                *)
SpawnPane(i) ==
  /\ Received(i, "COMMAND")
  /\ ~Dead(Sender(i))
  /\ \E k \in 1 .. Len(Associated(i)), p \in Pid, g \in Fd :
       /\ Current(i, k)
       /\ PaneCount(Associated(i)[k]) < MaxPanes
       /\ LowestFree(g)
       /\ proc[p] = "none"
       /\ file' = [file EXCEPT ![g] = p]
       /\ proc' = [proc EXCEPT ![p] = "live"]
       /\ session_list' = [Associated(i) EXCEPT
            ![k].master_fds = Append(@, g), ![k].pane_pids = Append(@, p)]
       /\ cl' = [cl EXCEPT ![Sender(i)].st = "run",
                           ![Sender(i)].panes = Append(@, p)]
  /\ NextSlot(i)

SpawnRefused(i) ==
  /\ Received(i, "COMMAND")
  /\ PaneLimit(i)
  /\ session_list' = Associated(i)
  /\ NextSlot(i)
  /\ UNCHANGED <<file, proc, cl>>

SpawnFails(i) ==               \* posix_openpt or fork fails: _exit
  /\ Received(i, "COMMAND")
  /\ ~Dead(Sender(i))
  /\ ~PaneLimit(i)
  /\ TableFull
  /\ Stop
  /\ UNCHANGED <<proc, cl>>

Exited(i) ==
  /\ Received(i, "EXITED")
  /\ session_list' = Associated(i)
  /\ HangUp(i, {})
  /\ UNCHANGED <<proc, cl>>

Detach(i) ==
  /\ Received(i, "DETACH")
  /\ \E k \in 1 .. Len(Associated(i)) :
       /\ Current(i, k)
       /\ session_list' = [Associated(i) EXCEPT ![k].detached = TRUE]
  /\ NextSlot(i)
  /\ UNCHANGED <<file, proc, cl>>

(* The daemon sends every master that is still open, in pane order, and    *)
(* the saved screens.  A client that receives no pane ends.                *)
AllButLast(s) ==                  \* variant: off by one
  {j \in 1 .. (Len(s.master_fds) - 1) : IsOpen(s.master_fds[j])}
OpenPanes(s) == {j \in 1 .. Len(s.master_fds) : IsOpen(s.master_fds[j])}
InPaneOrder(e) == \A m, n \in DOMAIN e : m < n => e[m] < e[n]
AnyTarget(i, k) ==                \* variant: "detached" is not tested
  First(k, WithId(Associated(i), Argument(i)))
AttachTarget(i, k) ==
  First(k, WithId(Associated(i), Argument(i))) /\ Associated(i)[k].detached

AttachWithoutFd(i, k) ==          \* variant: client_fd is not stored
  LET s == Associated(i)[k] IN
  /\ AttachTarget(i, k)
  /\ session_list' = [Associated(i) EXCEPT ![k].detached = FALSE]
  /\ \E e \in [1 .. Cardinality(OpenPanes(s)) -> OpenPanes(s)] :
       /\ InPaneOrder(e)
       /\ cl' = [cl EXCEPT ![Sender(i)] =
            IF OpenPanes(s) = {} THEN Gone
            ELSE [st |-> "run", out |-> <<>>,
                  panes |-> [n \in DOMAIN e |-> file[s.master_fds[e[n]]]]]]
AttachGranted(i, k) ==
  LET s == Associated(i)[k] IN
  /\ AttachTarget(i, k)
  /\ session_list' = [Associated(i) EXCEPT
       ![k].client_fd = client_fds[i],
       ![k].detached = FALSE,
       ![k].grid_data = [n \in Pane |-> IF n <= PaneCount(s) THEN None ELSE @[n]]]
  /\ \E e \in [1 .. Cardinality(OpenPanes(s)) -> OpenPanes(s)] :
       /\ InPaneOrder(e)
       /\ cl' = [cl EXCEPT ![Sender(i)] =
            IF OpenPanes(s) = {} THEN Gone
            ELSE [st |-> "run", out |-> <<>>,
                  panes |-> [n \in DOMAIN e |-> file[s.master_fds[e[n]]]]]]

Attach(i) ==
  /\ Received(i, "ATTACH")
  /\ ~Dead(Sender(i))
  /\ \E k \in 1 .. Len(Associated(i)) : AttachGranted(i, k)
  /\ NextSlot(i)
  /\ UNCHANGED <<file, proc>>

RefusedSilently(i) ==             \* variant: the failure mark is not sent
  /\ Received(i, "ATTACH")
  /\ ~Dead(Sender(i))
  /\ ~\E k \in 1 .. Len(Associated(i)) : AttachTarget(i, k)
  /\ session_list' = Associated(i)
  /\ NextSlot(i)
  /\ UNCHANGED <<file, proc, cl>>
AttachRefused(i) ==
  /\ Received(i, "ATTACH")
  /\ ~Dead(Sender(i))
  /\ ~\E k \in 1 .. Len(Associated(i)) : AttachTarget(i, k)
  /\ session_list' = Associated(i)
  /\ cl' = [cl EXCEPT ![Sender(i)] = Gone]
  /\ NextSlot(i)
  /\ UNCHANGED <<file, proc>>

SaveGrid(i) ==
  /\ Received(i, "GRID_SAVE")
  /\ \E k \in 1 .. Len(Associated(i)) :
       /\ Current(i, k)
       /\ session_list' =
            IF Argument(i) \in Pane
            THEN [Associated(i) EXCEPT
                    ![k].grid_data[Argument(i)] = Head(inbox[Sender(i)]).screen]
            ELSE Associated(i)
  /\ NextSlot(i)
  /\ UNCHANGED <<file, proc, cl>>

ReceiveDone ==
  /\ pc = "receive"
  /\ Pending = {}
  /\ pc' = "sweep" /\ rset' = {} /\ cursor' = 1
  /\ UNCHANGED <<client_fds, session_list, sigchld_pending,
                 file, proc, backlog, inbox, cl>>

-----------------------------------------------------------------------------
(* server_loop: the sessions that were detached, the shells that exited. *)

ClearSlot(f) ==
  [i \in Slot |-> IF f # NoFd /\ First(i, {j \in Slot : client_fds[j] = f})
                    THEN NoFd ELSE client_fds[i]]

ToSweep == {k \in 1 .. Len(session_list) :
              session_list[k].detached /\ session_list[k].client_fd # NoFd}

SweepWithoutClose ==   \* variant: the slot is cleared, the connection not closed
  /\ pc = "sweep"
  /\ \E k \in ToSweep :
       LET f == session_list[k].client_fd IN
       /\ First(k, ToSweep)
       /\ client_fds' = ClearSlot(f)
       /\ session_list' = [session_list EXCEPT ![k].client_fd = NoFd]
  /\ UNCHANGED <<pc, rset, cursor, sigchld_pending, file, inbox, proc, backlog, cl>>
Sweep ==
  /\ pc = "sweep"
  /\ \E k \in ToSweep :
       LET f == session_list[k].client_fd IN
       /\ First(k, ToSweep)
       /\ client_fds' = ClearSlot(f)
       /\ file' = Close({f}, file)
       /\ inbox' = Discard({f}, inbox)
       /\ session_list' = [session_list EXCEPT ![k].client_fd = NoFd]
  /\ UNCHANGED <<pc, rset, cursor, sigchld_pending, proc, backlog, cl>>

SweepDone ==
  /\ pc = "sweep"
  /\ ToSweep = {}
  /\ pc' = IF sigchld_pending THEN "reap" ELSE "setup"
  /\ sigchld_pending' = FALSE
  /\ UNCHANGED <<rset, cursor, client_fds, session_list,
                 file, proc, backlog, inbox, cl>>

(* waitpid returned p.  Its pane j of session k loses its master; with its *)
(* last shell the session loses its client too.                            *)
ShellOf(p, k, j) ==
  /\ k \in 1 .. Len(session_list)
  /\ j \in 1 .. Len(session_list[k].pane_pids)
  /\ session_list[k].pane_pids[j] = p
WithoutPane(s, j) == [s EXCEPT !.master_fds[j] = NoFd, !.pane_pids[j] = None]
StillListed(s) == [s EXCEPT !.client_fd = NoFd]    \* variant: no child_exited
Ended(s) == [s EXCEPT !.child_exited = TRUE, !.client_fd = NoFd]

EndAtFirstExit(p, k, j) ==        \* variant: the other panes are not looked at
  LET s == session_list[k]
      fs == {s.master_fds[j], s.client_fd} IN
  /\ ShellOf(p, k, j)
  /\ session_list' = [session_list EXCEPT ![k] = Ended(WithoutPane(s, j))]
  /\ client_fds' = ClearSlot(s.client_fd)
  /\ file' = Close(fs, file)
  /\ inbox' = Discard(fs, inbox)
ReapPane(p, k, j) ==
  LET s == session_list[k]
      last == Shells(WithoutPane(s, j)) = {}
      hung == IF last THEN s.client_fd ELSE NoFd
      fs == {s.master_fds[j], hung} IN
  /\ ShellOf(p, k, j)
  /\ session_list' = [session_list EXCEPT ![k] =
       IF last THEN Ended(WithoutPane(s, j)) ELSE WithoutPane(s, j)]
  /\ client_fds' = ClearSlot(hung)
  /\ file' = Close(fs, file)
  /\ inbox' = Discard(fs, inbox)

Reap(p) ==
  /\ pc = "reap"
  /\ proc[p] = "zombie"
  /\ proc' = [proc EXCEPT ![p] = "reaped"]
  /\ \/ /\ ~\E k \in 1 .. Len(session_list), j \in Pane : ShellOf(p, k, j)
        /\ UNCHANGED <<client_fds, session_list, file, inbox>>
     \/ \E k \in 1 .. Len(session_list), j \in Pane : ReapPane(p, k, j)
  /\ UNCHANGED <<pc, rset, cursor, sigchld_pending, backlog, cl>>

ReapOnce ==                       \* variant: "if" for "while" around waitpid
  /\ pc = "reap"
  /\ pc' = "clean"
  /\ UNCHANGED <<rset, cursor, client_fds, session_list, sigchld_pending,
                 file, proc, backlog, inbox, cl>>
ReapDone ==
  /\ pc = "reap"
  /\ \A p \in Pid : proc[p] # "zombie"
  /\ pc' = "clean"
  /\ UNCHANGED <<rset, cursor, client_fds, session_list, sigchld_pending,
                 file, proc, backlog, inbox, cl>>

ToClean == {k \in 1 .. Len(session_list) : session_list[k].child_exited}

Clean ==
  /\ pc = "clean"
  /\ \E k \in ToClean :
       /\ First(k, ToClean)
       /\ session_list' = ListDel(session_list, k)
  /\ UNCHANGED <<pc, rset, cursor, client_fds, sigchld_pending,
                 file, proc, backlog, inbox, cl>>

CleanDone ==
  /\ pc = "clean"
  /\ ToClean = {}
  /\ pc' = "setup"
  /\ UNCHANGED <<rset, cursor, client_fds, session_list, sigchld_pending,
                 file, proc, backlog, inbox, cl>>

-----------------------------------------------------------------------------
(* The shells.  SIGCHLD sets the flag and interrupts select (no            *)
(* SA_RESTART); before or after select it only sets the flag.              *)
ShellExit(p) ==
  /\ proc[p] \in {"live", "doomed"}
  /\ proc' = [proc EXCEPT ![p] = "zombie"]
  /\ sigchld_pending' = (pc # "down")
  /\ pc' = IF pc = "select" THEN "sweep" ELSE pc
  /\ UNCHANGED <<rset, cursor, client_fds, session_list, file, backlog, inbox, cl>>

-----------------------------------------------------------------------------
(* The clients. *)

(* Bound: a user asks for a new shell only while some Pid is left for it,  *)
(* or none is needed as the session is full.                               *)
SpawnBound ==
  Cardinality({c \in Client : cl[c].st = "spawn"})
    < Cardinality({p \in Pid : proc[p] = "none"})

Start(c, st, out) ==
  /\ cl[c].st = "off"
  /\ pc # "down"
  /\ backlog' = Append(backlog, c)
  /\ cl' = [cl EXCEPT ![c] = [st |-> st, panes |-> <<>>, out |-> out]]
  /\ UNCHANGED <<server, sigchld_pending, file, proc, inbox>>

StartNew(c) ==
  /\ "new" \in Roles
  /\ SpawnBound
  /\ Start(c, "spawn", <<Message("RESIZE", 0), Message("COMMAND", 0)>>)
StartAttach(c) ==
  /\ "attach" \in Roles
  /\ \E id \in 0 .. MaxId : Start(c, "wait", <<Message("ATTACH", id)>>)
StartList(c) ==
  /\ "list" \in Roles
  /\ Start(c, "wait", <<Message("LIST", 0)>>)
StartKill(c) ==
  /\ "kill" \in Roles
  /\ \E id \in 0 .. MaxId : Start(c, "wait", <<Message("KILL", id)>>)

(* send_server writes the next message; a client in "leave" exits after    *)
(* its last one.  Writing to a closed connection kills the client.         *)
Send(c) ==
  /\ cl[c].out # <<>>
  /\ InService(c)
  /\ inbox' = [inbox EXCEPT ![c] = Append(@, Head(cl[c].out))]
  /\ cl' = [cl EXCEPT ![c] =
       IF cl[c].st = "leave" /\ Len(cl[c].out) = 1 THEN Gone
       ELSE [cl[c] EXCEPT !.out = Tail(@)]]
  /\ UNCHANGED <<server, sigchld_pending, file, proc, backlog>>

(* The connection was closed by the daemon: a client that waits for an     *)
(* answer, sits in client_loop, or still has to write ends.                *)
ServerEof(c) ==
  /\ cl[c].st \notin {"off", "gone"}
  /\ ~InService(c)
  /\ cl' = [cl EXCEPT ![c] = Gone]
  /\ UNCHANGED <<server, sigchld_pending, file, proc, backlog, inbox>>

PaneSplit(c) ==
  /\ cl[c].st = "run"
  /\ SpawnBound \/ Len(cl[c].panes) = MaxPanes
  /\ cl' = [cl EXCEPT ![c].st = "spawn",
              ![c].out = <<Message("RESIZE", 0), Message("COMMAND", 0)>>]
  /\ UNCHANGED <<server, sigchld_pending, file, proc, backlog, inbox>>

(* act_detach: the screens of the panes on display, then DETACH; client_main *)
(* adds EXITED.                                                            *)
Displayed(c) == {j \in 1 .. Len(cl[c].panes) : cl[c].panes[j] # None}
DetachKey(c) ==
  /\ cl[c].st = "run"
  /\ \E e \in [1 .. Cardinality(Displayed(c)) -> Displayed(c)] :
       /\ InPaneOrder(e)
       /\ cl' = [cl EXCEPT ![c].st = "leave",
                   ![c].out = [n \in DOMAIN e |-> GridSave(e[n], cl[c].panes[e[n]])]
                                \o <<Message("DETACH", 0), Message("EXITED", 0)>>]
  /\ UNCHANGED <<server, sigchld_pending, file, proc, backlog, inbox>>

(* A pane reads EOF: it is closed; after the last one the client leaves. *)
PaneEof(c) ==
  /\ cl[c].st = "run"
  /\ \E j \in 1 .. Len(cl[c].panes) :
       /\ cl[c].panes[j] \in Pid
       /\ proc[cl[c].panes[j]] \in {"zombie", "reaped"}
       /\ cl' = [cl EXCEPT ![c] =
            IF Displayed(c) = {j}
            THEN [st |-> "leave", panes |-> <<>>, out |-> <<Message("EXITED", 0)>>]
            ELSE [cl[c] EXCEPT !.panes[j] = None]]
  /\ UNCHANGED <<server, sigchld_pending, file, proc, backlog, inbox>>

Die(c) ==
  /\ MayDie
  /\ cl[c].st \notin {"off", "gone"}
  /\ cl' = [cl EXCEPT ![c] = Gone]
  /\ UNCHANGED <<server, sigchld_pending, file, proc, backlog, inbox>>

-----------------------------------------------------------------------------
Receive(i) ==
  \/ ReceiveFails(i) \/ BrokenPipe(i) \/ ListSessions(i)
  \/ KillSession(i) \/ KillUnknown(i) \/ Resize(i)
  \/ SpawnPane(i) \/ SpawnRefused(i) \/ SpawnFails(i)
  \/ Exited(i) \/ Detach(i) \/ Attach(i) \/ AttachRefused(i) \/ SaveGrid(i)

ServerStep ==
  \/ EnterSelect \/ SelectFails \/ SelectReturns \/ Accept \/ AcceptFails
  \/ \E i \in Slot : Receive(i)
  \/ ReceiveDone \/ Sweep \/ SweepDone
  \/ \E p \in Pid : Reap(p)
  \/ ReapDone \/ Clean \/ CleanDone

ClientStep(c) ==
  \/ StartNew(c) \/ StartAttach(c) \/ StartList(c) \/ StartKill(c)
  \/ Send(c) \/ ServerEof(c) \/ PaneSplit(c) \/ DetachKey(c) \/ PaneEof(c)
  \/ Die(c)

Next ==
  \/ ServerStep
  \/ \E p \in Pid : ShellExit(p)
  \/ \E c \in Client : ClientStep(c)

(* The daemon runs whenever it is not blocked in select; a client goes on  *)
(* writing, and notices a closed connection or pane, because its loop      *)
(* selects on them; SIGKILL cannot be ignored.  Nothing makes a user type, *)
(* a live shell exit or a client die.                                      *)
Fairness ==
  /\ WF_vars(ServerStep)
  /\ \A c \in Client : WF_vars(Send(c)) /\ WF_vars(ServerEof(c)) /\ WF_vars(PaneEof(c))
  /\ \A p \in Pid : WF_vars(proc[p] = "doomed" /\ ShellExit(p))

Spec == Init /\ [][Next]_vars
LiveSpec == Spec /\ Fairness

-----------------------------------------------------------------------------
(* Properties. *)

(* Every variable has its type; read_fds and the cursor stay within the    *)
(* descriptors and slots there are.                                        *)
TypeOK ==
  /\ pc \in {"setup", "select", "accept", "receive", "sweep", "reap", "clean", "down"}
  /\ rset \in SUBSET Fd
  /\ cursor \in 1 .. (MaxClients + 1)
  /\ client_fds \in [Slot -> FdOrNone]
  /\ session_list \in Seq(Session)
  /\ sigchld_pending \in BOOLEAN
  /\ file \in [Fd -> OpenFile \cup {None}]
  /\ proc \in [Pid -> {"none", "live", "doomed", "zombie", "reaped"}]
  /\ backlog \in Seq(Client)
  /\ inbox \in [Client -> Seq(Msg)]
  /\ cl \in [Client -> ClientState]

(* No two slots of client_fds name the same connection, although numbers   *)
(* are closed and reused all the time (server.c:416-427, 434-437,          *)
(* 442-455): a message is never read for two clients.                      *)
SlotsDistinct ==
  \A i, j \in Slot : client_fds[i] = client_fds[j] /\ i # j => client_fds[i] = NoFd

(* The session ids grow along the list, so an id names one session, though *)
(* a new id is only "last id + 1" (server.c:198-205) and sessions leave    *)
(* from anywhere in the list.                                              *)
SessionIdsIncrease ==
  \A j, k \in 1 .. Len(session_list) :
    j < k => session_list[j].id < session_list[k].id

(* No exit is forgotten: while a shell waits to be reaped the flag is set, *)
(* or the reaping loop runs - although signals coalesce and arrive between *)
(* any two steps, and the flag is cleared before waitpid (server.c:44-50,  *)
(* 462-466).                                                               *)
SignalKept ==
  (\E p \in Pid : proc[p] = "zombie") => sigchld_pending \/ pc \in {"reap", "down"}

(* What makes them inductive:     accept is called when a connection waits, *)
(* and select, and so accept, is reached only when every number in         *)
(* client_fds is open - the number accept gets is in no slot.              *)
AcceptHasConnection == pc = "accept" => backlog # <<>>
SlotsOpen == pc \in {"select", "accept"} => \A f \in Watched : IsOpen(f)
IInv ==
  /\ TypeOK
  /\ AcceptHasConnection
  /\ SlotsOpen
  /\ SlotsDistinct
  /\ SessionIdsIncrease
  /\ SignalKept

(* No running shell is lost: while the daemon lives, every shell it        *)
(* started is a pane of exactly one session, until someone kills it.       *)
LiveShellsTracked ==
  pc # "down" =>
    \A p \in Pid : proc[p] = "live" =>
      \E k \in 1 .. Len(session_list) : \E j \in 1 .. Len(session_list[k].pane_pids) :
        /\ ShellOf(p, k, j)
        /\ \A k2 \in 1 .. Len(session_list), j2 \in Pane :
             ShellOf(p, k2, j2) => k2 = k /\ j2 = j

(* When the daemon goes back to select, every session in the list that     *)
(* ever had a pane still has a shell that was not reaped, and a detached   *)
(* session has let go of its client's number (server.c:442-518).           *)
ListIsCurrent ==
  pc \in {"setup", "select"} =>
    \A k \in 1 .. Len(session_list) :
      LET s == session_list[k] IN
      /\ PaneCount(s) > 0 => Shells(s) # {}
      /\ ~s.child_exited
      /\ s.detached => s.client_fd = NoFd

(* Every pane whose shell was not reaped still has its own PTY behind the  *)
(* number stored for it (server.h:41, "one PTY master per pane").          *)
MastersIntact ==
  \A k \in 1 .. Len(session_list) :
    \A j \in 1 .. Len(session_list[k].pane_pids) :
      LET s == session_list[k] IN
      s.pane_pids[j] # None =>
        /\ s.master_fds[j] \in Fd
        /\ file[s.master_fds[j]] = s.pane_pids[j]

(* One terminal, one client: as long as the numbers are intact, no two     *)
(* clients with an open connection read the PTY of the same listed shell - *)
(* across detach, attach, and the loss of clients (server.c:283-341).      *)
Reads(c, p) ==
  /\ cl[c].st \in {"run", "spawn"}
  /\ \E f \in Fd : file[f] = c
  /\ \E j \in 1 .. Len(cl[c].panes) : cl[c].panes[j] = p
AttachExclusive ==
  MastersIntact =>
    \A k \in 1 .. Len(session_list) :
      \A p \in Shells(session_list[k]) : \A c, d \in Client :
        Reads(c, p) /\ Reads(d, p) => c = d

(* A client that gets to run by attaching has every pane of one session    *)
(* whose shell was not reaped, as long as the numbers are intact           *)
(* (server.c:292-341, client.c:581-626).                                   *)
AttachGetsAllPanes ==
  [][ MastersIntact => \A c \in Client :
        (cl[c].st = "wait" /\ cl'[c].st = "run") =>
          \E k \in 1 .. Len(session_list) :
            /\ session_list[k].detached
            /\ ~session_list'[k].detached
            /\ session_list'[k].client_fd \in {f \in Fd : file[f] = c}
            /\ \A p \in Shells(session_list[k]) :
                 \E j \in 1 .. Len(cl'[c].panes) : cl'[c].panes[j] = p ]_vars

(* Every request is answered, or its connection closed, or refused because *)
(* the session is at its pane limit: SpawnRefused answers nothing and      *)
(* act_pane_split waits in recv_fd for ever (server.c:216-220,             *)
(* client.c:334).                                                          *)
AtPaneLimit(c) ==
  \E f \in Fd, k \in 1 .. Len(session_list) :
    /\ file[f] = c
    /\ session_list[k].client_fd = f
    /\ PaneCount(session_list[k]) >= MaxPanes
RequestAnswered ==
  \A c \in Client :
    cl[c].st \in {"wait", "spawn"} ~> (cl[c].st \notin {"wait", "spawn"} \/ AtPaneLimit(c))

(* No connection leaks: the daemon closes its end for every client that is *)
(* gone, however it went (server.c:434-437, 442-455, 494-503).             *)
ConnectionsReleased ==
  \A c \in Client : cl[c].st = "gone" ~> \A f \in Fd : file[f] # c

(* A shell that exited is reaped, or the daemon sleeps in select with      *)
(* nothing to read and the flag still set, so that whatever wakes it next  *)
(* makes it reap: nowhere else does an exit go unnoticed (server.c:376,    *)
(* 462-510).                                                               *)
Idle == pc = "select" /\ backlog = <<>> /\ \A f \in Watched : ~MustBeReady(f)
ExitNoticedUnlessIdle ==
  \A p \in Pid : proc[p] = "zombie" ~>
    (proc[p] = "reaped" \/ pc = "down" \/ (Idle /\ sigchld_pending))

-----------------------------------------------------------------------------
(* What the comments of the code promise and the daemon does not keep;     *)
(* README.md tells each story.                                             *)

(* "-k <id>: Kill session by id" (i18n.c:16): killing one session must not *)
(* take the daemon, and with it every other session, down.                 *)
KillSparesOtherSessions ==
  [][ pc' = "down" =>
        \A k \in 1 .. Len(session_list) : session_list[k].child_exited \/
          \A p \in Shells(session_list[k]) : proc[p] # "live" ]_vars
=============================================================================
