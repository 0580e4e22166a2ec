------------------------------- MODULE Attach -------------------------------
(***************************************************************************)
(* The bytes of an attach: what the daemon writes to answer it             *)
(* (src/server.c, MSG_DETACH with an id; src/util.c, send_fd) and how the  *)
(* client takes them from the connection (src/client.c, client_main;       *)
(* src/util.c, recv_fd).  Module Server has the attach as one step; here   *)
(* are the writes and reads it consists of, whose boundaries nothing but   *)
(* their lengths keeps together.                                           *)
(*                                                                         *)
(* The bytes of the answer are numbered from 0.  A byte is a number below  *)
(* 256; that of send_fd is 0 and carries a master: it is 256 * (n + 1)     *)
(* here for that of the session's pane n.  A screen is cut down to the id  *)
(* of its pane and a word naming the pane it shows.                        *)
(***************************************************************************)
EXTENDS Integers, Sequences, FiniteSets

(* Panes a session may have; MAX_PANES is 64, and one byte holds a pane.   *)
CONSTANT MaxPanes
ASSUME MaxPanesAssumption == MaxPanes \in 1 .. 127

VARIABLES
  session,  \* the target: see Sessions
  written,  \* bytes of the answer the daemon has written
  got,      \* bytes of it the client has read
  pc,       \* where client_main is
  count,    \* turns left in the loop it is in
  len,      \* gh.len
  total,    \* total_read
  panes,    \* for every pane of the client, the session's pane it holds
  screen    \* for every pane of the client, the pane its screen shows
vars == <<session, written, got, pc, count, len, total, panes, screen>>

-----------------------------------------------------------------------------
(* The daemon. *)

(* A session somebody may attach to has a shell that was not reaped; every *)
(* reaped one has its master closed.  A screen is there for each pane that *)
(* the client that detached last still had, or for none if it was detached *)
(* otherwise.  "open" lists the panes with a master, "saved" those with a  *)
(* screen.  Panes are numbered from 0; the attach is refused if there is   *)
(* no such session.                                                        *)
InPaneOrder(n) ==       \* some of the panes 0 .. n - 1
  UNION {{e \in [1 .. m -> 0 .. n - 1] : \A j, k \in 1 .. m : j < k => e[j] < e[k]}
           : m \in 0 .. n}
Sessions ==
  UNION {[pane_count : {n}, open : InPaneOrder(n) \ {<<>>}, saved : InPaneOrder(n),
          granted : BOOLEAN] : n \in 1 .. MaxPanes}

(* sendmsg refuses the number of a closed master and sends nothing.        *)
StopAtClosed(s) ==                 \* variant: the loop ends at the first failure
  SubSeq(s.open, 1, Cardinality({k \in 1 .. Len(s.open) : s.open[k] = k - 1}))
SendFds(s) == s.open
AllPanes(s) == s.pane_count        \* variant: panes without a screen count too
GridCount(s) == Len(s.saved)

(* Where the parts of the answer begin: pane_count, the masters,           *)
(* grid_count, the screens, each behind its header.                        *)
GridCountAt(s) == 4 + Len(SendFds(s))
GridsAt(s) == 4 + GridCountAt(s)
HeaderSize == 16
ScreenSize == 8
GridSize == HeaderSize + ScreenSize
Length(s) == IF s.granted THEN GridsAt(s) + GridSize * Len(s.saved) ELSE 4

MSG_GRID_SAVE == 308
WordByte(v, k) == IF k = 0 THEN v % 256 ELSE IF k = 1 THEN v \div 256 ELSE 0
Master(n) == 256 * (n + 1)
GridByte(n, k) ==       \* type, len, pane_id, the pane shown
  CASE k < 4 -> WordByte(MSG_GRID_SAVE, k)
    [] k = 8 -> ScreenSize
    [] k \in {16, 20} -> n
    [] OTHER -> 0
Grid(s, i) == (i - GridsAt(s)) \div GridSize + 1      \* byte i is in this one
GridOffset(s, i) == (i - GridsAt(s)) % GridSize
Answer(s, i) ==
  CASE i < 4 -> WordByte(IF s.granted THEN s.pane_count ELSE 0, i)
    [] i \in 4 .. (GridCountAt(s) - 1) -> Master(SendFds(s)[i - 3])
    [] i \in GridCountAt(s) .. (GridsAt(s) - 1) -> WordByte(GridCount(s), i - GridCountAt(s))
    [] OTHER -> GridByte(s.saved[Grid(s, i)], GridOffset(s, i))

Init ==
  /\ session \in Sessions
  /\ written = 0 /\ got = 0
  /\ pc = "pane_count" /\ count = 0 /\ len = 0 /\ total = 0
  /\ panes = <<>> /\ screen = <<>>

(* One write, from byte i; or part of it, when a screen waits for room.    *)
InScreen(s, i) == i >= GridsAt(s) /\ GridOffset(s, i) >= HeaderSize
WriteEnd(s, i) ==
  CASE i < 4 -> 4
    [] i \in 4 .. (GridCountAt(s) - 1) -> i + 1
    [] i \in GridCountAt(s) .. (GridsAt(s) - 1) -> GridsAt(s)
    [] InScreen(s, i) -> i + (GridSize - GridOffset(s, i))
    [] OTHER -> i + (HeaderSize - GridOffset(s, i))
ServerWrites ==
  /\ written < Length(session)
  /\ \E w \in (written + 1) .. WriteEnd(session, written) :
       /\ w = WriteEnd(session, written) \/ InScreen(session, written)
       /\ written' = w
  /\ UNCHANGED <<session, got, pc, count, len, total, panes, screen>>

-----------------------------------------------------------------------------
(* The client. *)

(* read takes what there is, at most n bytes, and waits if there is none.  *)
Got(n) == IF written - got < n THEN written - got ELSE n
Take(n) == written > got /\ got' = got + Got(n)

(* An int that was 0, of whose bytes the first n are read, from byte i on. *)
IntAt(i, n) ==
  LET Byte(k) == IF k < n THEN Answer(session, i + k) % 256 ELSE 0 IN
  Byte(0) + 256 * Byte(1) + 65536 * Byte(2) + 16777216 * Byte(3)

ReadPaneCount ==
  /\ pc = "pane_count" /\ Take(4)
  /\ count' = IntAt(got, Got(4))
  /\ pc' = IF count' = 0 THEN "refused" ELSE "fds"
  /\ UNCHANGED <<session, written, len, total, panes, screen>>

(* recv_fd; a byte without a descriptor is taken and makes no pane.        *)
AfterFd == IF count = 1 THEN "grid_count" ELSE "fds"
Unchecked ==                       \* variant: a pane whatever recv_fd returned
  /\ pc = "fds" /\ Take(1)
  /\ panes' = Append(panes, Answer(session, got) \div 256 - 1)
  /\ screen' = Append(screen, -1)
  /\ count' = count - 1
  /\ pc' = AfterFd
  /\ UNCHANGED <<session, written, len, total>>
RecvFd ==
  /\ pc = "fds" /\ Take(1)
  /\ \/ /\ Answer(session, got) >= 256
        /\ panes' = Append(panes, Answer(session, got) \div 256 - 1)
        /\ screen' = Append(screen, -1)
     \/ /\ Answer(session, got) < 256
        /\ UNCHANGED <<panes, screen>>
  /\ count' = count - 1
  /\ pc' = AfterFd
  /\ UNCHANGED <<session, written, len, total>>

ReadGridCount ==
  /\ pc = "grid_count" /\ Take(4)
  /\ count' = IntAt(got, Got(4))
  /\ pc' = IF count' = 0 THEN "loop" ELSE "header"
  /\ UNCHANGED <<session, written, len, total, panes, screen>>

(* Anything but a whole header of a screen costs a turn of the loop.       *)
NextGrid == count' = count - 1 /\ pc' = IF count = 1 THEN "loop" ELSE "header"
IsHeader == Got(HeaderSize) = HeaderSize /\ IntAt(got, 4) = MSG_GRID_SAVE
ReadHeader ==
  /\ pc = "header" /\ Take(HeaderSize)
  /\ \/ /\ IsHeader
        /\ pc' = "data" /\ len' = IntAt(got + 8, 4) /\ total' = 0
        /\ UNCHANGED count
     \/ /\ ~IsHeader
        /\ NextGrid
        /\ UNCHANGED <<len, total>>
  /\ UNCHANGED <<session, written, panes, screen>>

(* The whole screen, in as many reads as it takes; it goes to the pane of  *)
(* the client that has the id in it, if there is one.                      *)
Deserialize(i) ==
  screen' = [k \in DOMAIN screen |->
               IF k - 1 = IntAt(i, 4) THEN IntAt(i + 4, 4) ELSE screen[k]]
ReadOnce ==                        \* variant: no loop around read
  /\ pc = "data" /\ Take(len)
  /\ \/ Got(len) = len /\ Deserialize(got)
     \/ Got(len) < len /\ UNCHANGED screen
  /\ NextGrid
  /\ UNCHANGED <<session, written, len, total, panes>>
ReadData ==
  /\ pc = "data" /\ Take(len - total)
  /\ total' = total + Got(len - total)
  /\ \/ total' < len /\ UNCHANGED <<pc, count, screen>>
     \/ total' = len /\ Deserialize(got - total) /\ NextGrid
  /\ UNCHANGED <<session, written, len, panes>>

(* client_loop takes bytes nobody asked for one by one.                    *)
LoopRead ==
  /\ pc = "loop" /\ Take(1)
  /\ UNCHANGED <<session, written, pc, count, len, total, panes, screen>>

-----------------------------------------------------------------------------
Client == ReadPaneCount \/ RecvFd \/ ReadGridCount \/ ReadHeader \/ ReadData
Next == ServerWrites \/ Client \/ LoopRead
Spec == Init /\ [][Next]_vars
(* The daemon writes on, and the client reads on, as long as either can.   *)
LiveSpec == Spec /\ WF_vars(ServerWrites) /\ WF_vars(Client)

-----------------------------------------------------------------------------
(* Properties. *)

(* Types.                                                                  *)
TypeOK ==
  /\ session \in Sessions
  /\ written \in 0 .. Length(session) /\ got \in 0 .. written
  /\ pc \in {"pane_count", "fds", "grid_count", "header", "data", "loop", "refused"}
  /\ count \in Nat /\ len \in Nat /\ total \in Nat
  /\ panes \in Seq(0 .. MaxPanes - 1)
  /\ screen \in Seq(-1 .. MaxPanes - 1)
  /\ Len(panes) = Len(screen)

AllOpen == session.open = [k \in 1 .. session.pane_count |-> k - 1]
Attached == pc \in {"grid_count", "header", "data", "loop"}

(* Every shell of the session that was not reaped is in a pane once the    *)
(* descriptors were read, in the session's order and once, also if bytes   *)
(* for other panes were missing (server.c:296-298, client.c:607-626).      *)
NoShellLeftBehind == Attached => panes = session.open

(* In a session without a closed master the two sides stay in step: pane n *)
(* of the client is pane n of the session, no read waits for bytes that    *)
(* are never written, and when client_loop starts every saved screen is    *)
(* back in its own pane and no byte is left over, for any pace of writes   *)
(* and reads (server.c:293-328, client.c:583-683).                         *)
InStep ==
  AllOpen =>
    /\ \A k \in 1 .. Len(panes) : panes[k] = k - 1
    /\ \A k \in 1 .. Len(screen) : screen[k] \in {-1, k - 1}
    /\ pc \notin {"loop", "refused"} => got < Length(session)
    /\ pc = "loop" =>
         /\ got = Length(session)
         /\ \A k \in 1 .. Len(screen) :
              screen[k] = k - 1 <=> \E j \in 1 .. Len(session.saved) : session.saved[j] = k - 1

(* An attach to a session without a closed master comes to an end: no read *)
(* waits for bytes that were never sent.                                   *)
AttachEndsIfAllOpen == AllOpen ~> pc \in {"loop", "refused"}

-----------------------------------------------------------------------------
(* "-s <id>    Attach to detached session by id" (i18n.c:15): the attach   *)
(* ends, also if a pane was closed before.  It does not.                   *)
AttachEnds == <>(pc \in {"loop", "refused"})
=============================================================================
