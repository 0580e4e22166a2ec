------------------------- MODULE ServerAttachProofs -------------------------
(***************************************************************************)
(* Theorems about Server's handover of sessions: a shell has one client,   *)
(* and a client that attaches gets every pane.                             *)
(***************************************************************************)
EXTENDS ServerPaneProofs

-----------------------------------------------------------------------------
(* The conversation of a client in state st, whose bytes "in" the daemon   *)
(* has not read and which has still to write "out".  Only a client that    *)
(* waits for a pane has a COMMAND under way, only one that waits for an    *)
(* answer an ATTACH, and it is the last thing the client says; only a      *)
(* client that left has a DETACH under way.                                *)
Says(q, n, type) == n \in 1 .. Len(q) /\ q[n].type = type
TalkOf(st, in, out) ==
  /\ st = "off" => in = <<>> /\ out = <<>>
  /\ \A n : Says(in, n, "COMMAND") \/ Says(out, n, "COMMAND") => st \in {"spawn", "gone"}
  /\ \A n : Says(in, n, "ATTACH") \/ Says(out, n, "ATTACH") => st \in {"wait", "gone"}
  /\ \A n : Says(in, n, "DETACH") \/ Says(out, n, "DETACH") => st \in {"leave", "gone"}
  /\ st \in {"wait", "spawn"} => \A n :
       /\ Says(in, n, "COMMAND") \/ Says(in, n, "ATTACH") => n = Len(in) /\ out = <<>>
       /\ Says(out, n, "COMMAND") \/ Says(out, n, "ATTACH") => n = Len(out)
Talk == \A c \in Client : TalkOf(cl[c].st, inbox[c], cl[c].out)

(* A file has one number, and a connection is in the backlog once or open; *)
(* before that its client has no pane.  A shell that was not started is    *)
(* behind no number, and no client has its PTY.                            *)
Has(x, p) == \E j \in 1 .. Len(x.panes) : x.panes[j] = p
Single(tab) == \A f, g \in Fd : tab[f] = tab[g] /\ tab[f] # None => f = g
Waiting(tab, bl, cs) ==
  /\ \A m, n \in 1 .. Len(bl) : bl[m] = bl[n] => m = n
  /\ \A n \in 1 .. Len(bl) :
       /\ \A f \in Fd : tab[f] # bl[n]
       /\ cs[bl[n]].panes = <<>>
  /\ \A c \in Client : cs[c].st = "off" =>
       /\ \A f \in Fd : tab[f] # c
       /\ \A n \in 1 .. Len(bl) : bl[n] # c
       /\ cs[c].panes = <<>>
Unborn(tab, pr, cs) ==
  \A p \in Pid : pr[p] = "none" =>
    /\ \A f \in Fd : tab[f] # p
    /\ \A c \in Client : ~Has(cs[c], p)
Apart == Single(file) /\ Waiting(file, backlog, cl) /\ Unborn(file, proc, cl)

(* Of the sessions S, with the descriptor table tab and the clients cs:    *)
(* a pane that was closed has no number, and the client of a session that  *)
(* was detached, if its number still names one, has left.                  *)
Listing(sl) == {sl[k] : k \in 1 .. Len(sl)}
Closed(s) ==
  \A j \in 1 .. Len(s.pane_pids) : s.pane_pids[j] = None => s.master_fds[j] = NoFd
Left(s, tab, cs) ==
  s.detached /\ s.client_fd \in Fd /\ tab[s.client_fd] \in Client =>
    cs[tab[s.client_fd]].st \in {"leave", "gone"}

(* Whoever reads the PTY of a listed shell is the client of a session with *)
(* that shell - unless numbers went wrong: the PTY is behind the number of *)
(* another shell's pane, or behind no number at all.                       *)
Sees(tab, x, c, p) ==
  x.st \in {"run", "spawn"} /\ (\E f \in Fd : tab[f] = c) /\ Has(x, p)
Listed(S, p) == \E s \in S : p \in Shells(s)
Serves(s, tab, c) == ~s.detached /\ s.client_fd \in Fd /\ tab[s.client_fd] = c
Owner(S, tab, c, p) == \E s \in S : p \in Shells(s) /\ Serves(s, tab, c)
Holds(s, tab, p) ==
  \E j \in 1 .. Len(s.pane_pids) :
    /\ s.pane_pids[j] \notin {None, p}
    /\ s.master_fds[j] \in Fd /\ tab[s.master_fds[j]] = p
Stale(S, tab, p) == \E s \in S : Holds(s, tab, p)
Lost(tab, p) == \A f \in Fd : tab[f] # p
Reading(S, tab, cs) ==
  \A c \in Client, p \in Pid :
    Listed(S, p) /\ Sees(tab, cs[c], c, p) =>
      Owner(S, tab, c, p) \/ Stale(S, tab, p) \/ Lost(tab, p)

Held(S, tab, cs) ==
  /\ \A s \in S : Closed(s) /\ Left(s, tab, cs)
  /\ Reading(S, tab, cs)
Handover == Talk /\ Apart /\ Held(Listing(session_list), file, cl)

-----------------------------------------------------------------------------
(* What the steps do to the set of sessions. *)

LEMMA ListingAssociate ==
  ASSUME NEW sl \in Seq(Session), NEW f \in FdOrNone
  PROVE  /\ Listing(sl) \subseteq Listing(Associate(sl, f))
         /\ \A t \in Listing(Associate(sl, f)) :
              \/ t \in Listing(sl)
              \/ t.detached = FALSE /\ t.pane_pids = <<>>
<1>1. CASE WithClientFd(sl, f) # {}
  BY <1>1 DEF Associate
<1>2. CASE WithClientFd(sl, f) = {}
  <2> DEFINE new == NewSession(NextId(sl), f)
             al == Append(sl, new)
  <2>1. Associate(sl, f) = al
    BY <1>2 DEF Associate
  <2>2. new.pane_pids = <<>> /\ new.detached = FALSE
    BY DEF NewSession
  <2> HIDE DEF new
  <2>3. /\ Len(sl) \in Nat /\ Len(al) = Len(sl) + 1 /\ al[Len(sl) + 1] = new
        /\ \A m \in 1 .. Len(sl) : al[m] = sl[m]
    OBVIOUS
  <2> HIDE DEF al
  <2>4. \A m \in 1 .. Len(al) : m \in 1 .. Len(sl) \/ m = Len(sl) + 1
    BY <2>3
  <2>5. \A m \in 1 .. Len(sl) : m \in 1 .. Len(al)
    BY <2>3
  <2>6. QED
    BY <2>1, <2>2, <2>3, <2>4, <2>5 DEF Listing
<1>3. QED
  BY <1>1, <1>2

LEMMA ListingReplace ==
  ASSUME NEW sl \in Seq(Session), NEW k \in 1 .. Len(sl), NEW t \in Session
  PROVE  /\ t \in Listing([sl EXCEPT ![k] = t])
         /\ \A s \in Listing(sl) : s = sl[k] \/ s \in Listing([sl EXCEPT ![k] = t])
         /\ \A s \in Listing([sl EXCEPT ![k] = t]) : s = t \/ s \in Listing(sl)
<1> DEFINE new == [sl EXCEPT ![k] = t]
<1>1. /\ Len(new) = Len(sl)
      /\ \A m \in 1 .. Len(sl) : new[m] = IF m = k THEN t ELSE sl[m]
  BY UpdateType
<1> HIDE DEF new
<1>2. QED
  BY <1>1 DEF Listing, new

LEMMA ListingDel ==
  ASSUME NEW sl \in Seq(Session), NEW k \in 1 .. Len(sl)
  PROVE  /\ Listing(ListDel(sl, k)) \subseteq Listing(sl)
         /\ \A s \in Listing(sl) : s = sl[k] \/ s \in Listing(ListDel(sl, k))
<1> DEFINE tl == ListDel(sl, k)
<1>1. /\ Len(tl) = Len(sl) - 1
      /\ \A j \in 1 .. (Len(sl) - 1) : tl[j] = IF j < k THEN sl[j] ELSE sl[j + 1]
  BY ListDelType
<1> HIDE DEF tl
<1>2. Len(sl) \in Nat
  OBVIOUS
<1>3. \A j \in 1 .. Len(tl) : tl[j] \in Listing(sl)
  <2>1. \A j \in 1 .. Len(tl) : j \in 1 .. Len(sl) /\ j + 1 \in 1 .. Len(sl)
    BY <1>1, <1>2
  <2>2. QED
    BY <1>1, <2>1 DEF Listing
<1>4. ASSUME NEW m \in 1 .. Len(sl), m # k
      PROVE  sl[m] \in Listing(tl)
  <2>1. CASE m < k
    <3>1. m \in 1 .. Len(tl) /\ tl[m] = sl[m]
      BY <1>1, <1>2, <2>1
    <3>2. QED
      BY <3>1 DEF Listing
  <2>2. CASE m > k
    <3>1. m - 1 \in 1 .. Len(tl) /\ tl[m - 1] = sl[m]
      BY <1>1, <1>2, <2>2
    <3>2. QED
      BY <3>1 DEF Listing
  <2>3. QED
    BY <1>2, <1>4, <2>1, <2>2
<1>5. QED
  BY <1>3, <1>4 DEF Listing, tl

LEMMA NoShells ==
  ASSUME NEW s, s.pane_pids = <<>>
  PROVE  Shells(s) = {} /\ Closed(s) /\ \A tab, p : ~Holds(s, tab, p)
<1>1. Len(s.pane_pids) = 0
  OBVIOUS
<1>2. QED
  BY <1>1 DEF Shells, Closed, Holds

-----------------------------------------------------------------------------
(* Most steps open nothing: numbers are at most closed, and a client is    *)
(* the same, or reads less.                                                *)

Shrinks(tab, new) == \A f \in Fd : new[f] \in {tab[f], None}
Fades(x, y) ==
  /\ \A p \in Pid : Has(y, p) => Has(x, p)
  /\ x.panes = <<>> => y.panes = <<>>
  /\ y.st = "off" => x.st = "off"
  /\ y.st \in {"run", "spawn"} => x.st \in {"run", "spawn"}
  /\ x.st \in {"leave", "gone"} => y.st \in {"leave", "gone"}
Quiet ==
  /\ Shrinks(file, file')
  /\ \A c \in Client : Fades(cl[c], cl'[c])
  /\ backlog' \in {backlog, <<>>}
  /\ \A p \in Pid : proc'[p] = "none" => proc[p] = "none"

LEMMA FadesToGone == \A x : Fades(x, Gone)
<1>1. /\ Gone.panes = <<>> /\ Len(Gone.panes) = 0 /\ Gone.st = "gone"
  BY DEF Gone
<1>2. \A p : ~Has(Gone, p)
  BY <1>1 DEF Has
<1> HIDE DEF Gone
<1>3. QED
  BY <1>1, <1>2 DEF Fades

(* A client keeps its panes. *)
LEMMA FadesBySt ==
  ASSUME NEW x, NEW y, y.panes = x.panes,
         \/ y.st = x.st
         \/ x.st = "run" /\ y.st \in {"run", "spawn", "leave"}
  PROVE  Fades(x, y)
  BY DEF Fades, Has

LEMMA ShrinksByClosing ==
  ASSUME file \in [Fd -> OpenFile \cup {None}]
  PROVE  /\ Shrinks(file, file)
         /\ \A fs : Shrinks(file, Close(fs, file))
         /\ Shrinks(file, [f \in Fd |-> None])
  BY DEF Shrinks, Close

LEMMA QuietClient ==
  ASSUME TypeOK, NEW c \in Client, ClientStep(c), backlog' = backlog
  PROVE  Quiet
<1> USE DEF server
<1>1. cl \in [Client -> ClientState] /\ cl[c] \in ClientState
  BY DEF TypeOK
<1>2. UNCHANGED <<file, proc, backlog>>
  BY DEF ClientStep, StartNew, StartAttach, StartList, StartKill, Start,
     Send, ServerEof, PaneSplit, DetachKey, PaneEof, Die
<1>3. ASSUME NEW y, cl' = [cl EXCEPT ![c] = y], Fades(cl[c], y)
      PROVE  Quiet
  <2>1. \A d \in Client : Fades(cl[d], cl'[d])
    BY <1>1, <1>3 DEF Fades
  <2>2. Shrinks(file, file')
    BY <1>2 DEF Shrinks
  <2>3. QED
    BY <1>2, <2>1, <2>2 DEF Quiet
<1>4. ASSUME NEW st, NEW out, Start(c, st, out)
      PROVE  FALSE
  <2>1. backlog' = Append(backlog, c) /\ backlog \in Seq(Client)
    BY <1>4 DEF Start, TypeOK
  <2>2. Len(backlog') = Len(backlog) + 1 /\ Len(backlog) \in Nat
    BY <2>1
  <2>3. QED
    BY <2>2
<1>5. CASE Send(c)
  <2> DEFINE y == [cl[c] EXCEPT !.out = Tail(@)]
  <2>1. cl' = [cl EXCEPT ![c] = Gone] \/ cl' = [cl EXCEPT ![c] = y]
    BY <1>5 DEF Send
  <2>2. y.panes = cl[c].panes /\ y.st = cl[c].st
    BY <1>1 DEF ClientState
  <2> HIDE DEF y
  <2>3. Fades(cl[c], y)
    BY <2>2, FadesBySt
  <2>4. QED
    BY <1>3, <2>1, <2>3, FadesToGone
<1>6. CASE ServerEof(c) \/ Die(c)
  BY <1>3, <1>6, FadesToGone DEF ServerEof, Die
<1>7. CASE PaneSplit(c)
  <2> DEFINE out == <<Message("RESIZE", 0), Message("COMMAND", 0)>>
             y == [cl[c] EXCEPT !.st = "spawn", !.out = out]
  <2>1. cl' = [cl EXCEPT ![c].st = "spawn", ![c].out = out] /\ cl[c].st = "run"
    BY <1>7 DEF PaneSplit
  <2> HIDE DEF out
  <2>2. cl' = [cl EXCEPT ![c] = y]
    BY <1>1, <2>1 DEF ClientState
  <2>3. y.panes = cl[c].panes /\ y.st = "spawn"
    BY <1>1 DEF ClientState
  <2> HIDE DEF y
  <2>4. Fades(cl[c], y)
    BY <2>1, <2>3, FadesBySt
  <2>5. QED
    BY <1>3, <2>2, <2>4
<1>8. CASE DetachKey(c)
  <2>1. PICK out : cl' = [cl EXCEPT ![c].st = "leave", ![c].out = out]
    BY <1>8 DEF DetachKey
  <2> DEFINE y == [cl[c] EXCEPT !.st = "leave", !.out = out]
  <2>2. cl' = [cl EXCEPT ![c] = y]
    BY <1>1, <2>1 DEF ClientState
  <2>3. y.panes = cl[c].panes /\ y.st = "leave" /\ cl[c].st = "run"
    BY <1>1, <1>8 DEF ClientState, DetachKey
  <2> HIDE DEF y
  <2>4. Fades(cl[c], y)
    BY <2>3, FadesBySt
  <2>5. QED
    BY <1>3, <2>2, <2>4
<1>9. CASE PaneEof(c)
  <2>1. PICK j \in 1 .. Len(cl[c].panes) :
          cl' = [cl EXCEPT ![c] =
            IF Displayed(c) = {j}
            THEN [st |-> "leave", panes |-> <<>>, out |-> <<Message("EXITED", 0)>>]
            ELSE [cl[c] EXCEPT !.panes[j] = None]]
    BY <1>9 DEF PaneEof
  <2>2. cl[c].st = "run" /\ cl[c].panes \in Seq(OpenFile \cup {None})
    BY <1>1, <1>9 DEF PaneEof, ClientState
  <2>3. Fades(cl[c], [st |-> "leave", panes |-> <<>>, out |-> <<Message("EXITED", 0)>>])
    BY <2>2 DEF Fades, Has
  <2>4. Fades(cl[c], [cl[c] EXCEPT !.panes[j] = None])
    <3> DEFINE y == [cl[c] EXCEPT !.panes[j] = None]
    <3>1. y.st = "run" /\ y.panes = [cl[c].panes EXCEPT ![j] = None]
      BY <1>1, <2>2 DEF ClientState
    <3> HIDE DEF y
    <3>2. /\ Len(y.panes) = Len(cl[c].panes)
          /\ \A n \in 1 .. Len(cl[c].panes) :
               y.panes[n] = IF n = j THEN None ELSE cl[c].panes[n]
      BY <2>2, <3>1, UpdateType
    <3>3. \A p \in Pid : Has(y, p) => Has(cl[c], p)
      BY <3>2, NamesAssumption DEF Has
    <3>4. cl[c].panes # <<>>
      OBVIOUS
    <3>5. QED
      BY <2>2, <3>1, <3>3, <3>4 DEF Fades, y
  <2>5. QED
    BY <1>3, <2>1, <2>3, <2>4
<1>10. QED
  BY <1>4, <1>5, <1>6, <1>7, <1>8, <1>9
     DEF ClientStep, StartNew, StartAttach, StartList, StartKill

LEMMA QuietReceive ==
  ASSUME TypeOK, NEW i \in Slot, Receive(i), ~SpawnPane(i), ~Attach(i)
  PROVE  Quiet
<1>1. cl \in [Client -> ClientState] /\ file \in [Fd -> OpenFile \cup {None}]
  BY DEF TypeOK
<1>2. \/ cl' = cl
      \/ Sender(i) \in Client /\ cl' = [cl EXCEPT ![Sender(i)] = Gone]
  BY DEF Receive, ReceiveFails, BrokenPipe, ListSessions, KillSession, KillUnknown, Resize,
       SpawnRefused, SpawnFails, Exited, Detach, AttachRefused, SaveGrid, Received
<1>3. \A x : Fades(x, x)
  BY DEF Fades
<1>4. \A c \in Client : Fades(cl[c], cl'[c])
  BY <1>1, <1>2, <1>3, FadesToGone
<1>5. \/ Stop
      \/ \E fs : HangUp(i, fs)
      \/ NextSlot(i) /\ file' = file
  BY DEF Receive, ReceiveFails, BrokenPipe, ListSessions, KillSession, KillUnknown, Resize,
       SpawnRefused, SpawnFails, Exited, Detach, AttachRefused, SaveGrid
<1>6. Shrinks(file, file') /\ backlog' \in {backlog, <<>>}
  BY <1>1, <1>5, ShrinksByClosing DEF Stop, HangUp, NextSlot
<1>7. proc' = proc \/ \E s : proc' = Doom(s)
  BY DEF Receive, ReceiveFails, BrokenPipe, ListSessions, KillSession, KillUnknown, Resize,
       SpawnRefused, SpawnFails, Exited, Detach, AttachRefused, SaveGrid
<1>8. \A p \in Pid : proc'[p] = "none" => proc[p] = "none"
  BY <1>7 DEF Doom
<1>9. QED
  BY <1>4, <1>6, <1>8 DEF Quiet

LEMMA QuietStep ==
  ASSUME TypeOK, [Next]_vars
  PROVE  \/ Quiet
         \/ Accept
         \/ \E c \in Client : ClientStep(c) /\ backlog' # backlog
         \/ \E i \in Slot : SpawnPane(i) \/ Attach(i)
<1>0. file \in [Fd -> OpenFile \cup {None}] /\ proc \in [Pid -> ProcState]
  BY DEF TypeOK, ProcState
<1>1. \A x : Fades(x, x)
  BY DEF Fades
<1>2. ASSUME cl' = cl, backlog' \in {backlog, <<>>}, UNCHANGED proc, Shrinks(file, file')
      PROVE  Quiet
  BY <1>1, <1>2 DEF Quiet
<1>3. CASE \/ EnterSelect \/ SelectFails \/ SelectReturns \/ AcceptFails \/ ReceiveDone
           \/ Sweep \/ SweepDone \/ ReapDone \/ Clean \/ CleanDone \/ UNCHANGED vars
  <2>1. file' = file \/ (\E fs : file' = Close(fs, file)) \/ file' = [f \in Fd |-> None]
    BY <1>3 DEF EnterSelect, SelectFails, SelectReturns, AcceptFails, ReceiveDone,
         Sweep, SweepDone, ReapDone, Clean, CleanDone, Stop, vars
  <2>2. UNCHANGED <<cl, proc>> /\ backlog' \in {backlog, <<>>}
    BY <1>3 DEF EnterSelect, SelectFails, SelectReturns, AcceptFails, ReceiveDone,
         Sweep, SweepDone, ReapDone, Clean, CleanDone, Stop, vars
  <2>3. QED
    BY <1>0, <1>2, <2>1, <2>2, ShrinksByClosing
<1>4. ASSUME NEW p \in Pid, Reap(p) \/ ShellExit(p)
      PROVE  Quiet
  <2>1. /\ UNCHANGED <<cl, backlog>>
        /\ file' = file \/ \E fs : file' = Close(fs, file)
    BY <1>4 DEF Reap, ShellExit, ReapPane
  <2>2. \A q \in Pid : proc'[q] = "none" => proc[q] = "none"
    BY <1>0, <1>4 DEF Reap, ShellExit
  <2>3. Shrinks(file, file')
    BY <1>0, <2>1, ShrinksByClosing
  <2>4. QED
    BY <1>1, <2>1, <2>2, <2>3 DEF Quiet
<1>5. QED
  BY <1>3, <1>4, QuietReceive, QuietClient DEF Next, ServerStep

-----------------------------------------------------------------------------
(* Connections, numbers and PTYs stay apart. *)

LEMMA ApartQuiet ==
  ASSUME TypeOK, Apart, Quiet
  PROVE  Apart'
<1>1. \A f \in Fd : file'[f] = file[f] \/ file'[f] = None
  BY DEF Quiet, Shrinks
<1>2. Single(file')
  BY <1>1 DEF Apart, Single
<1>3. Waiting(file', backlog', cl')
  <2>1. CASE backlog' = <<>>
    <3>1. \A n : n \notin 1 .. Len(backlog')
      BY <2>1
    <3>2. \A c \in Client : cl'[c].st = "off" =>
            /\ cl[c].st = "off"
            /\ cl[c].panes = <<>> => cl'[c].panes = <<>>
      BY DEF Quiet, Fades
    <3>3. QED
      BY <1>1, <3>1, <3>2, NamesAssumption DEF Apart, Waiting
  <2>2. CASE backlog' = backlog
    <3>1. \A c \in Client : /\ cl'[c].st = "off" => cl[c].st = "off"
                            /\ cl[c].panes = <<>> => cl'[c].panes = <<>>
      BY DEF Quiet, Fades
    <3>2. \A n \in 1 .. Len(backlog) : backlog[n] \in Client
      BY DEF TypeOK
    <3>3. QED
      BY <1>1, <2>2, <3>1, <3>2, NamesAssumption DEF Apart, Waiting
  <2>3. QED
    BY <2>1, <2>2 DEF Quiet
<1>4. Unborn(file', proc', cl')
  BY <1>1, NamesAssumption DEF Apart, Unborn, Quiet, Fades
<1>5. QED
  BY <1>2, <1>3, <1>4 DEF Apart

LEMMA ApartAccept ==
  ASSUME TypeOK, AcceptHasConnection, Apart, Accept
  PROVE  Apart'
<1> DEFINE c == Head(backlog)
<1>1. PICK f \in Fd : file[f] = None /\ file' = [file EXCEPT ![f] = c]
  BY DEF Accept, LowestFree
<1>2. UNCHANGED <<cl, proc>> /\ backlog' = Tail(backlog)
  BY DEF Accept
<1>3. backlog \in Seq(Client) /\ backlog # <<>> /\ file \in [Fd -> OpenFile \cup {None}]
  BY DEF Accept, AcceptHasConnection, TypeOK
<1>4. /\ Len(backlog) \in Nat /\ 1 \in 1 .. Len(backlog) /\ c = backlog[1]
      /\ Len(backlog') = Len(backlog) - 1
      /\ \A n \in 1 .. Len(backlog') :
           n + 1 \in 1 .. Len(backlog) /\ backlog'[n] = backlog[n + 1]
  BY <1>2, <1>3
<1>5. c \in Client /\ c \notin Pid
  BY <1>3, <1>4, NamesAssumption
<1>6. \A g \in Fd : file'[g] = IF g = f THEN c ELSE file[g]
  BY <1>1, <1>3
<1>7. \A g \in Fd : file[g] # c
  BY <1>4 DEF Apart, Waiting
<1>8. \A n \in 1 .. Len(backlog') : backlog'[n] # c
  BY <1>4 DEF Apart, Waiting
<1> HIDE DEF c
<1>9. Single(file')
  BY <1>6, <1>7 DEF Apart, Single
<1>10. \A m, n \in 1 .. Len(backlog') : backlog'[m] = backlog'[n] => m = n
  <2>1. \A m, n \in 1 .. Len(backlog') : backlog'[m] = backlog'[n] => m + 1 = n + 1
    BY <1>4 DEF Apart, Waiting
  <2>2. \A m, n \in 1 .. Len(backlog') : m + 1 = n + 1 => m = n
    BY <1>4
  <2>3. QED
    BY <2>1, <2>2
<1>11. \A d \in Client : cl[d].st = "off" => d # c
  BY <1>4 DEF Apart, Waiting
<1>12. Waiting(file', backlog', cl')
  BY <1>2, <1>4, <1>6, <1>8, <1>10, <1>11 DEF Apart, Waiting
<1>13. Unborn(file', proc', cl')
  BY <1>2, <1>5, <1>6 DEF Apart, Unborn
<1>14. QED
  BY <1>9, <1>12, <1>13 DEF Apart

LEMMA ApartStart ==
  ASSUME TypeOK, Apart, NEW c \in Client, NEW st, st # "off", NEW out, Start(c, st, out)
  PROVE  Apart'
<1>1. UNCHANGED <<file, proc>> /\ cl[c].st = "off" /\ backlog' = Append(backlog, c)
  BY DEF Start
<1>2. backlog \in Seq(Client)
  BY DEF TypeOK
<1>3. /\ Len(backlog) \in Nat /\ Len(backlog') = Len(backlog) + 1
      /\ backlog'[Len(backlog) + 1] = c
      /\ \A n \in 1 .. Len(backlog) : backlog'[n] = backlog[n]
  BY <1>1, <1>2
<1>4. \A n \in 1 .. Len(backlog') : n \in 1 .. Len(backlog) \/ n = Len(backlog) + 1
  BY <1>3
<1>5. /\ cl'[c].st = st /\ cl'[c].panes = <<>>
      /\ \A d \in Client : d # c => cl'[d] = cl[d]
  BY DEF Start, TypeOK
<1>6. /\ \A f \in Fd : file[f] # c
      /\ \A n \in 1 .. Len(backlog) : backlog[n] # c
  BY <1>1 DEF Apart, Waiting
<1>7. \A n \in 1 .. Len(backlog) : backlog[n] \in Client
  BY <1>2
<1>8. Waiting(file', backlog', cl')
  <2>1. \A m, n \in 1 .. Len(backlog') : backlog'[m] = backlog'[n] => m = n
    BY <1>3, <1>4, <1>6 DEF Apart, Waiting
  <2>2. \A n \in 1 .. Len(backlog') :
          /\ \A f \in Fd : file'[f] # backlog'[n]
          /\ cl'[backlog'[n]].panes = <<>>
    BY <1>1, <1>3, <1>4, <1>5, <1>6, <1>7 DEF Apart, Waiting
  <2>3. \A d \in Client : cl'[d].st = "off" =>
          /\ \A f \in Fd : file'[f] # d
          /\ \A n \in 1 .. Len(backlog') : backlog'[n] # d
          /\ cl'[d].panes = <<>>
    BY <1>1, <1>3, <1>4, <1>5 DEF Apart, Waiting
  <2>4. QED
    BY <2>1, <2>2, <2>3 DEF Waiting
<1>9. Unborn(file', proc', cl')
  <2>1. Len(cl'[c].panes) = 0
    BY <1>5
  <2>2. \A p : ~Has(cl'[c], p)
    BY <2>1 DEF Has
  <2>3. QED
    BY <1>1, <1>5, <2>2 DEF Apart, Unborn
<1>10. QED
  BY <1>1, <1>8, <1>9 DEF Apart

LEMMA HasAppend ==
  ASSUME NEW x, x.panes \in Seq(OpenFile \cup {None}), NEW p \in Pid,
         NEW y, y.panes = Append(x.panes, p)
  PROVE  \A q : Has(y, q) <=> Has(x, q) \/ q = p
<1>1. p \in OpenFile \cup {None}
  BY DEF OpenFile
<1>2. /\ Len(x.panes) \in Nat /\ Len(y.panes) = Len(x.panes) + 1
      /\ y.panes[Len(x.panes) + 1] = p
      /\ \A j \in 1 .. Len(x.panes) : y.panes[j] = x.panes[j]
  BY <1>1, AppendProperties, LenProperties
<1>3. /\ \A j \in 1 .. Len(y.panes) : j \in 1 .. Len(x.panes) \/ j = Len(x.panes) + 1
      /\ \A j \in 1 .. Len(x.panes) : j \in 1 .. Len(y.panes)
      /\ Len(x.panes) + 1 \in 1 .. Len(y.panes)
  BY <1>2
<1>4. QED
  BY <1>2, <1>3 DEF Has

LEMMA ApartSpawn ==
  ASSUME TypeOK, Apart, NEW i \in Slot, SpawnPane(i)
  PROVE  Apart'
<1> DEFINE c == Sender(i)
<1>1. PICK p \in Pid, g \in Fd :
        /\ LowestFree(g)
        /\ proc[p] = "none"
        /\ file' = [file EXCEPT ![g] = p]
        /\ proc' = [proc EXCEPT ![p] = "live"]
        /\ cl' = [cl EXCEPT ![c].st = "run", ![c].panes = Append(@, p)]
  BY ZenonT(60) DEF SpawnPane
<1>2. /\ backlog' = backlog /\ c \in Client
      /\ client_fds[i] \in Fd /\ file[client_fds[i]] = c
  BY ReceivedType DEF SpawnPane, NextSlot, Sender
<1>3. /\ file \in [Fd -> OpenFile \cup {None}] /\ cl \in [Client -> ClientState]
      /\ proc \in [Pid -> ProcState] /\ backlog \in Seq(Client)
  BY DEF TypeOK, ProcState
<1> HIDE DEF c
<1>4. \A f \in Fd : file'[f] = IF f = g THEN p ELSE file[f]
  BY <1>1, <1>3
<1>5. /\ \A f \in Fd : file[f] # p
      /\ \A d \in Client : ~Has(cl[d], p)
  BY <1>1 DEF Apart, Unborn
<1>6. p # None /\ p \notin Client
  BY NamesAssumption
<1>7. Single(file')
  BY <1>4, <1>5 DEF Apart, Single
<1>8. /\ cl'[c].st = "run" /\ cl'[c].panes = Append(cl[c].panes, p)
      /\ \A d \in Client : d # c => cl'[d] = cl[d]
  BY <1>1, <1>2, <1>3 DEF ClientState
<1>9. \A n \in 1 .. Len(backlog) : backlog[n] # c /\ backlog[n] \in Client
  BY <1>2, <1>3 DEF Apart, Waiting
<1>10. Waiting(file', backlog', cl')
  BY <1>2, <1>4, <1>6, <1>8, <1>9 DEF Apart, Waiting
<1>11. \A q : Has(cl'[c], q) => Has(cl[c], q) \/ q = p
  <2>1. cl[c].panes \in Seq(OpenFile \cup {None})
    BY <1>2, <1>3 DEF ClientState
  <2>2. QED
    BY <1>8, <2>1, HasAppend
<1>12. Unborn(file', proc', cl')
  <2>1. \A q \in Pid : proc'[q] = "none" => proc[q] = "none" /\ q # p
    BY <1>1, <1>3
  <2>2. QED
    BY <1>4, <1>8, <1>11, <2>1 DEF Apart, Unborn
<1>13. QED
  BY <1>7, <1>10, <1>12 DEF Apart

(* What an attach changes. *)
LEMMA AttachShape ==
  ASSUME TypeOK, NEW i \in Slot, Attach(i)
  PROVE  /\ UNCHANGED <<file, proc, backlog>>
         /\ Sender(i) \in Client /\ client_fds[i] \in Fd
         /\ file[client_fds[i]] = Sender(i)
         /\ \A d \in Client : d # Sender(i) => cl'[d] = cl[d]
         /\ cl'[Sender(i)].st \in {"run", "gone"} /\ cl'[Sender(i)].out = <<>>
         /\ \E k \in 1 .. Len(Associated(i)) :
              /\ AttachGranted(i, k)
              /\ \A p : Has(cl'[Sender(i)], p) =>
                   \E j \in 1 .. Len(Associated(i)[k].master_fds) :
                     /\ Associated(i)[k].master_fds[j] \in Fd
                     /\ file[Associated(i)[k].master_fds[j]] = p
                     /\ p # None
<1>1. /\ Received(i, "ATTACH") /\ UNCHANGED <<file, proc, backlog>>
  BY DEF Attach, NextSlot
<1>2. Sender(i) \in Client /\ client_fds[i] \in Fd
  BY <1>1, ReceivedType
<1>3. PICK k \in 1 .. Len(Associated(i)) : AttachGranted(i, k)
  BY DEF Attach
<1> DEFINE s == Associated(i)[k]
<1>4. PICK e \in [1 .. Cardinality(OpenPanes(s)) -> OpenPanes(s)] :
        cl' = [cl EXCEPT ![Sender(i)] =
                IF OpenPanes(s) = {} THEN Gone
                ELSE [st |-> "run", out |-> <<>>,
                      panes |-> [n \in DOMAIN e |-> file[s.master_fds[e[n]]]]]]
  BY <1>3 DEF AttachGranted
<1>5. Cardinality(OpenPanes(s)) \in Nat
  <2>1. OpenPanes(s) \in SUBSET (1 .. Len(s.master_fds))
    BY DEF OpenPanes
  <2>2. s \in Session
    BY <1>1, <1>3, ReceivedType, ElementOfSeq
  <2>3. QED
    BY <2>1, <2>2, ShellsType, FiniteIndexes
<1>6. \A d \in Client : d # Sender(i) => cl'[d] = cl[d]
  BY <1>2, <1>4 DEF TypeOK
<1>7. CASE OpenPanes(s) = {}
  <2>1. cl'[Sender(i)] = Gone
    BY <1>2, <1>4, <1>7 DEF TypeOK
  <2>2. /\ cl'[Sender(i)].st = "gone" /\ cl'[Sender(i)].out = <<>>
        /\ Len(cl'[Sender(i)].panes) = 0
    BY <2>1 DEF Gone
  <2>3. \A p : ~Has(cl'[Sender(i)], p)
    BY <2>2 DEF Has
  <2>4. QED
    BY <1>1, <1>2, <1>3, <1>6, <2>2, <2>3 DEF Sender
<1>8. CASE OpenPanes(s) # {}
  <2> DEFINE q == [n \in DOMAIN e |-> file[s.master_fds[e[n]]]]
  <2>1. cl'[Sender(i)] = [st |-> "run", out |-> <<>>, panes |-> q]
    BY <1>2, <1>4, <1>8 DEF TypeOK
  <2>2. /\ cl'[Sender(i)].st = "run" /\ cl'[Sender(i)].out = <<>>
        /\ cl'[Sender(i)].panes = q
    BY <2>1
  <2>3. Len(q) = Cardinality(OpenPanes(s))
    BY <1>4, <1>5
  <2>4. ASSUME NEW p, Has(cl'[Sender(i)], p)
        PROVE  \E j \in 1 .. Len(s.master_fds) :
                 s.master_fds[j] \in Fd /\ file[s.master_fds[j]] = p /\ p # None
    <3>1. PICK n \in 1 .. Len(q) : q[n] = p
      BY <2>2, <2>4 DEF Has
    <3>2. e[n] \in OpenPanes(s) /\ q[n] = file[s.master_fds[e[n]]]
      BY <1>4, <2>3, <3>1
    <3>3. QED
      BY <3>1, <3>2 DEF OpenPanes, IsOpen
  <2>5. QED
    BY <1>1, <1>2, <1>3, <1>6, <2>2, <2>4 DEF Sender
<1>9. QED
  BY <1>7, <1>8

LEMMA ApartAttach ==
  ASSUME TypeOK, Apart, NEW i \in Slot, Attach(i)
  PROVE  Apart'
<1> DEFINE c == Sender(i)
<1>1. /\ UNCHANGED <<file, proc, backlog>> /\ c \in Client
      /\ client_fds[i] \in Fd /\ file[client_fds[i]] = c
      /\ \A d \in Client : d # c => cl'[d] = cl[d]
      /\ cl'[c].st \in {"run", "gone"}
      /\ \A p : Has(cl'[c], p) => \E f \in Fd : file[f] = p
  BY AttachShape
<1> HIDE DEF c
<1>2. \A n \in 1 .. Len(backlog) : backlog[n] # c /\ backlog[n] \in Client
  BY <1>1 DEF Apart, Waiting, TypeOK
<1>3. Waiting(file', backlog', cl')
  BY <1>1, <1>2 DEF Apart, Waiting
<1>4. Unborn(file', proc', cl')
  BY <1>1 DEF Apart, Unborn
<1>5. QED
  BY <1>1, <1>3, <1>4 DEF Apart

LEMMA ApartStep ==
  ASSUME TypeOK, AcceptHasConnection, Apart, [Next]_vars
  PROVE  Apart'
<1>1. ASSUME NEW c \in Client, ClientStep(c), backlog' # backlog
      PROVE  Apart'
  <2>1. \E st \in {"spawn", "wait"} : \E out : Start(c, st, out)
    BY <1>1 DEF ClientStep, StartNew, StartAttach, StartList, StartKill,
         Send, ServerEof, PaneSplit, DetachKey, PaneEof, Die
  <2>2. QED
    BY <2>1, ApartStart
<1>2. QED
  BY <1>1, QuietStep, ApartQuiet, ApartAccept, ApartSpawn, ApartAttach

-----------------------------------------------------------------------------
(* The conversations of the clients. *)

LEMMA TalkWhenGone ==
  ASSUME NEW in, NEW out
  PROVE  TalkOf("gone", in, out)
  BY DEF TalkOf

LEMMA TalkDropped ==
  ASSUME NEW st, NEW in, NEW out, TalkOf(st, in, out)
  PROVE  TalkOf(st, <<>>, out)
<1>1. \A n, type : ~Says(<<>>, n, type)
  BY DEF Says
<1>2. QED
  BY <1>1 DEF TalkOf

LEMMA TalkTail ==
  ASSUME NEW st, NEW in \in Seq(Msg), in # <<>>, NEW out, TalkOf(st, in, out)
  PROVE  TalkOf(st, Tail(in), out)
<1>1. /\ Len(in) \in Nat /\ Len(Tail(in)) = Len(in) - 1
      /\ \A n \in 1 .. Len(Tail(in)) : n + 1 \in 1 .. Len(in) /\ Tail(in)[n] = in[n + 1]
  OBVIOUS
<1> DEFINE tl == Tail(in)
<1> HIDE DEF tl
<1>2. \A n, type : Says(tl, n, type) => Says(in, n + 1, type) /\ n \in Nat
  BY <1>1 DEF Says, tl
<1>3. st # "off"
  BY DEF TalkOf
<1>4. \A n : Says(tl, n, "COMMAND") => st \in {"spawn", "gone"}
  BY <1>2 DEF TalkOf
<1>5. \A n : Says(tl, n, "ATTACH") => st \in {"wait", "gone"}
  BY <1>2 DEF TalkOf
<1>6. \A n : Says(tl, n, "DETACH") => st \in {"leave", "gone"}
  BY <1>2 DEF TalkOf
<1>7. ASSUME st \in {"wait", "spawn"}, NEW n, NEW type \in {"COMMAND", "ATTACH"},
             Says(tl, n, type)
      PROVE  n = Len(tl) /\ out = <<>>
  <2>1. n \in Nat /\ Says(in, n + 1, type)
    BY <1>2, <1>7
  <2>2. n + 1 = Len(in) /\ out = <<>>
    BY <1>7, <2>1 DEF TalkOf
  <2>3. Len(in) \in Nat /\ Len(tl) = Len(in) - 1
    BY <1>1 DEF tl
  <2>4. QED
    BY <2>1, <2>2, <2>3
<1>8. TalkOf(st, tl, out)
  <2>1. \A n :
          /\ Says(out, n, "COMMAND") => st \in {"spawn", "gone"}
          /\ Says(out, n, "ATTACH") => st \in {"wait", "gone"}
          /\ Says(out, n, "DETACH") => st \in {"leave", "gone"}
    BY DEF TalkOf
  <2>2. st \in {"wait", "spawn"} => \A n :
          /\ Says(tl, n, "COMMAND") \/ Says(tl, n, "ATTACH") => n = Len(tl) /\ out = <<>>
          /\ Says(out, n, "COMMAND") \/ Says(out, n, "ATTACH") => n = Len(out)
    BY <1>7 DEF TalkOf
  <2>3. QED
    BY <1>3, <1>4, <1>5, <1>6, <2>1, <2>2 DEF TalkOf
<1>9. QED
  BY <1>8 DEF tl

(* When the daemon answers a COMMAND or an ATTACH, the client has nothing  *)
(* more under way.                                                         *)
LEMMA TalkAnswered ==
  ASSUME NEW st, st # "gone", NEW in \in Seq(Msg), in # <<>>, NEW out, TalkOf(st, in, out),
         NEW type \in {"COMMAND", "ATTACH"}, Head(in).type = type
  PROVE  /\ st = IF type = "COMMAND" THEN "spawn" ELSE "wait"
         /\ Tail(in) = <<>> /\ out = <<>>
         /\ \A now \in {"run", "gone"} : TalkOf(now, Tail(in), <<>>)
<1>1. Len(in) \in Nat /\ 1 \in 1 .. Len(in) /\ Head(in) = in[1]
  OBVIOUS
<1>2. Says(in, 1, type)
  BY <1>1 DEF Says
<1>3. st = IF type = "COMMAND" THEN "spawn" ELSE "wait"
  BY <1>2 DEF TalkOf
<1>4. 1 = Len(in) /\ out = <<>>
  BY <1>2, <1>3 DEF TalkOf
<1>5. Tail(in) = <<>>
  <2>1. Tail(in) \in Seq(Msg) /\ Len(Tail(in)) = 0
    BY <1>4
  <2>2. QED
    BY <2>1, EmptySeq
<1>6. \A n, t : ~Says(<<>>, n, t)
  BY DEF Says
<1>7. \A now \in {"run", "gone"} : TalkOf(now, <<>>, <<>>)
  BY <1>6 DEF TalkOf
<1>8. QED
  BY <1>3, <1>4, <1>5, <1>7

LEMMA TalkSent ==
  ASSUME NEW st, NEW in \in Seq(Msg), NEW out \in Seq(Msg), out # <<>>, TalkOf(st, in, out)
  PROVE  TalkOf(st, Append(in, Head(out)), Tail(out))
<1> DEFINE al == Append(in, Head(out))
           tl == Tail(out)
<1>1. /\ Len(in) \in Nat /\ Len(al) = Len(in) + 1 /\ al[Len(in) + 1] = out[1]
      /\ \A n \in 1 .. Len(in) : al[n] = in[n]
  OBVIOUS
<1>2. /\ Len(out) \in Nat /\ 1 \in 1 .. Len(out) /\ Len(tl) = Len(out) - 1
      /\ \A n \in 1 .. Len(tl) : n + 1 \in 1 .. Len(out) /\ tl[n] = out[n + 1]
  OBVIOUS
<1>3. Len(tl) = 0 => tl = <<>>
  <2>1. tl \in Seq(Msg)
    OBVIOUS
  <2> HIDE DEF tl
  <2>2. QED
    BY <2>1, EmptySeq
<1> HIDE DEF al, tl
<1>4. \A n, type : Says(al, n, type) =>
        \/ Says(in, n, type)
        \/ n = Len(al) /\ Says(out, 1, type)
  BY <1>1, <1>2 DEF Says
<1>5. \A n, type : Says(tl, n, type) => Says(out, n + 1, type) /\ n \in Nat
  BY <1>2 DEF Says
<1>6. st # "off"
  BY DEF TalkOf
<1>7. \A n : Says(al, n, "COMMAND") \/ Says(tl, n, "COMMAND") => st \in {"spawn", "gone"}
  BY <1>4, <1>5 DEF TalkOf
<1>8. \A n : Says(al, n, "ATTACH") \/ Says(tl, n, "ATTACH") => st \in {"wait", "gone"}
  BY <1>4, <1>5 DEF TalkOf
<1>9. \A n : Says(al, n, "DETACH") \/ Says(tl, n, "DETACH") => st \in {"leave", "gone"}
  BY <1>4, <1>5 DEF TalkOf
<1>10. ASSUME st \in {"wait", "spawn"}, NEW n, NEW type \in {"COMMAND", "ATTACH"},
              Says(al, n, type)
       PROVE  n = Len(al) /\ tl = <<>>
  <2>1. ~Says(in, n, type)
    BY <1>10 DEF TalkOf
  <2>2. n = Len(al) /\ Says(out, 1, type)
    BY <1>4, <1>10, <2>1
  <2>3. 1 = Len(out)
    BY <1>10, <2>2 DEF TalkOf
  <2>4. QED
    BY <1>2, <1>3, <2>2, <2>3
<1>11. ASSUME st \in {"wait", "spawn"}, NEW n, NEW type \in {"COMMAND", "ATTACH"},
              Says(tl, n, type)
       PROVE  n = Len(tl)
  <2>1. n \in Nat /\ Says(out, n + 1, type)
    BY <1>5, <1>11
  <2>2. n + 1 = Len(out)
    BY <1>11, <2>1 DEF TalkOf
  <2>3. QED
    BY <1>2, <2>1, <2>2
<1>12. TalkOf(st, al, tl)
  BY <1>6, <1>7, <1>8, <1>9, <1>10, <1>11 DEF TalkOf
<1>13. QED
  BY <1>12 DEF al, tl

(* The daemon reads a message, or drops what it will not read.             *)
LEMMA TalkRead ==
  ASSUME TypeOK, Talk,
         \A c \in Client : cl'[c] = cl[c] \/ cl'[c].st = "gone",
         \A c \in Client : \/ inbox'[c] \in {inbox[c], <<>>}
                           \/ inbox[c] # <<>> /\ inbox'[c] = Tail(inbox[c])
  PROVE  Talk'
<1> SUFFICES ASSUME NEW c \in Client PROVE TalkOf(cl'[c].st, inbox'[c], cl'[c].out)
  BY DEF Talk
<1>1. TalkOf(cl[c].st, inbox[c], cl[c].out) /\ inbox[c] \in Seq(Msg)
  BY DEF Talk, TypeOK
<1>2. CASE cl'[c].st = "gone"
  BY <1>2, TalkWhenGone
<1>3. CASE cl'[c] = cl[c]
  <2>1. TalkOf(cl[c].st, inbox'[c], cl[c].out)
    BY <1>1, TalkDropped, TalkTail
  <2>2. QED
    BY <1>3, <2>1
<1>4. QED
  BY <1>2, <1>3

LEMMA TalkAnswer ==
  ASSUME TypeOK, Talk, NEW i \in Slot, SpawnPane(i) \/ Attach(i)
  PROVE  /\ cl[Sender(i)].st = IF SpawnPane(i) THEN "spawn" ELSE "wait"
         /\ Talk'
<1> DEFINE c == Sender(i)
           type == IF SpawnPane(i) THEN "COMMAND" ELSE "ATTACH"
<1>1. /\ Received(i, type) /\ ~Dead(c) /\ NextSlot(i)
  BY DEF SpawnPane, Attach
<1>2. c \in Client /\ inbox[c] # <<>> /\ Head(inbox[c]).type = type
  BY <1>1 DEF Received
<1>3. cl[c] \in ClientState /\ inbox[c] \in Seq(Msg) /\ cl[c].st # "gone"
  BY <1>1, <1>2 DEF TypeOK, Dead
<1>4. TalkOf(cl[c].st, inbox[c], cl[c].out)
  BY <1>2 DEF Talk
<1>5. type \in {"COMMAND", "ATTACH"} /\ (type = "COMMAND" <=> SpawnPane(i))
  OBVIOUS
<1>6. inbox' = [inbox EXCEPT ![c] = Tail(inbox[c])]
  BY <1>1 DEF NextSlot
<1>7. /\ \A d \in Client : d # c => cl'[d] = cl[d]
      /\ cl'[c].st \in {"run", "gone"}
      /\ cl[c].out = <<>> => cl'[c].out = <<>>
  <2>1. CASE SpawnPane(i)
    <3>1. PICK p \in Pid : cl' = [cl EXCEPT ![c].st = "run", ![c].panes = Append(@, p)]
      BY <2>1, ZenonT(60) DEF SpawnPane
    <3>2. cl \in [Client -> ClientState]
      BY DEF TypeOK
    <3> HIDE DEF c
    <3>3. QED
      BY <1>2, <1>3, <3>1, <3>2 DEF ClientState
  <2>2. CASE Attach(i)
    BY <2>2, AttachShape
  <2>3. QED
    BY <2>1, <2>2
<1> HIDE DEF c, type
<1>8. /\ cl[c].st = IF type = "COMMAND" THEN "spawn" ELSE "wait"
      /\ cl[c].out = <<>>
      /\ \A now \in {"run", "gone"} : TalkOf(now, Tail(inbox[c]), <<>>)
  BY <1>2, <1>3, <1>4, <1>5, TalkAnswered
<1>9. inbox'[c] = Tail(inbox[c]) /\ \A d \in Client : d # c => inbox'[d] = inbox[d]
  BY <1>2, <1>6 DEF TypeOK
<1>10. TalkOf(cl'[c].st, inbox'[c], cl'[c].out)
  BY <1>7, <1>8, <1>9
<1>11. \A d \in Client : d # c => TalkOf(cl'[d].st, inbox'[d], cl'[d].out)
  BY <1>7, <1>9 DEF Talk
<1>12. QED
  BY <1>5, <1>8, <1>10, <1>11 DEF Talk, c

LEMMA TalkReceive ==
  ASSUME TypeOK, Talk, NEW i \in Slot, Receive(i)
  PROVE  Talk'
<1>1. CASE SpawnPane(i) \/ Attach(i)
  BY <1>1, TalkAnswer
<1>2. CASE ~SpawnPane(i) /\ ~Attach(i)
  <2>1. \/ cl' = cl
        \/ Sender(i) \in Client /\ cl' = [cl EXCEPT ![Sender(i)] = Gone]
    BY <1>2 DEF Receive, ReceiveFails, BrokenPipe, ListSessions, KillSession, KillUnknown,
         Resize, SpawnRefused, SpawnFails, Exited, Detach, AttachRefused, SaveGrid, Received
  <2>2. \A c \in Client : cl'[c] = cl[c] \/ cl'[c].st = "gone"
    BY <2>1 DEF Gone, TypeOK
  <2>3. \/ Stop \/ (\E fs : HangUp(i, fs))
        \/ \E type : Received(i, type) /\ NextSlot(i)
    BY <1>2 DEF Receive, ReceiveFails, BrokenPipe, ListSessions, KillSession, KillUnknown,
         Resize, SpawnRefused, SpawnFails, Exited, Detach, AttachRefused, SaveGrid
  <2>4. \A c \in Client : \/ inbox'[c] \in {inbox[c], <<>>}
                          \/ inbox[c] # <<>> /\ inbox'[c] = Tail(inbox[c])
    BY <2>3 DEF Stop, HangUp, Discard, Received, NextSlot, TypeOK
  <2>5. QED
    BY <2>2, <2>4, TalkRead
<1>3. QED
  BY <1>1, <1>2

(* A client asks: for a pane, or for an answer; or it says goodbye. *)
LEMMA TalkSpawn ==
  ASSUME NEW st \in {"off", "run"}, NEW in, NEW out, TalkOf(st, in, out)
  PROVE  TalkOf("spawn", in, <<Message("RESIZE", 0), Message("COMMAND", 0)>>)
<1> DEFINE q == <<Message("RESIZE", 0), Message("COMMAND", 0)>>
<1>1. Len(q) = 2 /\ q[1].type = "RESIZE" /\ q[2].type = "COMMAND"
  BY DEF Message
<1> HIDE DEF q
<1>2. \A n, type : Says(q, n, type) =>
        \/ n = 1 /\ type = "RESIZE"
        \/ n = Len(q) /\ type = "COMMAND"
  BY <1>1 DEF Says
<1>3. \A n : ~Says(in, n, "COMMAND") /\ ~Says(in, n, "ATTACH") /\ ~Says(in, n, "DETACH")
  BY DEF TalkOf
<1>4. TalkOf("spawn", in, q)
  BY <1>2, <1>3 DEF TalkOf
<1>5. QED
  BY <1>4 DEF q

LEMMA TalkWait ==
  ASSUME NEW in, NEW out, TalkOf("off", in, out),
         NEW type \in {"LIST", "KILL", "ATTACH"}, NEW arg
  PROVE  TalkOf("wait", in, <<Message(type, arg)>>)
<1> DEFINE q == <<Message(type, arg)>>
<1>1. Len(q) = 1 /\ q[1].type = type
  BY DEF Message
<1> HIDE DEF q
<1>2. \A n, t : Says(q, n, t) => n = Len(q) /\ t = type
  BY <1>1 DEF Says
<1>3. \A n : ~Says(in, n, "COMMAND") /\ ~Says(in, n, "ATTACH") /\ ~Says(in, n, "DETACH")
  BY DEF TalkOf
<1>4. TalkOf("wait", in, q)
  BY <1>2, <1>3 DEF TalkOf
<1>5. QED
  BY <1>4 DEF q

LEMMA TalkLeave ==
  ASSUME NEW in, NEW old, TalkOf("run", in, old), NEW out,
         \A n, type : Says(out, n, type) => type \in {"GRID_SAVE", "DETACH", "EXITED"}
  PROVE  TalkOf("leave", in, out)
<1>1. \A n : ~Says(in, n, "COMMAND") /\ ~Says(in, n, "ATTACH") /\ ~Says(in, n, "DETACH")
  BY DEF TalkOf
<1>2. \A n : ~Says(out, n, "COMMAND") /\ ~Says(out, n, "ATTACH")
  BY DEF TalkOf
<1>3. QED
  BY <1>1, <1>2 DEF TalkOf

LEMMA TalkClient ==
  ASSUME TypeOK, Talk, NEW c \in Client, ClientStep(c)
  PROVE  Talk'
<1> USE DEF server
<1>1. /\ cl \in [Client -> ClientState] /\ cl[c] \in ClientState
      /\ inbox \in [Client -> Seq(Msg)] /\ inbox[c] \in Seq(Msg)
  BY DEF TypeOK
<1>2. TalkOf(cl[c].st, inbox[c], cl[c].out)
  BY DEF Talk
<1>3. ASSUME NEW y, cl' = [cl EXCEPT ![c] = y], NEW in, TalkOf(y.st, in, y.out),
             \/ inbox' = [inbox EXCEPT ![c] = in]
             \/ inbox' = inbox /\ in = inbox[c]
      PROVE  Talk'
  <2>1. cl'[c] = y /\ inbox'[c] = in
    BY <1>1, <1>3
  <2>2. \A d \in Client : d # c => cl'[d] = cl[d] /\ inbox'[d] = inbox[d]
    BY <1>1, <1>3
  <2>3. QED
    BY <1>3, <2>1, <2>2 DEF Talk
<1>4. ASSUME NEW st, NEW out, Start(c, st, out), TalkOf(st, inbox[c], out)
      PROVE  Talk'
  <2> DEFINE y == [st |-> st, panes |-> <<>>, out |-> out]
  <2>1. y.st = st /\ y.out = out
    OBVIOUS
  <2> HIDE DEF y
  <2>2. cl' = [cl EXCEPT ![c] = y] /\ inbox' = inbox
    BY <1>4 DEF Start, y
  <2>3. TalkOf(y.st, inbox[c], y.out)
    BY <1>4, <2>1
  <2>4. QED
    BY <1>3, <2>2, <2>3
<1>5. CASE StartNew(c)
  <2>1. cl[c].st = "off"
    BY <1>5 DEF StartNew, Start
  <2>2. TalkOf("spawn", inbox[c], <<Message("RESIZE", 0), Message("COMMAND", 0)>>)
    BY <1>2, <2>1, TalkSpawn
  <2>3. QED
    BY <1>4, <1>5, <2>2 DEF StartNew
<1>6. CASE StartAttach(c) \/ StartList(c) \/ StartKill(c)
  <2>1. PICK type \in {"LIST", "KILL", "ATTACH"} :
          \E arg : Start(c, "wait", <<Message(type, arg)>>)
    BY <1>6 DEF StartAttach, StartList, StartKill
  <2>2. cl[c].st = "off"
    BY <2>1 DEF Start
  <2>3. \A arg : TalkOf("wait", inbox[c], <<Message(type, arg)>>)
    BY <1>2, <2>2, TalkWait
  <2>4. QED
    BY <1>4, <2>1, <2>3
<1>7. CASE Send(c)
  <2> DEFINE in == Append(inbox[c], Head(cl[c].out))
             y == [cl[c] EXCEPT !.out = Tail(@)]
  <2>1. /\ inbox' = [inbox EXCEPT ![c] = in] /\ cl[c].out # <<>>
        /\ cl' = [cl EXCEPT ![c] = Gone] \/ cl' = [cl EXCEPT ![c] = y]
    BY <1>7 DEF Send
  <2>2. y.st = cl[c].st /\ y.out = Tail(cl[c].out) /\ cl[c].out \in Seq(Msg)
    BY <1>1 DEF ClientState
  <2>3. TalkOf(cl[c].st, in, Tail(cl[c].out))
    BY <1>1, <1>2, <2>1, <2>2, TalkSent
  <2> HIDE DEF in, y
  <2>4. TalkOf(y.st, in, y.out)
    BY <2>2, <2>3
  <2>5. TalkOf(Gone.st, in, Gone.out)
    BY TalkWhenGone DEF Gone
  <2>6. QED
    BY <1>3, <2>1, <2>4, <2>5
<1>8. CASE ServerEof(c) \/ Die(c)
  <2>1. cl' = [cl EXCEPT ![c] = Gone] /\ inbox' = inbox
    BY <1>8 DEF ServerEof, Die
  <2>2. TalkOf(Gone.st, inbox[c], Gone.out)
    BY TalkWhenGone DEF Gone
  <2>3. QED
    BY <1>3, <2>1, <2>2
<1>9. CASE PaneSplit(c)
  <2> DEFINE out == <<Message("RESIZE", 0), Message("COMMAND", 0)>>
             y == [cl[c] EXCEPT !.st = "spawn", !.out = out]
  <2>1. cl' = [cl EXCEPT ![c].st = "spawn", ![c].out = out] /\ inbox' = inbox
    BY <1>9 DEF PaneSplit
  <2>2. TalkOf("spawn", inbox[c], out)
    BY <1>2, <1>9, TalkSpawn DEF PaneSplit
  <2> HIDE DEF out
  <2>3. cl' = [cl EXCEPT ![c] = y]
    BY <1>1, <2>1 DEF ClientState
  <2>4. y.st = "spawn" /\ y.out = out
    BY <1>1 DEF ClientState
  <2> HIDE DEF y
  <2>5. TalkOf(y.st, inbox[c], y.out)
    BY <2>2, <2>4
  <2>6. QED
    BY <1>3, <2>1, <2>3, <2>5
<1>10. CASE DetachKey(c)
  <2>1. PICK e \in [1 .. Cardinality(Displayed(c)) -> Displayed(c)] :
          cl' = [cl EXCEPT ![c].st = "leave",
                   ![c].out = [n \in DOMAIN e |-> GridSave(e[n], cl[c].panes[e[n]])]
                                \o <<Message("DETACH", 0), Message("EXITED", 0)>>]
    BY <1>10 DEF DetachKey
  <2> DEFINE grids == [n \in DOMAIN e |-> GridSave(e[n], cl[c].panes[e[n]])]
             bye == <<Message("DETACH", 0), Message("EXITED", 0)>>
             out == grids \o bye
             y == [cl[c] EXCEPT !.st = "leave", !.out = out]
  <2>2. cl[c].st = "run" /\ inbox' = inbox
    BY <1>10 DEF DetachKey
  <2>3. Cardinality(Displayed(c)) \in Nat
    <3>1. Displayed(c) \in SUBSET (1 .. Len(cl[c].panes)) /\ Len(cl[c].panes) \in Nat
      BY <1>1 DEF Displayed, ClientState
    <3>2. QED
      BY <3>1, FiniteIndexes
  <2>4. /\ grids \in Seq({grids[n] : n \in DOMAIN e})
        /\ \A n \in 1 .. Len(grids) : grids[n].type = "GRID_SAVE"
    <3>1. grids \in [1 .. Cardinality(Displayed(c)) -> {grids[n] : n \in DOMAIN e}]
      BY <2>1
    <3>2. \A n \in 1 .. Cardinality(Displayed(c)) : grids[n].type = "GRID_SAVE"
      BY <2>1 DEF GridSave
    <3> HIDE DEF grids
    <3>3. QED
      BY <2>3, <3>1, <3>2
  <2>5. Len(bye) = 2 /\ bye[1].type = "DETACH" /\ bye[2].type = "EXITED"
    BY DEF Message
  <2> HIDE DEF grids, bye
  <2>6. \A n, type : Says(out, n, type) => type \in {"GRID_SAVE", "DETACH", "EXITED"}
    <3>1. SUFFICES ASSUME NEW n \in 1 .. Len(out)
                   PROVE  out[n].type \in {"GRID_SAVE", "DETACH", "EXITED"}
      BY DEF Says
    <3>2. PICK S : grids \in Seq(S) /\ bye \in Seq(S)
      <4>1. bye \in Seq({bye[1], bye[2]})
        BY DEF bye
      <4>2. /\ grids \in Seq({grids[n1] : n1 \in DOMAIN e} \cup {bye[1], bye[2]})
            /\ bye \in Seq({grids[n1] : n1 \in DOMAIN e} \cup {bye[1], bye[2]})
        BY <2>4, <4>1
      <4>3. QED
        BY <4>2
    <3>3. /\ Len(grids) \in Nat /\ Len(out) = Len(grids) + Len(bye)
          /\ \A m \in 1 .. (Len(grids) + Len(bye)) :
               out[m] = IF m <= Len(grids) THEN grids[m] ELSE bye[m - Len(grids)]
      BY <3>2, ConcatProperties
    <3> HIDE DEF out
    <3>4. CASE n <= Len(grids)
      BY <2>4, <2>5, <3>1, <3>3, <3>4
    <3>5. CASE n > Len(grids)
      <4>1. out[n] = bye[n - Len(grids)] /\ n - Len(grids) \in {1, 2}
        BY <2>5, <3>1, <3>3, <3>5
      <4>2. QED
        BY <2>5, <4>1
    <3>6. QED
      BY <3>1, <3>3, <3>4, <3>5
  <2>7. cl' = [cl EXCEPT ![c].st = "leave", ![c].out = out]
    BY <2>1 DEF grids, bye
  <2> HIDE DEF out
  <2>8. cl' = [cl EXCEPT ![c] = y] /\ y.st = "leave" /\ y.out = out
    BY <1>1, <2>7 DEF ClientState
  <2>9. TalkOf("leave", inbox[c], out)
    BY <1>2, <2>2, <2>6, TalkLeave
  <2> HIDE DEF y
  <2>10. QED
    BY <1>3, <2>2, <2>8, <2>9
<1>11. CASE PaneEof(c)
  <2> DEFINE q == <<Message("EXITED", 0)>>
  <2>1. PICK j \in 1 .. Len(cl[c].panes) :
          cl' = [cl EXCEPT ![c] =
            IF Displayed(c) = {j}
            THEN [st |-> "leave", panes |-> <<>>, out |-> q]
            ELSE [cl[c] EXCEPT !.panes[j] = None]]
    BY <1>11 DEF PaneEof
  <2>2. cl[c].st = "run" /\ inbox' = inbox
    BY <1>11 DEF PaneEof
  <2>3. TalkOf("leave", inbox[c], q)
    <3>1. Len(q) = 1 /\ q[1].type = "EXITED"
      BY DEF Message
    <3> HIDE DEF q
    <3>2. \A n, type : Says(q, n, type) => type = "EXITED"
      BY <3>1 DEF Says
    <3>3. QED
      BY <1>2, <2>2, <3>2, TalkLeave
  <2> HIDE DEF q
  <2>4. CASE Displayed(c) = {j}
    <3> DEFINE y == [st |-> "leave", panes |-> <<>>, out |-> q]
    <3>1. cl' = [cl EXCEPT ![c] = y] /\ y.st = "leave" /\ y.out = q
      BY <2>1, <2>4
    <3> HIDE DEF y
    <3>2. QED
      BY <1>3, <2>2, <2>3, <3>1
  <2>5. CASE Displayed(c) # {j}
    <3> DEFINE y == [cl[c] EXCEPT !.panes[j] = None]
    <3>1. cl' = [cl EXCEPT ![c] = y] /\ y.st = cl[c].st /\ y.out = cl[c].out
      BY <1>1, <2>1, <2>5 DEF ClientState
    <3> HIDE DEF y
    <3>2. QED
      BY <1>2, <1>3, <2>2, <3>1
  <2>6. QED
    BY <2>4, <2>5
<1>12. QED
  BY <1>5, <1>6, <1>7, <1>8, <1>9, <1>10, <1>11 DEF ClientStep

LEMMA TalkStep ==
  ASSUME TypeOK, Talk, [Next]_vars
  PROVE  Talk'
<1>1. CASE \/ EnterSelect \/ SelectFails \/ SelectReturns \/ Accept \/ AcceptFails
           \/ ReceiveDone \/ Sweep \/ SweepDone \/ (\E p \in Pid : Reap(p))
           \/ ReapDone \/ Clean \/ CleanDone
           \/ (\E p \in Pid : ShellExit(p)) \/ UNCHANGED vars
  <2>1. /\ cl' = cl
        /\ \/ inbox' = inbox
           \/ \E fs : inbox' = Discard(fs, inbox)
           \/ inbox' = [c \in Client |-> <<>>]
    BY <1>1 DEF EnterSelect, SelectFails, SelectReturns, Accept, AcceptFails,
         ReceiveDone, Sweep, SweepDone, Reap, ReapPane, ReapDone, Clean, CleanDone,
         ShellExit, vars, Stop
  <2>2. \A c \in Client : inbox'[c] \in {inbox[c], <<>>}
    BY <2>1 DEF Discard
  <2>3. QED
    BY <2>1, <2>2, TalkRead
<1>2. QED
  BY <1>1, TalkReceive, TalkClient DEF Next, ServerStep

-----------------------------------------------------------------------------
(* The sessions and their readers: first the steps that open nothing.      *)

LEMMA InSession ==
  ASSUME NEW s, NEW t, t.pane_pids = s.pane_pids
  PROVE  /\ Shells(t) = Shells(s)
         /\ t.master_fds = s.master_fds => Closed(t) = Closed(s)
         /\ t.master_fds = s.master_fds => \A tab, p : Holds(t, tab, p) = Holds(s, tab, p)
  BY DEF Shells, Closed, Holds

(* A session s of the old ones is not missed among the new ones T: whoever *)
(* still reads what it showed finds the same reason in another session.    *)
Passes(s, T, tab, new, cs) ==
  /\ \A c \in Client, p \in Pid :
       p \in Shells(s) /\ Serves(s, tab, c) /\ Sees(new, cs[c], c, p) =>
         Owner(T, new, c, p) \/ ~Listed(T, p)
  /\ \A p \in Pid : Holds(s, tab, p) => Stale(T, new, p) \/ Lost(new, p) \/ ~Listed(T, p)

LEMMA HeldQuiet ==
  ASSUME NEW S, NEW T, NEW tab, NEW new, NEW cs, NEW ncs,
         Single(tab), Shrinks(tab, new), \A c \in Client : Fades(cs[c], ncs[c]),
         Held(S, tab, cs),
         \A t \in T : t \in S \/ (Closed(t) /\ Left(t, new, ncs)),
         \A p \in Pid : Listed(T, p) => Listed(S, p),
         \A s \in S : s \in T \/ Passes(s, T, tab, new, ncs)
  PROVE  Held(T, new, ncs)
<1>1. \A f \in Fd : new[f] = tab[f] \/ new[f] = None
  BY DEF Shrinks
<1>2. \A f \in Fd : \A x :
        tab[f] = x /\ x # None => new[f] = x \/ \A g \in Fd : new[g] # x
  BY <1>1 DEF Single
<1>3. ASSUME NEW t \in S
      PROVE  Left(t, new, ncs)
  <2>1. Left(t, tab, cs)
    BY DEF Held
  <2>2. SUFFICES ASSUME t.detached, t.client_fd \in Fd, new[t.client_fd] \in Client
                 PROVE  ncs[new[t.client_fd]].st \in {"leave", "gone"}
    BY DEF Left
  <2>3. new[t.client_fd] = tab[t.client_fd]
    BY <1>1, <2>2, NamesAssumption
  <2>4. cs[tab[t.client_fd]].st \in {"leave", "gone"} /\ tab[t.client_fd] \in Client
    BY <2>1, <2>2, <2>3 DEF Left
  <2>5. QED
    BY <2>3, <2>4 DEF Fades
<1>4. \A t \in T : Closed(t) /\ Left(t, new, ncs)
  BY <1>3 DEF Held
<1>5. ASSUME NEW c \in Client, NEW p \in Pid, Listed(T, p), Sees(new, ncs[c], c, p)
      PROVE  Owner(T, new, c, p) \/ Stale(T, new, p) \/ Lost(new, p)
  <2>1. c # None /\ p # None
    BY NamesAssumption
  <2>2. Sees(tab, cs[c], c, p) /\ \E f \in Fd : new[f] = c
    BY <1>1, <1>5, <2>1 DEF Sees, Fades
  <2>3. Listed(S, p)
    BY <1>5
  <2>4. CASE Owner(S, tab, c, p)
    <3>1. PICK s \in S : p \in Shells(s) /\ Serves(s, tab, c)
      BY <2>4 DEF Owner
    <3>2. CASE s \in T
      <4>1. Serves(s, new, c)
        BY <1>2, <2>1, <2>2, <3>1 DEF Serves
      <4>2. QED
        BY <3>1, <3>2, <4>1 DEF Owner
    <3>3. CASE s \notin T
      BY <1>5, <3>1, <3>3 DEF Passes
    <3>4. QED
      BY <3>2, <3>3
  <2>5. CASE Stale(S, tab, p)
    <3>1. PICK s \in S : Holds(s, tab, p)
      BY <2>5 DEF Stale
    <3>2. CASE s \in T
      <4>1. Holds(s, new, p) \/ Lost(new, p)
        BY <1>2, <2>1, <3>1 DEF Holds, Lost
      <4>2. QED
        BY <3>2, <4>1 DEF Stale
    <3>3. CASE s \notin T
      BY <1>5, <3>1, <3>3 DEF Passes
    <3>4. QED
      BY <3>2, <3>3
  <2>6. CASE Lost(tab, p)
    BY <1>1, <2>1, <2>6 DEF Lost
  <2>7. QED
    BY <2>2, <2>3, <2>4, <2>5, <2>6 DEF Held, Reading
<1>6. QED
  BY <1>4, <1>5 DEF Held, Reading

(* The sessions stay, or a new one without panes is added.                 *)
LEMMA HeldMore ==
  ASSUME NEW S, NEW T, NEW tab, NEW new, NEW cs, NEW ncs,
         Single(tab), Shrinks(tab, new), \A c \in Client : Fades(cs[c], ncs[c]),
         Held(S, tab, cs), S \subseteq T,
         \A t \in T : t \in S \/ (t.detached = FALSE /\ t.pane_pids = <<>>)
  PROVE  Held(T, new, ncs)
<1>1. \A t \in T : t \in S \/ (Closed(t) /\ Left(t, new, ncs) /\ Shells(t) = {})
  BY NoShells DEF Left
<1>2. \A p \in Pid : Listed(T, p) => Listed(S, p)
  BY <1>1 DEF Listed
<1>3. QED
  BY <1>1, <1>2, HeldQuiet

LEMMA HeldAssociated ==
  ASSUME TypeOK, NEW i \in Slot, NEW type, Received(i, type),
         NEW new, NEW ncs,
         Single(file), Shrinks(file, new), \A c \in Client : Fades(cl[c], ncs[c]),
         Held(Listing(session_list), file, cl)
  PROVE  Held(Listing(Associated(i)), new, ncs)
<1>1. client_fds[i] \in FdOrNone /\ session_list \in Seq(Session)
  BY ReceivedType DEF TypeOK, FdOrNone
<1> DEFINE S == Listing(session_list)
           T == Listing(Associate(session_list, client_fds[i]))
<1>2. /\ S \subseteq T
      /\ \A t \in T : t \in S \/ (t.detached = FALSE /\ t.pane_pids = <<>>)
  BY <1>1, ListingAssociate
<1>3. Held(S, file, cl)
  OBVIOUS
<1> HIDE DEF S, T
<1>4. Held(T, new, ncs)
  BY <1>2, <1>3, HeldMore
<1>5. QED
  BY <1>4 DEF Associated, T

(* A session changes and keeps its panes.                                  *)
LEMMA HeldReplace ==
  ASSUME NEW sl \in Seq(Session), NEW k \in 1 .. Len(sl), NEW t \in Session,
         t.pane_pids = sl[k].pane_pids, t.master_fds = sl[k].master_fds,
         NEW tab, NEW new, NEW cs, NEW ncs,
         Single(tab), Shrinks(tab, new), \A c \in Client : Fades(cs[c], ncs[c]),
         Held(Listing(sl), tab, cs), Left(t, new, ncs),
         \A c \in Client, p \in Pid :
           Serves(sl[k], tab, c) /\ Sees(new, ncs[c], c, p) => Serves(t, new, c)
  PROVE  Held(Listing([sl EXCEPT ![k] = t]), new, ncs)
<1> DEFINE S == Listing(sl)
           T == Listing([sl EXCEPT ![k] = t])
           s == sl[k]
<1>1. /\ t \in T
      /\ \A x \in S : x = s \/ x \in T
      /\ \A x \in T : x = t \/ x \in S
  BY ListingReplace
<1>2. s \in S
  BY DEF Listing
<1>3. Held(S, tab, cs)
  OBVIOUS
<1>4. /\ Shells(t) = Shells(s) /\ Closed(t) = Closed(s)
      /\ \A tb, p : Holds(t, tb, p) = Holds(s, tb, p)
  BY InSession
<1>5. /\ Left(t, new, ncs)
      /\ \A c \in Client, p \in Pid :
           Serves(s, tab, c) /\ Sees(new, ncs[c], c, p) => Serves(t, new, c)
  OBVIOUS
<1> HIDE DEF S, T, s
<1>6. Closed(t)
  BY <1>2, <1>3, <1>4 DEF Held
<1>7. \A x \in T : x \in S \/ (Closed(x) /\ Left(x, new, ncs))
  BY <1>1, <1>5, <1>6
<1>8. \A p \in Pid : Listed(T, p) => Listed(S, p)
  BY <1>1, <1>2, <1>4 DEF Listed
<1>9. Passes(s, T, tab, new, ncs)
  <2>1. ASSUME NEW c \in Client, NEW p \in Pid,
               p \in Shells(s), Serves(s, tab, c), Sees(new, ncs[c], c, p)
        PROVE  Owner(T, new, c, p)
    BY <1>1, <1>4, <1>5, <2>1 DEF Owner
  <2>2. ASSUME NEW p \in Pid, Holds(s, tab, p)
        PROVE  Stale(T, new, p) \/ Lost(new, p)
    <3>1. Holds(s, new, p) \/ Lost(new, p)
      BY <2>2, NamesAssumption DEF Holds, Lost, Shrinks, Single
    <3>2. QED
      BY <1>1, <1>4, <3>1 DEF Stale
  <2>3. QED
    BY <2>1, <2>2 DEF Passes
<1>10. Held(T, new, ncs)
  BY <1>1, <1>3, <1>7, <1>8, <1>9, HeldQuiet
<1>11. QED
  BY <1>10 DEF T

(* A session goes whose numbers are closed, or which has no pane any more. *)
LEMMA HeldDel ==
  ASSUME NEW sl \in Seq(Session), NEW k \in 1 .. Len(sl),
         NEW tab, NEW new, NEW cs, NEW ncs,
         Single(tab), Shrinks(tab, new), \A c \in Client : Fades(cs[c], ncs[c]),
         Held(Listing(sl), tab, cs),
         Len(sl[k].pane_pids) = Len(sl[k].master_fds),
         \/ Shells(sl[k]) = {}
         \/ \A f \in Fd \cap ClosedByKill(sl[k]) : new[f] = None
  PROVE  Held(Listing(ListDel(sl, k)), new, ncs)
<1> DEFINE S == Listing(sl)
           T == Listing(ListDel(sl, k))
           s == sl[k]
<1>1. T \subseteq S /\ \A x \in S : x = s \/ x \in T
  BY ListingDel
<1>2. Passes(s, T, tab, new, ncs)
  <2>1. CASE Shells(s) = {}
    <3>1. \A p : ~Holds(s, tab, p)
      BY <2>1 DEF Holds, Shells
    <3>2. QED
      BY <2>1, <3>1 DEF Passes
  <2>2. CASE \A f \in Fd \cap ClosedByKill(s) : new[f] = None
    <3>1. s.client_fd \in Fd => new[s.client_fd] = None
      BY <2>2 DEF ClosedByKill, Fd, NoFd
    <3>2. \A j \in 1 .. Len(s.master_fds) :
            s.master_fds[j] \in Fd => new[s.master_fds[j]] = None
      BY <2>2 DEF ClosedByKill, MasterNumbers, Fd, NoFd
    <3>3. ASSUME NEW c \in Client, NEW p \in Pid, Serves(s, tab, c)
          PROVE  ~Sees(new, ncs[c], c, p)
      BY <3>1, <3>3, NamesAssumption DEF Serves, Sees, Shrinks, Single
    <3>4. ASSUME NEW p \in Pid, Holds(s, tab, p)
          PROVE  Lost(new, p)
      <4>1. PICK j \in 1 .. Len(s.pane_pids) :
              s.master_fds[j] \in Fd /\ tab[s.master_fds[j]] = p
        BY <3>4 DEF Holds
      <4>2. new[s.master_fds[j]] = None
        BY <3>2, <4>1
      <4>3. QED
        BY <4>1, <4>2, NamesAssumption DEF Lost, Shrinks, Single
    <3>5. QED
      BY <3>3, <3>4 DEF Passes
  <2>3. QED
    BY <2>1, <2>2
<1>3. Held(S, tab, cs)
  OBVIOUS
<1> HIDE DEF S, T, s
<1>4. \A p \in Pid : Listed(T, p) => Listed(S, p)
  BY <1>1 DEF Listed
<1>5. Held(T, new, ncs)
  BY <1>1, <1>2, <1>3, <1>4, HeldQuiet
<1>6. QED
  BY <1>5 DEF T

LEMMA HeldByNone == \A tab, cs : Held(Listing(<<>>), tab, cs)
<1>1. Listing(<<>>) = {}
  BY DEF Listing
<1>2. QED
  BY <1>1 DEF Held, Reading, Listed

(* The session a message concerns, which the daemon creates if need be, is *)
(* the sender's.                                                           *)
LEMMA CurrentType ==
  ASSUME TypeOK, NEW i \in Slot, NEW type, Received(i, type),
         NEW k \in 1 .. Len(Associated(i)), Current(i, k)
  PROVE  /\ Associated(i) \in Seq(Session) /\ Associated(i)[k] \in Session
         /\ Associated(i)[k].client_fd = client_fds[i] /\ client_fds[i] \in Fd
         /\ Associated(i)[k] \in Listing(Associated(i))
         /\ Sender(i) \in Client /\ file[client_fds[i]] = Sender(i)
         /\ Says(inbox[Sender(i)], 1, type)
<1>1. /\ Associated(i) \in Seq(Session) /\ client_fds[i] \in Fd /\ Sender(i) \in Client
  BY ReceivedType
<1>2. Associated(i)[k] \in Session
  BY <1>1, ElementOfSeq
<1>3. Associated(i)[k].client_fd = client_fds[i]
  BY DEF Current, First, WithClientFd
<1>4. Says(inbox[Sender(i)], 1, type)
  <2>1. inbox[Sender(i)] \in Seq(Msg) /\ inbox[Sender(i)] # <<>>
        /\ Head(inbox[Sender(i)]).type = type
    BY <1>1 DEF Received, TypeOK
  <2> HIDE DEF Sender
  <2>2. 1 \in 1 .. Len(inbox[Sender(i)])
        /\ Head(inbox[Sender(i)]) = inbox[Sender(i)][1]
    BY <2>1
  <2>3. QED
    BY <2>1, <2>2 DEF Says
<1>5. Associated(i)[k] \in Listing(Associated(i))
  BY DEF Listing
<1>6. QED
  BY <1>1, <1>2, <1>3, <1>4, <1>5 DEF Sender

LEMMA HeldReceive ==
  ASSUME TypeOK, Panes(session_list, proc, "receive"), Handover,
         NEW i \in Slot, Receive(i), ~SpawnPane(i), ~Attach(i)
  PROVE  Held(Listing(session_list'), file', cl')
<1>1. /\ Single(file) /\ Shrinks(file, file')
      /\ \A c \in Client : Fades(cl[c], cl'[c])
      /\ Held(Listing(session_list), file, cl)
  BY QuietReceive DEF Quiet, Handover, Apart
<1>2. session_list \in Seq(Session) /\ file \in [Fd -> OpenFile \cup {None}]
  BY DEF TypeOK
<1>3. CASE UNCHANGED session_list
  <2>1. Held(Listing(session_list), file', cl')
    BY <1>1, HeldMore
  <2>2. QED
    BY <1>3, <2>1
<1>4. CASE Stop
  BY <1>4, HeldByNone DEF Stop
<1>5. ASSUME NEW type, Received(i, type), session_list' = Associated(i)
      PROVE  Held(Listing(session_list'), file', cl')
  BY <1>1, <1>5, HeldAssociated
<1>6. CASE KillSession(i) /\ ~Stop
  <2>1. PICK k \in 1 .. Len(session_list) :
          /\ session_list' = ListDel(session_list, k)
          /\ HangUp(i, ClosedByKill(session_list[k]))
    BY <1>6 DEF KillSession
  <2>2. \A f \in Fd \cap ClosedByKill(session_list[k]) : file'[f] = None
    BY <2>1 DEF HangUp, Close
  <2>3. Len(session_list[k].pane_pids) = Len(session_list[k].master_fds)
    BY DEF Panes, Kept
  <2>4. Held(Listing(ListDel(session_list, k)), file', cl')
    BY <1>1, <1>2, <2>2, <2>3, HeldDel
  <2>5. QED
    BY <2>1, <2>4
<1>7. ASSUME NEW type, Received(i, type), UNCHANGED <<file, cl>>,
             NEW k \in 1 .. Len(Associated(i)), Current(i, k),
             NEW t \in Session, session_list' = [Associated(i) EXCEPT ![k] = t],
             t.pane_pids = Associated(i)[k].pane_pids,
             t.master_fds = Associated(i)[k].master_fds,
             t.client_fd = Associated(i)[k].client_fd,
             t.detached = Associated(i)[k].detached \/ type = "DETACH"
      PROVE  Held(Listing(session_list'), file', cl')
  <2> DEFINE al == Associated(i)
             s == al[k]
             c == Sender(i)
  <2>1. /\ al \in Seq(Session) /\ k \in 1 .. Len(al) /\ s \in Listing(al)
        /\ s.client_fd = client_fds[i] /\ client_fds[i] \in Fd
        /\ c \in Client /\ file[client_fds[i]] = c /\ Says(inbox[c], 1, type)
    BY <1>7, CurrentType
  <2>2. Held(Listing(al), file, cl) /\ Shrinks(file, file) /\ \A d \in Client : Fades(cl[d], cl[d])
    <3>1. Shrinks(file, file) /\ \A d \in Client : Fades(cl[d], cl[d])
      BY DEF Shrinks, Fades
    <3>2. QED
      BY <1>1, <1>7, <3>1, HeldAssociated
  <2>3. type = "DETACH" => cl[c].st \in {"leave", "gone"}
    BY <2>1 DEF Handover, Talk, TalkOf
  <2> HIDE DEF al, s, c
  <2>4. Left(s, file, cl)
    BY <2>1, <2>2 DEF Held
  <2>5. Left(t, file, cl)
    BY <1>7, <2>1, <2>3, <2>4 DEF Left, al, s
  <2>6. \A d \in Client, p \in Pid :
          Serves(s, file, d) /\ Sees(file, cl[d], d, p) => Serves(t, file, d)
    BY <1>7, <2>1, <2>3 DEF Serves, Sees, al, s
  <2>7. Held(Listing([al EXCEPT ![k] = t]), file, cl)
    BY <1>1, <1>7, <2>1, <2>2, <2>5, <2>6, HeldReplace DEF al, s
  <2>8. QED
    BY <1>7, <2>7 DEF al
<1>8. CASE Detach(i)
  <2>1. Received(i, "DETACH") /\ UNCHANGED <<file, cl>>
    BY <1>8 DEF Detach
  <2>2. PICK k \in 1 .. Len(Associated(i)) :
          /\ Current(i, k)
          /\ session_list' = [Associated(i) EXCEPT
               ![k] = [Associated(i)[k] EXCEPT !.detached = TRUE]]
    BY <1>8 DEF Detach
  <2> DEFINE s == Associated(i)[k]
             t == [s EXCEPT !.detached = TRUE]
  <2>3. s \in Session
    BY <2>1, <2>2, CurrentType
  <2>4. /\ t \in Session /\ t.pane_pids = s.pane_pids /\ t.master_fds = s.master_fds
        /\ t.client_fd = s.client_fd
    BY <2>3 DEF Session
  <2> HIDE DEF t
  <2>5. session_list' = [Associated(i) EXCEPT ![k] = t]
    BY <2>2 DEF t
  <2>6. QED
    BY <1>7, <2>1, <2>2, <2>4, <2>5
<1>9. CASE SaveGrid(i)
  <2>1. Received(i, "GRID_SAVE") /\ UNCHANGED <<file, cl>>
    BY <1>9 DEF SaveGrid
  <2>2. PICK k \in 1 .. Len(Associated(i)) :
          /\ Current(i, k)
          /\ session_list' =
               IF Argument(i) \in Pane
               THEN [Associated(i) EXCEPT
                       ![k].grid_data[Argument(i)] = Head(inbox[Sender(i)]).screen]
               ELSE Associated(i)
    BY <1>9 DEF SaveGrid
  <2> DEFINE s == Associated(i)[k]
             screen == Head(inbox[Sender(i)]).screen
             t == [s EXCEPT !.grid_data[Argument(i)] = screen]
  <2>3. s \in Session /\ screen \in OpenFile \cup {None}
    BY <2>1, <2>2, CurrentType, ReceivedType DEF Msg
  <2>4. /\ t \in Session /\ t.pane_pids = s.pane_pids /\ t.master_fds = s.master_fds
        /\ t.client_fd = s.client_fd /\ t.detached = s.detached
    BY <2>3 DEF Session
  <2>5. session_list' = [Associated(i) EXCEPT ![k] = t] \/ session_list' = Associated(i)
    BY <2>2
  <2> HIDE DEF t
  <2>6. CASE session_list' = Associated(i)
    BY <1>5, <2>1, <2>6
  <2>7. CASE session_list' = [Associated(i) EXCEPT ![k] = t]
    BY <1>7, <2>1, <2>2, <2>4, <2>7
  <2>8. QED
    BY <2>5, <2>6, <2>7
<1>10. QED
  BY <1>3, <1>4, <1>5, <1>6, <1>8, <1>9
     DEF Receive, ReceiveFails, BrokenPipe, ListSessions, KillUnknown, Resize,
         SpawnRefused, SpawnFails, Exited, AttachRefused

LEMMA HeldSweep ==
  ASSUME TypeOK, Single(file), Held(Listing(session_list), file, cl), Sweep
  PROVE  Held(Listing(session_list'), file', cl')
<1>1. PICK k \in ToSweep :
        /\ file' = Close({session_list[k].client_fd}, file)
        /\ session_list' = [session_list EXCEPT
             ![k] = [session_list[k] EXCEPT !.client_fd = NoFd]]
  BY DEF Sweep
<1> DEFINE s == session_list[k]
           t == [s EXCEPT !.client_fd = NoFd]
<1>2. /\ session_list \in Seq(Session) /\ k \in 1 .. Len(session_list) /\ s \in Session
      /\ s.detached
  BY <1>1, ElementOfSeq DEF TypeOK, ToSweep
<1>3. /\ t \in Session /\ t.pane_pids = s.pane_pids /\ t.master_fds = s.master_fds
      /\ t.client_fd = NoFd
  BY <1>2 DEF Session, FdOrNone
<1>4. Shrinks(file, file') /\ \A c \in Client : Fades(cl[c], cl'[c])
  BY <1>1, ShrinksByClosing DEF Sweep, Fades, TypeOK
<1>5. \A c : ~Serves(s, file, c)
  BY <1>2 DEF Serves
<1> HIDE DEF t
<1>6. Left(t, file', cl')
  BY <1>3 DEF Left, Fd, NoFd
<1>7. Held(Listing([session_list EXCEPT ![k] = t]), file', cl')
  BY <1>2, <1>3, <1>4, <1>5, <1>6, HeldReplace
<1>8. QED
  BY <1>1, <1>7 DEF t

LEMMA HeldReap ==
  ASSUME TypeOK, Panes(session_list, proc, "reap"), Single(file),
         Held(Listing(session_list), file, cl), NEW p \in Pid, Reap(p)
  PROVE  Held(Listing(session_list'), file', cl')
<1>1. /\ session_list \in Seq(Session) /\ file \in [Fd -> OpenFile \cup {None}]
      /\ cl' = cl /\ proc' = [proc EXCEPT ![p] = "reaped"] /\ proc \in [Pid -> ProcState]
  BY DEF TypeOK, Reap, ProcState
<1>2. \A c \in Client : Fades(cl[c], cl'[c])
  BY <1>1 DEF Fades
<1>3. CASE UNCHANGED <<session_list, file>>
  BY <1>1, <1>3
<1>4. ASSUME NEW k \in 1 .. Len(session_list), NEW j \in Pane, ReapPane(p, k, j)
      PROVE  Held(Listing(session_list'), file', cl')
  <2> DEFINE S == Listing(session_list)
             T == Listing(session_list')
             s == session_list[k]
             w == WithoutPane(s, j)
             t == IF Shells(w) = {} THEN Ended(w) ELSE w
             n == Len(s.pane_pids)
  <2>1. /\ j \in 1 .. n /\ s.pane_pids[j] = p
        /\ session_list' = [session_list EXCEPT ![k] = t]
        /\ \E fs : file' = Close(fs, file) /\ s.master_fds[j] \in fs
    BY <1>4 DEF ReapPane, ShellOf
  <2>2. s \in Session /\ w \in Session /\ t \in Session
    BY <1>1, ElementOfSeq, WithoutPaneType
  <2>3. /\ s.pane_pids \in Seq(Pid \cup {None}) /\ s.master_fds \in Seq(FdOrNone)
        /\ n \in Nat /\ Len(s.master_fds) = n
    BY <2>2, ShellsType DEF Session, Panes, Kept
  <2>4. /\ w.pane_pids = [s.pane_pids EXCEPT ![j] = None]
        /\ w.master_fds = [s.master_fds EXCEPT ![j] = NoFd]
        /\ w.detached = s.detached /\ w.client_fd = s.client_fd
    BY <2>2 DEF WithoutPane, Session
  <2>5. /\ Len(w.pane_pids) = n
        /\ \A i \in 1 .. n : w.pane_pids[i] = IF i = j THEN None ELSE s.pane_pids[i]
        /\ \A i \in 1 .. n : w.master_fds[i] = IF i = j THEN NoFd ELSE s.master_fds[i]
    BY <2>1, <2>3, <2>4
  <2>6. /\ t.pane_pids = w.pane_pids /\ t.master_fds = w.master_fds
        /\ t.detached = s.detached
        /\ t.client_fd = IF Shells(w) = {} THEN NoFd ELSE s.client_fd
    BY <2>2, <2>4 DEF Ended, Session
  <2>7. /\ t \in T
        /\ \A x \in S : x = s \/ x \in T
        /\ \A x \in T : x = t \/ x \in S
    BY <1>1, <2>1, <2>2, ListingReplace
  <2>8. s \in S /\ Held(S, file, cl)
    BY DEF Listing
  <2>9. /\ Shrinks(file, file')
        /\ s.master_fds[j] \in Fd => file'[s.master_fds[j]] = None
    <3>1. PICK fs : file' = Close(fs, file) /\ s.master_fds[j] \in fs
      BY <2>1
    <3>2. Shrinks(file, file')
      BY <1>1, <3>1, ShrinksByClosing
    <3>3. \A f \in Fd : f \in fs => file'[f] = None
      BY <3>1 DEF Close
    <3>4. QED
      BY <3>1, <3>2, <3>3
  <2>10. ~Listed(T, p)
    <3>1. Panes(session_list', proc', "reap") /\ proc'[p] = "reaped"
      BY <1>1, ReapPanes
    <3>2. QED
      BY <3>1 DEF Panes, Kept, Started, Listed, Listing
  <2>11. Shells(w) = Shells(t)
    BY <2>6 DEF Shells
  <2> HIDE DEF S, T, t, w
  (* The session keeps its other shells, and so its client. *)
  <2>12. Shells(t) \subseteq Shells(s)
    BY <2>5, <2>6 DEF Shells
  <2>13. \A q \in Shells(s) : q = p \/ q \in Shells(t)
    BY <2>1, <2>5, <2>6 DEF Shells
  <2>14. Closed(t) /\ Left(t, file', cl')
    <3>1. Closed(t)
      BY <2>5, <2>6, <2>8 DEF Closed, Held
    <3>2. Left(s, file', cl')
      BY <1>1, <2>8, <2>9, NamesAssumption DEF Held, Left, Shrinks
    <3>3. QED
      BY <2>6, <3>1, <3>2 DEF Left, Fd, NoFd
  <2>15. Passes(s, T, file, file', cl')
    <3>1. ASSUME NEW c \in Client, NEW q \in Pid, q \in Shells(s), Serves(s, file, c),
                 Sees(file', cl'[c], c, q), Listed(T, q)
          PROVE  Owner(T, file', c, q)
      <4>1. q \in Shells(t)
        BY <2>10, <2>13, <3>1
      <4>2. t.client_fd = s.client_fd
        BY <2>6, <2>11, <4>1
      <4>3. file'[s.client_fd] = c
        BY <2>9, <3>1, NamesAssumption DEF Sees, Serves, Shrinks, Single
      <4>4. Serves(t, file', c)
        BY <2>6, <3>1, <4>2, <4>3 DEF Serves
      <4>5. QED
        BY <2>7, <4>1, <4>4 DEF Owner
    <3>2. ASSUME NEW q \in Pid, Holds(s, file, q)
          PROVE  Stale(T, file', q) \/ Lost(file', q)
      <4>1. PICK i \in 1 .. n : /\ s.pane_pids[i] \notin {None, q}
                               /\ s.master_fds[i] \in Fd /\ file[s.master_fds[i]] = q
        BY <3>2 DEF Holds
      <4>2. CASE file'[s.master_fds[i]] = q
        <5>1. i # j
          BY <2>9, <4>1, <4>2, NamesAssumption
        <5>2. Holds(t, file', q)
          BY <2>5, <2>6, <4>1, <4>2, <5>1 DEF Holds
        <5>3. QED
          BY <2>7, <5>2 DEF Stale
      <4>3. CASE file'[s.master_fds[i]] # q
        BY <2>9, <4>1, <4>3, NamesAssumption DEF Lost, Shrinks, Single
      <4>4. QED
        BY <4>2, <4>3
    <3>3. QED
      BY <3>1, <3>2 DEF Passes
  <2>16. \A q \in Pid : Listed(T, q) => Listed(S, q)
    BY <2>7, <2>8, <2>12 DEF Listed
  <2>17. Held(T, file', cl')
    BY <1>2, <2>7, <2>8, <2>9, <2>14, <2>15, <2>16, HeldQuiet
  <2>18. QED
    BY <2>17 DEF T
<1>5. QED
  BY <1>3, <1>4 DEF Reap

LEMMA HeldClean ==
  ASSUME TypeOK, Panes(session_list, proc, pc), Single(file),
         Held(Listing(session_list), file, cl), Clean
  PROVE  Held(Listing(session_list'), file', cl')
<1>1. PICK k \in 1 .. Len(session_list) :
        session_list[k].child_exited /\ session_list' = ListDel(session_list, k)
  BY DEF Clean, ToClean
<1>2. /\ session_list \in Seq(Session)
      /\ Shrinks(file, file') /\ \A c \in Client : Fades(cl[c], cl'[c])
  BY DEF TypeOK, Clean, Shrinks, Fades
<1>3. /\ Shells(session_list[k]) = {}
      /\ Len(session_list[k].pane_pids) = Len(session_list[k].master_fds)
  BY <1>1 DEF Panes, Kept
<1>4. Held(Listing(ListDel(session_list, k)), file', cl')
  BY <1>2, <1>3, HeldDel
<1>5. QED
  BY <1>1, <1>4

(* Now the steps that open something.  A new connection has no pane.       *)
LEMMA HeldAccept ==
  ASSUME TypeOK, AcceptHasConnection, Swept, Apart,
         Held(Listing(session_list), file, cl), Accept
  PROVE  Held(Listing(session_list'), file', cl')
<1> DEFINE c == Head(backlog)
           S == Listing(session_list)
<1>1. PICK f \in Fd : file[f] = None /\ file' = [file EXCEPT ![f] = c]
  BY DEF Accept, LowestFree
<1>2. UNCHANGED <<cl, session_list>>
  BY DEF Accept
<1>3. c \in Client /\ cl[c].panes = <<>>
  <2>1. backlog \in Seq(Client) /\ backlog # <<>>
    BY DEF Accept, AcceptHasConnection, TypeOK
  <2>2. 1 \in 1 .. Len(backlog) /\ c = backlog[1]
    BY <2>1
  <2>3. QED
    BY <2>1, <2>2 DEF Apart, Waiting
<1> HIDE DEF c
<1>4. \A g \in Fd : file'[g] = IF g = f THEN c ELSE file[g]
  BY <1>1 DEF TypeOK
<1>5. \A s \in S : s.detached => s.client_fd = NoFd
  BY DEF Accept, Swept, Listing
<1>6. \A s \in S : Left(s, file', cl')
  BY <1>5 DEF Left, Fd, NoFd
<1>7. \A p : ~Has(cl[c], p)
  <2>1. Len(cl[c].panes) = 0
    BY <1>3
  <2>2. QED
    BY <2>1 DEF Has
<1> HIDE DEF S
<1>8. ASSUME NEW d \in Client, NEW p \in Pid, Listed(S, p), Sees(file', cl[d], d, p)
      PROVE  Owner(S, file', d, p) \/ Stale(S, file', p) \/ Lost(file', p)
  <2>1. d # c /\ p # c /\ d # None /\ p # None
    BY <1>3, <1>7, <1>8, NamesAssumption DEF Sees
  <2>2. Sees(file, cl[d], d, p)
    BY <1>4, <1>8, <2>1 DEF Sees
  <2>3. Owner(S, file, d, p) \/ Stale(S, file, p) \/ Lost(file, p)
    BY <1>8, <2>2 DEF Held, Reading, S
  <2>4. Owner(S, file, d, p) => Owner(S, file', d, p)
    BY <1>1, <1>4, <2>1 DEF Owner, Serves
  <2>5. Stale(S, file, p) => Stale(S, file', p)
    BY <1>1, <1>4, <2>1 DEF Stale, Holds
  <2>6. Lost(file, p) => Lost(file', p)
    BY <1>4, <2>1 DEF Lost
  <2>7. QED
    BY <2>3, <2>4, <2>5, <2>6
<1>9. QED
  BY <1>2, <1>6, <1>8 DEF Held, Reading, S

(* Nor has a client that starts, and it is not connected yet.              *)
LEMMA HeldStart ==
  ASSUME TypeOK, Apart, Held(Listing(session_list), file, cl),
         NEW c \in Client, NEW st, NEW out, Start(c, st, out)
  PROVE  Held(Listing(session_list'), file', cl')
<1>1. /\ UNCHANGED <<file, session_list>>
      /\ \A d \in Client : d # c => cl'[d] = cl[d]
  BY DEF Start, server, TypeOK
<1>2. \A f \in Fd : file[f] # c
  BY DEF Start, Apart, Waiting
<1>3. \A s \in Listing(session_list) : Left(s, file, cl) => Left(s, file, cl')
  BY <1>1, <1>2 DEF Left
<1>4. \A d \in Client, p \in Pid :
        Sees(file, cl'[d], d, p) => Sees(file, cl[d], d, p)
  BY <1>1, <1>2 DEF Sees
<1>5. QED
  BY <1>1, <1>3, <1>4 DEF Held, Reading

(* A new shell is read by the client it was started for, whose session is  *)
(* not detached.                                                           *)
LEMMA HeldSpawn ==
  ASSUME TypeOK, Panes(session_list, proc, "receive"), Handover,
         NEW i \in Slot, SpawnPane(i)
  PROVE  Held(Listing(session_list'), file', cl')
<1>1. Received(i, "COMMAND")
  BY DEF SpawnPane
<1>2. PICK k \in 1 .. Len(Associated(i)), p \in Pid, g \in Fd :
        /\ Current(i, k)
        /\ LowestFree(g)
        /\ proc[p] = "none"
        /\ file' = [file EXCEPT ![g] = p]
        /\ session_list' = [Associated(i) EXCEPT
             ![k].master_fds = Append(@, g), ![k].pane_pids = Append(@, p)]
        /\ cl' = [cl EXCEPT ![Sender(i)].st = "run",
                            ![Sender(i)].panes = Append(@, p)]
  BY ZenonT(60) DEF SpawnPane
<1> DEFINE al == Associated(i)
           A == Listing(al)
           T == Listing(session_list')
           s == al[k]
           t == [s EXCEPT !.master_fds = Append(@, g), !.pane_pids = Append(@, p)]
           c == Sender(i)
           n == Len(s.pane_pids)
<1>3. /\ al \in Seq(Session) /\ s \in Session /\ s \in A
      /\ s.client_fd = client_fds[i] /\ client_fds[i] \in Fd
      /\ c \in Client /\ file[client_fds[i]] = c
  BY <1>1, <1>2, CurrentType
<1>4. cl[c].st = "spawn"
  BY TalkAnswer DEF Handover
<1>5. Held(A, file, cl)
  <2>1. Shrinks(file, file) /\ \A d \in Client : Fades(cl[d], cl[d])
    BY DEF Shrinks, Fades
  <2>2. QED
    BY <1>1, <2>1, HeldAssociated DEF Handover, Apart
<1>6. Panes(al, proc, "receive")
  BY <1>3, PanesAssociate DEF Associated, TypeOK, FdOrNone
<1>7. /\ file \in [Fd -> OpenFile \cup {None}] /\ file[g] = None
      /\ \A f \in Fd : file[f] # p
      /\ \A d \in Client : ~Has(cl[d], p)
  BY <1>2 DEF TypeOK, LowestFree, Handover, Apart, Unborn
<1>8. \A f \in Fd : file'[f] = IF f = g THEN p ELSE file[f]
  BY <1>2, <1>7
<1>9. /\ t \in Session /\ t.detached = s.detached /\ t.client_fd = s.client_fd
      /\ t.pane_pids = Append(s.pane_pids, p) /\ t.master_fds = Append(s.master_fds, g)
  BY <1>2, <1>3, WithPaneType DEF Session
<1>10. /\ n \in Nat /\ Len(s.master_fds) = n /\ Len(t.pane_pids) = n + 1
       /\ t.pane_pids[n + 1] = p /\ t.master_fds[n + 1] = g
       /\ \A j \in 1 .. n : /\ t.pane_pids[j] = s.pane_pids[j]
                            /\ t.master_fds[j] = s.master_fds[j]
  <2>1. /\ s.pane_pids \in Seq(Pid \cup {None}) /\ s.master_fds \in Seq(FdOrNone)
        /\ n \in Nat /\ Len(s.master_fds) = n /\ g \in FdOrNone
    BY <1>2, <1>3, <1>6, ShellsType DEF Session, Panes, Kept, FdOrNone
  <2>2. QED
    BY <1>9, <2>1, AppendProperties
<1>11. \A j \in 1 .. (n + 1) : j \in 1 .. n \/ j = n + 1
  BY <1>10
<1>12. /\ t \in T
       /\ \A x \in A : x = s \/ x \in T
       /\ \A x \in T : x = t \/ x \in A
  <2>1. session_list' = [al EXCEPT ![k] = t]
    BY <1>2, <1>3 DEF Session
  <2>2. al \in Seq(Session) /\ k \in 1 .. Len(al) /\ t \in Session
    BY <1>2, <1>3, <1>9
  <2> HIDE DEF t, al
  <2>3. QED
    BY <2>1, <2>2, ListingReplace
<1>13. /\ cl'[c].st = "run"
       /\ \A q : Has(cl'[c], q) <=> Has(cl[c], q) \/ q = p
       /\ \A d \in Client : d # c => cl'[d] = cl[d]
  <2>1. cl \in [Client -> ClientState]
    BY DEF TypeOK
  <2>2. /\ cl'[c].st = "run" /\ cl'[c].panes = Append(cl[c].panes, p)
        /\ \A d \in Client : d # c => cl'[d] = cl[d]
    BY <1>2, <1>3, <2>1 DEF ClientState
  <2>3. cl[c].panes \in Seq(OpenFile \cup {None})
    BY <1>3, <2>1 DEF ClientState
  <2>4. QED
    BY <2>2, <2>3, HasAppend
<1> HIDE DEF al, A, T, s, t, c
<1>14. /\ Shells(s) \subseteq Shells(t) /\ p \in Shells(t)
       /\ \A q \in Shells(t) : q = p \/ q \in Shells(s)
  <2>1. n + 1 \in 1 .. (n + 1) /\ \A j \in 1 .. n : j \in 1 .. (n + 1)
    BY <1>10
  <2>2. p # None /\ Len(s.pane_pids) = n /\ Len(t.pane_pids) = n + 1
    BY <1>10, NamesAssumption DEF n
  <2>3. /\ \A j \in 1 .. n : t.pane_pids[j] = s.pane_pids[j]
        /\ t.pane_pids[n + 1] = p
    BY <1>10
  <2>4. \A j \in 1 .. (n + 1) : j \in 1 .. n \/ t.pane_pids[j] = p
    BY <1>11, <2>3
  <2>5. QED
    BY <2>1, <2>2, <2>3, <2>4 DEF Shells
<1>15. s.detached = FALSE
  <2>1. Left(s, file, cl) /\ s.detached \in BOOLEAN
    BY <1>3, <1>5 DEF Held, Session
  <2>2. QED
    BY <1>3, <1>4, <2>1 DEF Left
<1>16. p # None /\ p # c /\ c # None
  BY <1>3, NamesAssumption
<1>17. Closed(t)
  <2>1. Closed(s)
    BY <1>3, <1>5 DEF Held
  <2>2. QED
    BY <1>10, <1>11, <1>16, <2>1 DEF Closed
<1>18. ASSUME NEW x \in T
       PROVE  Closed(x) /\ Left(x, file', cl')
  <2>1. CASE x = t
    BY <1>9, <1>15, <1>17, <2>1 DEF Left
  <2>2. CASE x \in A
    <3>1. Closed(x) /\ Left(x, file, cl)
      BY <1>5, <2>2 DEF Held
    <3>2. SUFFICES ASSUME x.detached, x.client_fd \in Fd, file'[x.client_fd] \in Client
                   PROVE  cl'[file'[x.client_fd]].st \in {"leave", "gone"}
      BY <3>1 DEF Left
    <3>3. file'[x.client_fd] = file[x.client_fd]
      BY <1>8, <3>2, NamesAssumption
    <3>4. cl[file[x.client_fd]].st \in {"leave", "gone"} /\ file[x.client_fd] \in Client
      BY <3>1, <3>2, <3>3 DEF Left
    <3>5. cl'[file[x.client_fd]] = cl[file[x.client_fd]]
      BY <1>4, <1>13, <3>4
    <3>6. QED
      BY <3>3, <3>4, <3>5
  <2>3. QED
    BY <1>12, <2>1, <2>2
<1>19. ASSUME NEW d \in Client, NEW q \in Pid, Listed(T, q), Sees(file', cl'[d], d, q)
       PROVE  Owner(T, file', d, q) \/ Stale(T, file', q) \/ Lost(file', q)
  <2>1. d # None /\ q # None /\ d # p
    BY NamesAssumption
  <2>2. CASE q = p
    <3>1. d = c
      BY <1>7, <1>13, <1>19, <2>2 DEF Sees
    <3>2. Serves(t, file', c)
      BY <1>3, <1>7, <1>8, <1>9, <1>15, <1>16 DEF Serves
    <3>3. QED
      BY <1>12, <1>14, <2>2, <3>1, <3>2 DEF Owner
  <2>3. CASE q # p
    <3>1. Listed(A, q)
      BY <1>3, <1>12, <1>14, <1>19, <2>3 DEF Listed
    <3>2. Sees(file, cl[d], d, q)
      BY <1>4, <1>8, <1>13, <1>19, <2>1, <2>3 DEF Sees
    <3>3. Owner(A, file, d, q) \/ Stale(A, file, q) \/ Lost(file, q)
      BY <1>5, <3>1, <3>2 DEF Held, Reading
    <3>4. ASSUME Owner(A, file, d, q)
          PROVE  Owner(T, file', d, q)
      <4>1. PICK x \in A : q \in Shells(x) /\ Serves(x, file, d)
        BY <3>4 DEF Owner
      <4>2. Serves(x, file', d)
        BY <1>7, <1>8, <2>1, <4>1 DEF Serves
      <4>3. x = s => Serves(t, file', d) /\ q \in Shells(t)
        BY <1>9, <1>14, <4>1, <4>2 DEF Serves
      <4>4. QED
        BY <1>12, <4>1, <4>2, <4>3 DEF Owner
    <3>5. ASSUME Stale(A, file, q)
          PROVE  Stale(T, file', q)
      <4>1. PICK x \in A : Holds(x, file, q)
        BY <3>5 DEF Stale
      <4>2. Holds(x, file', q)
        BY <1>7, <1>8, <2>1, <4>1 DEF Holds
      <4>3. x = s => Holds(t, file', q)
        <5>1. \A j \in 1 .. n : j \in 1 .. (n + 1)
          BY <1>10
        <5>2. QED
          BY <1>10, <4>2, <5>1 DEF Holds
      <4>4. QED
        BY <1>12, <4>2, <4>3 DEF Stale
    <3>6. Lost(file, q) => Lost(file', q)
      BY <1>8, <2>3 DEF Lost
    <3>7. QED
      BY <3>3, <3>4, <3>5, <3>6
  <2>4. QED
    BY <2>2, <2>3
<1>20. Held(T, file', cl')
  BY <1>18, <1>19 DEF Held, Reading
<1>21. QED
  BY <1>20 DEF T

(* The session of an attach was detached, so nobody was its client; the    *)
(* new client gets what is behind the numbers of its panes.                *)
LEMMA HeldAttach ==
  ASSUME TypeOK, Panes(session_list, proc, "receive"), Handover,
         NEW i \in Slot, Attach(i)
  PROVE  Held(Listing(session_list'), file', cl')
<1> DEFINE c == Sender(i)
           al == Associated(i)
           A == Listing(al)
           T == Listing(session_list')
<1>1. Received(i, "ATTACH")
  BY DEF Attach
<1>2. /\ UNCHANGED <<file, proc>>
      /\ c \in Client /\ client_fds[i] \in Fd /\ file[client_fds[i]] = c
      /\ \A d \in Client : d # c => cl'[d] = cl[d]
  BY AttachShape
<1>3. PICK k \in 1 .. Len(al) :
        /\ AttachGranted(i, k)
        /\ \A q : Has(cl'[c], q) =>
             \E j \in 1 .. Len(al[k].master_fds) :
               /\ al[k].master_fds[j] \in Fd
               /\ file[al[k].master_fds[j]] = q
               /\ q # None
  BY AttachShape
<1>4. cl[c].st = "wait"
  <2>1. ~SpawnPane(i)
    BY <1>1 DEF SpawnPane, Received
  <2>2. QED
    BY <2>1, TalkAnswer DEF Handover
<1>5. Held(A, file, cl)
  <2>1. Shrinks(file, file) /\ \A d \in Client : Fades(cl[d], cl[d])
    BY DEF Shrinks, Fades
  <2>2. QED
    BY <1>1, <2>1, HeldAssociated DEF Handover, Apart
<1>6. al \in Seq(Session) /\ Panes(al, proc, "receive")
  BY <1>1, ReceivedType, PanesAssociate DEF Associated, TypeOK, FdOrNone
<1> DEFINE s == al[k]
           grids == [m \in Pane |-> IF m <= PaneCount(s) THEN None ELSE s.grid_data[m]]
           t == [s EXCEPT !.client_fd = client_fds[i], !.detached = FALSE,
                          !.grid_data = grids]
<1>7. s \in Session /\ s \in A /\ s.detached /\ Len(s.pane_pids) = Len(s.master_fds)
  BY <1>3, <1>6, ElementOfSeq DEF AttachGranted, AttachTarget, Listing, Panes, Kept
<1>8. grids \in [Pane -> OpenFile \cup {None}]
  BY <1>7 DEF Session
<1>9. /\ t \in Session /\ t.pane_pids = s.pane_pids /\ t.master_fds = s.master_fds
      /\ t.client_fd = client_fds[i] /\ t.detached = FALSE
  BY <1>2, <1>7, <1>8 DEF Session, FdOrNone
<1>10. session_list' = [al EXCEPT ![k] = t]
  BY <1>3 DEF AttachGranted
<1> HIDE DEF t, grids, al
<1>11. /\ t \in T
       /\ \A x \in A : x = s \/ x \in T
       /\ \A x \in T : x = t \/ x \in A
  BY <1>3, <1>6, <1>9, <1>10, ListingReplace
<1>12. /\ Shells(t) = Shells(s) /\ Closed(t) = Closed(s)
       /\ \A tab, q : Holds(t, tab, q) = Holds(s, tab, q)
  BY <1>9, InSession
<1> HIDE DEF A, T, s, c
<1>13. Closed(s)
  BY <1>5, <1>7 DEF Held
<1>14. ASSUME NEW x \in T
       PROVE  Closed(x) /\ Left(x, file', cl')
  <2>1. CASE x = t
    BY <1>9, <1>12, <1>13, <2>1 DEF Left
  <2>2. CASE x \in A
    <3>1. Closed(x) /\ Left(x, file, cl)
      BY <1>5, <2>2 DEF Held
    <3>2. Left(x, file, cl')
      BY <1>2, <1>4, <3>1 DEF Left
    <3>3. QED
      BY <1>2, <3>1, <3>2
  <2>3. QED
    BY <1>11, <2>1, <2>2
<1>15. ASSUME NEW d \in Client, NEW q \in Pid, Listed(T, q), Sees(file, cl'[d], d, q)
       PROVE  Owner(T, file, d, q) \/ Stale(T, file, q) \/ Lost(file, q)
  <2>1. CASE d = c
    <3>1. PICK j \in 1 .. Len(s.master_fds) :
            s.master_fds[j] \in Fd /\ file[s.master_fds[j]] = q
      BY <1>3, <1>15, <2>1 DEF Sees, s
    <3>2. s.pane_pids[j] # None
      BY <1>7, <1>13, <3>1 DEF Closed, Fd, NoFd
    <3>3. CASE s.pane_pids[j] = q
      <4>1. q \in Shells(s)
        BY <1>7, <3>1, <3>2, <3>3 DEF Shells
      <4>2. Serves(t, file, c)
        BY <1>2, <1>9 DEF Serves
      <4>3. QED
        BY <1>11, <1>12, <2>1, <4>1, <4>2 DEF Owner
    <3>4. CASE s.pane_pids[j] # q
      <4>1. Holds(s, file, q)
        BY <1>7, <3>1, <3>2, <3>4 DEF Holds
      <4>2. QED
        BY <1>11, <1>12, <4>1 DEF Stale
    <3>5. QED
      BY <3>3, <3>4
  <2>2. CASE d # c
    <3>1. Listed(A, q) /\ Sees(file, cl[d], d, q)
      BY <1>2, <1>7, <1>11, <1>12, <1>15, <2>2 DEF Listed
    <3>2. Owner(A, file, d, q) \/ Stale(A, file, q) \/ Lost(file, q)
      BY <1>5, <3>1 DEF Held, Reading
    <3>3. Owner(A, file, d, q) => Owner(T, file, d, q)
      BY <1>7, <1>11 DEF Owner, Serves
    <3>4. Stale(A, file, q) => Stale(T, file, q)
      BY <1>11, <1>12 DEF Stale
    <3>5. QED
      BY <3>2, <3>3, <3>4
  <2>3. QED
    BY <2>1, <2>2
<1>16. Held(T, file', cl')
  BY <1>2, <1>14, <1>15 DEF Held, Reading
<1>17. QED
  BY <1>16 DEF T

LEMMA HeldStep ==
  ASSUME TypeOK, AcceptHasConnection, PanesKept, Swept, Handover, [Next]_vars
  PROVE  Held(Listing(session_list'), file', cl')
<1>1. Apart /\ Single(file) /\ Held(Listing(session_list), file, cl)
  BY DEF Handover, Apart
<1>2. CASE UNCHANGED session_list /\ Quiet
  <2>1. Held(Listing(session_list), file', cl')
    BY <1>1, <1>2, HeldMore DEF Quiet
  <2>2. QED
    BY <1>2, <2>1
<1>3. CASE SelectFails
  BY <1>3, HeldByNone DEF SelectFails, Stop
<1>4. CASE Accept
  BY <1>1, <1>4, HeldAccept
<1>5. ASSUME NEW i \in Slot, Receive(i)
      PROVE  Held(Listing(session_list'), file', cl')
  <2>1. Panes(session_list, proc, "receive")
    BY <1>5, ReceiveStays DEF PanesKept
  <2>2. QED
    BY <1>5, <2>1, HeldReceive, HeldSpawn, HeldAttach
<1>6. CASE Sweep
  BY <1>1, <1>6, HeldSweep
<1>7. ASSUME NEW p \in Pid, Reap(p)
      PROVE  Held(Listing(session_list'), file', cl')
  <2>1. Panes(session_list, proc, "reap")
    BY <1>7 DEF Reap, PanesKept
  <2>2. QED
    BY <1>1, <1>7, <2>1, HeldReap
<1>8. CASE Clean
  <2>1. Panes(session_list, proc, pc)
    BY <1>8 DEF Clean, PanesKept
  <2>2. QED
    BY <1>1, <1>8, <2>1, HeldClean
<1>9. ASSUME NEW c \in Client, ClientStep(c)
      PROVE  Held(Listing(session_list'), file', cl')
  <2>1. CASE backlog' = backlog
    <3>1. UNCHANGED session_list
      BY <1>9 DEF ClientStep, StartNew, StartAttach, StartList, StartKill, Start,
         Send, ServerEof, PaneSplit, DetachKey, PaneEof, Die, server
    <3>2. QED
      BY <1>2, <1>9, <2>1, <3>1, QuietClient
  <2>2. CASE backlog' # backlog
    <3>1. \E st, out : Start(c, st, out)
      BY <1>9, <2>2 DEF ClientStep, StartNew, StartAttach, StartList, StartKill,
         Send, ServerEof, PaneSplit, DetachKey, PaneEof, Die
    <3>2. QED
      BY <1>1, <3>1, HeldStart
  <2>3. QED
    BY <2>1, <2>2
<1>10. CASE \/ EnterSelect \/ SelectReturns \/ AcceptFails \/ ReceiveDone \/ SweepDone
            \/ ReapDone \/ CleanDone \/ (\E p \in Pid : ShellExit(p)) \/ UNCHANGED vars
  <2>1. UNCHANGED <<session_list, file, cl>>
    BY <1>10 DEF EnterSelect, SelectReturns, AcceptFails, ReceiveDone, SweepDone,
       ReapDone, CleanDone, ShellExit, vars, server
  <2>2. QED
    BY <1>1, <2>1
<1>11. QED
  BY <1>3, <1>4, <1>5, <1>6, <1>7, <1>8, <1>9, <1>10 DEF Next, ServerStep

LEMMA InitHandover == Init => Handover
<1> SUFFICES ASSUME Init PROVE Handover
  OBVIOUS
<1>1. \A n, type : ~Says(<<>>, n, type)
  BY DEF Says
<1>2. Talk
  BY <1>1 DEF Init, Talk, TalkOf
<1>3. /\ backlog = <<>> /\ Len(backlog) = 0 /\ 1 .. Len(backlog) = {}
      /\ \A f \in Fd : file[f] = None
      /\ \A c \in Client : cl[c].panes = <<>> /\ Len(cl[c].panes) = 0
  BY DEF Init
<1>4. \A c \in Client : \A p : ~Has(cl[c], p)
  BY <1>3 DEF Has
<1>5. Apart
  BY <1>3, <1>4, NamesAssumption DEF Apart, Single, Waiting, Unborn
<1>6. Held(Listing(session_list), file, cl)
  BY HeldByNone DEF Init
<1>7. QED
  BY <1>2, <1>5, <1>6 DEF Handover

-----------------------------------------------------------------------------
(* The conversations, the descriptor table and the readers stay in order,  *)
(* whatever numbers are closed and given out again (server.c:283-341,      *)
(* 416-518): the inductive invariant.                                      *)
THEOREM HandoverIsKept == Spec => []Handover
<1>1. Init => Handover
  BY InitHandover
<1>2. IInv /\ PanesKept /\ Swept /\ Handover /\ [Next]_vars => Handover'
  BY TalkStep, ApartStep, HeldStep DEF IInv, Handover
<1>3. QED
  BY <1>1, <1>2, Invariance, PanesAreKept, PTL DEF Spec

(* While the numbers are intact, whoever reads the PTY of a listed shell   *)
(* is the client of a session with that shell.                             *)
LEMMA ReaderIsClient ==
  ASSUME TypeOK, MastersIntact, Held(Listing(session_list), file, cl),
         NEW k \in 1 .. Len(session_list), NEW p \in Shells(session_list[k]),
         NEW c \in Client, Reads(c, p)
  PROVE  \E m \in 1 .. Len(session_list) :
           p \in Shells(session_list[m]) /\ Serves(session_list[m], file, c)
<1> DEFINE S == Listing(session_list)
<1>1. session_list[k] \in S /\ \A s \in S : \E m \in 1 .. Len(session_list) : s = session_list[m]
  BY DEF Listing
<1>2. p \in Pid
  <2>1. session_list[k] \in Session
    BY ElementOfSeq DEF TypeOK
  <2>2. QED
    BY <2>1, ShellsType
<1>3. Sees(file, cl[c], c, p)
  BY DEF Reads, Sees, Has
<1>4. Owner(S, file, c, p) \/ Stale(S, file, p) \/ Lost(file, p)
  BY <1>1, <1>2, <1>3 DEF Held, Reading, Listed
<1>5. ~Lost(file, p)
  <2>1. PICK j \in 1 .. Len(session_list[k].pane_pids) :
          session_list[k].pane_pids[j] = p /\ p # None
    BY DEF Shells
  <2>2. QED
    BY <2>1 DEF MastersIntact, Lost
<1>6. ~Stale(S, file, p)
  <2>1. \A m \in 1 .. Len(session_list) : ~Holds(session_list[m], file, p)
    BY DEF Holds, MastersIntact
  <2>2. QED
    BY <1>1, <2>1 DEF Stale
<1>7. QED
  BY <1>1, <1>4, <1>5, <1>6 DEF Owner

(* One terminal, one client, for every number of clients, sessions and     *)
(* shells, while the numbers are intact (server.c:283-341).                *)
THEOREM AttachIsExclusive == Spec => []AttachExclusive
<1> DEFINE DownIsBare == pc = "down" => session_list = <<>>
<1>1. Init => DownIsBare
  BY DEF Init
<1>2. DownIsBare /\ [Next]_vars => DownIsBare'
  <2> SUFFICES ASSUME DownIsBare, [Next]_vars, pc' = "down"
               PROVE  session_list' = <<>>
    OBVIOUS
  <2>1. CASE pc = "down" /\ \E c \in Client : ClientStep(c)
    BY <2>1 DEF ClientStep, StartNew, StartAttach, StartList, StartKill, Start,
         Send, ServerEof, PaneSplit, DetachKey, PaneEof, Die, server
  <2>2. CASE pc # "down" /\ \E c \in Client : ClientStep(c)
    BY <2>2 DEF ClientStep, StartNew, StartAttach, StartList, StartKill, Start,
         Send, ServerEof, PaneSplit, DetachKey, PaneEof, Die, server
  <2>3. ASSUME NEW i \in Slot, Receive(i)
        PROVE  session_list' = <<>>
    <3>1. pc = "receive"
      BY <2>3, ReceiveStays
    <3>2. Stop \/ (\E fs : HangUp(i, fs)) \/ NextSlot(i)
      BY <2>3 DEF Receive, ReceiveFails, BrokenPipe, ListSessions, KillSession, KillUnknown,
         Resize, SpawnPane, SpawnRefused, SpawnFails, Exited, Detach, Attach,
         AttachRefused, SaveGrid
    <3>3. QED
      BY <3>1, <3>2 DEF Stop, HangUp, NextSlot
  <2>4. CASE \/ EnterSelect \/ SelectFails \/ SelectReturns \/ Accept \/ AcceptFails
             \/ ReceiveDone \/ Sweep \/ SweepDone \/ (\E p \in Pid : Reap(p))
             \/ ReapDone \/ Clean \/ CleanDone
    BY <2>4 DEF EnterSelect, SelectFails, SelectReturns, Accept, AcceptFails,
         ReceiveDone, Sweep, SweepDone, Reap, ReapDone, Clean, CleanDone, Stop
  <2>5. CASE (\E p \in Pid : ShellExit(p)) \/ UNCHANGED vars
    BY <2>5 DEF ShellExit, vars, server
  <2>6. QED
    BY <2>1, <2>2, <2>3, <2>4, <2>5 DEF Next, ServerStep
<1>3. TypeOK /\ PanesKept /\ DownIsBare /\ Handover => AttachExclusive
  <2> SUFFICES ASSUME TypeOK, PanesKept, DownIsBare, Handover, MastersIntact,
                      NEW k \in 1 .. Len(session_list), NEW p \in Shells(session_list[k]),
                      NEW c \in Client, NEW d \in Client, Reads(c, p), Reads(d, p)
               PROVE  c = d
    BY DEF AttachExclusive
  <2>1. Held(Listing(session_list), file, cl)
    BY DEF Handover
  <2>2. PICK m \in 1 .. Len(session_list) :
          p \in Shells(session_list[m]) /\ Serves(session_list[m], file, c)
    BY <2>1, ReaderIsClient
  <2>3. PICK n \in 1 .. Len(session_list) :
          p \in Shells(session_list[n]) /\ Serves(session_list[n], file, d)
    BY <2>1, ReaderIsClient
  <2>4. pc # "down"
    <3>1. Len(<<>>) = 0
      OBVIOUS
    <3>2. QED
      BY <3>1
  <2>5. OneEach(session_list)
    BY <2>4 DEF PanesKept, Panes
  <2>6. p \in Pid
    <3>1. session_list[k] \in Session
      BY ElementOfSeq DEF TypeOK
    <3>2. QED
      BY <3>1, ShellsType
  <2>7. (\E j : At(session_list, p, m, j)) /\ (\E j : At(session_list, p, n, j))
    BY <2>2, <2>3 DEF Shells, At
  <2>8. m = n
    BY <2>5, <2>6, <2>7 DEF OneEach
  <2>9. QED
    BY <2>2, <2>3, <2>8 DEF Serves
<1>4. QED
  BY <1>1, <1>2, <1>3, TypeCorrect, PanesAreKept, HandoverIsKept, PTL DEF Spec

-----------------------------------------------------------------------------
(* What an attach delivers. *)

(* An enumeration in pane order leaves no pane out. *)
LEMMA EnumerationIsOnto ==
  ASSUME NEW S, IsFiniteSet(S), S \subseteq Int,
         NEW e \in [1 .. Cardinality(S) -> S], InPaneOrder(e), NEW j \in S
  PROVE  \E m \in 1 .. Cardinality(S) : e[m] = j
<1> DEFINE N == Cardinality(S)
           D == 1 .. N
<1>1. N \in Nat /\ IsFiniteSet(S \ {j}) /\ Cardinality(S \ {j}) = N - 1
  BY FS_CardinalityType, FS_RemoveElement
<1> HIDE DEF N
<1>2. IsFiniteSet(D) /\ Cardinality(D) = N
  BY <1>1, FS_Interval
<1>3. D \subseteq Int /\ \A x, y \in D : x # y => x < y \/ y < x
  BY <1>1
<1> HIDE DEF D
<1>4. e \in [D -> S]
  BY DEF D, N
<1>5. \A x, y \in D : x < y => e[x] < e[y]
  BY <1>4 DEF InPaneOrder
<1>6. \A x \in S : x < x => FALSE
  OBVIOUS
<1>7. \A x, y \in D : x # y => e[x] # e[y]
  BY <1>3, <1>4, <1>5, <1>6
<1>8. SUFFICES ASSUME \A m \in D : e[m] # j
               PROVE  FALSE
  BY DEF D, N
<1> DEFINE T == S \ {j}
<1>9. e \in [D -> T]
  BY <1>4, <1>8
<1>10. IsFiniteSet(T) /\ Cardinality(T) < Cardinality(D)
  BY <1>1, <1>2
<1> HIDE DEF T
<1>11. \E x, y \in D : x # y /\ e[x] = e[y]
  BY <1>2, <1>9, <1>10, FS_PigeonHole
<1>12. QED
  BY <1>7, <1>11

(* The client of a granted attach gets every pane of its session. *)
LEMMA AttachServes ==
  ASSUME TypeOK, PanesKept, MastersIntact,
         NEW i \in Slot, Attach(i), cl'[Sender(i)].st = "run"
  PROVE  \E k \in 1 .. Len(session_list) :
           /\ session_list[k].detached
           /\ ~session_list'[k].detached
           /\ session_list'[k].client_fd \in {f \in Fd : file[f] = Sender(i)}
           /\ \A p \in Shells(session_list[k]) :
                \E j \in 1 .. Len(cl'[Sender(i)].panes) : cl'[Sender(i)].panes[j] = p
<1> DEFINE c == Sender(i)
           al == Associated(i)
<1>1. Received(i, "ATTACH")
  BY DEF Attach
<1>2. /\ c \in Client /\ client_fds[i] \in Fd /\ file[client_fds[i]] = c
      /\ al \in Seq(Session) /\ session_list \in Seq(Session)
  BY <1>1, ReceivedType DEF TypeOK, Sender
<1>3. PICK k \in 1 .. Len(al) : AttachGranted(i, k)
  BY DEF Attach
<1> DEFINE s == al[k]
           grids == [m \in Pane |-> IF m <= PaneCount(s) THEN None ELSE s.grid_data[m]]
           t == [s EXCEPT !.client_fd = client_fds[i], !.detached = FALSE,
                          !.grid_data = grids]
<1>4. s \in Session /\ s.detached
  BY <1>2, <1>3, ElementOfSeq DEF AttachGranted, AttachTarget
<1>5. k \in 1 .. Len(session_list) /\ s = session_list[k]
  <2>1. CASE WithClientFd(session_list, client_fds[i]) # {}
    BY <2>1 DEF Associated, Associate
  <2>2. CASE WithClientFd(session_list, client_fds[i]) = {}
    <3> DEFINE new == NewSession(NextId(session_list), client_fds[i])
    <3>1. al = Append(session_list, new)
      BY <2>2 DEF Associated, Associate
    <3>2. new.detached = FALSE
      BY DEF NewSession
    <3> HIDE DEF new, al
    <3>3. /\ Len(session_list) \in Nat /\ Len(al) = Len(session_list) + 1
          /\ al[Len(session_list) + 1] = new
          /\ \A m \in 1 .. Len(session_list) : al[m] = session_list[m]
      BY <1>2, <3>1
    <3>4. k # Len(session_list) + 1
      BY <1>4, <3>2, <3>3
    <3>5. QED
      BY <1>3, <3>3, <3>4
  <2>3. QED
    BY <2>1, <2>2
<1>6. /\ session_list'[k].client_fd = client_fds[i]
      /\ session_list'[k].detached = FALSE
  <2>1. session_list' = [al EXCEPT ![k] = t]
    BY <1>3 DEF AttachGranted
  <2>2. t.client_fd = client_fds[i] /\ t.detached = FALSE
    BY <1>4 DEF Session
  <2>3. t \in Session
    <3>1. grids \in [Pane -> OpenFile \cup {None}]
      BY <1>4 DEF Session
    <3>2. QED
      BY <1>2, <1>4, <3>1 DEF Session, FdOrNone
  <2> HIDE DEF t, al
  <2>4. session_list'[k] = t
    BY <1>2, <1>3, <2>1, <2>3, UpdateType
  <2>5. QED
    BY <2>2, <2>4
<1>7. PICK e \in [1 .. Cardinality(OpenPanes(s)) -> OpenPanes(s)] :
        /\ InPaneOrder(e)
        /\ cl' = [cl EXCEPT ![c] =
                IF OpenPanes(s) = {} THEN Gone
                ELSE [st |-> "run", out |-> <<>>,
                      panes |-> [n \in DOMAIN e |-> file[s.master_fds[e[n]]]]]]
  BY <1>3 DEF AttachGranted
<1> DEFINE n == Len(s.master_fds)
           q == [m \in DOMAIN e |-> file[s.master_fds[e[m]]]]
<1>8. /\ n \in Nat /\ OpenPanes(s) \in SUBSET (1 .. n)
      /\ Cardinality(OpenPanes(s)) \in Nat
  BY <1>4, ShellsType, FiniteIndexes DEF OpenPanes
<1>9. cl'[c].panes = q
  <2>1. cl \in [Client -> ClientState]
    BY DEF TypeOK
  <2>2. Gone.st = "gone"
    BY DEF Gone
  <2> HIDE DEF c, s, Gone
  <2>3. OpenPanes(s) # {}
    BY <1>2, <1>7, <2>1, <2>2 DEF c
  <2>4. QED
    BY <1>2, <1>7, <2>1, <2>3
<1>10. Len(q) = Cardinality(OpenPanes(s))
  BY <1>7, <1>8
<1>11. ASSUME NEW p \in Shells(session_list[k])
       PROVE  \E j \in 1 .. Len(cl'[c].panes) : cl'[c].panes[j] = p
  <2>1. PICK j \in 1 .. Len(s.pane_pids) : s.pane_pids[j] = p /\ p # None
    BY <1>5, <1>11 DEF Shells
  <2>2. s.master_fds[j] \in Fd /\ file[s.master_fds[j]] = p
    BY <1>5, <2>1 DEF MastersIntact
  <2>3. Len(s.pane_pids) = n
    <3>1. pc = "receive"
      BY <1>1 DEF Received, Turn
    <3>2. QED
      BY <1>5, <3>1 DEF PanesKept, Panes, Kept
  <2>4. j \in OpenPanes(s)
    BY <2>1, <2>2, <2>3 DEF OpenPanes, IsOpen
  <2> DEFINE O == OpenPanes(s)
  <2>5. /\ IsFiniteSet(O) /\ O \subseteq Int /\ j \in O
        /\ e \in [1 .. Cardinality(O) -> O] /\ InPaneOrder(e)
    <3>1. \A b \in Nat : IsFiniteSet(1 .. b)
      BY FS_Interval
    <3>2. IsFiniteSet(O)
      BY <1>8, <3>1, FS_Subset
    <3>3. QED
      BY <1>7, <1>8, <2>4, <3>2
  <2> HIDE DEF s, n, O
  <2>6. PICK m \in 1 .. Cardinality(O) : e[m] = j
    BY <2>5, EnumerationIsOnto
  <2>7. q[m] = p
    BY <2>2, <2>5, <2>6
  <2>8. QED
    BY <1>9, <1>10, <2>6, <2>7 DEF O
<1>12. QED
  BY <1>2, <1>4, <1>5, <1>6, <1>11

(* A client that gets to run by attaching has every pane of one session    *)
(* whose shell was not reaped, as long as the numbers are intact, for      *)
(* every number of sessions and panes (server.c:292-341,                   *)
(* client.c:581-626).                                                      *)
THEOREM AttachGivesAllPanes == Spec => AttachGetsAllPanes
<1> DEFINE Gets ==
      MastersIntact => \A c \in Client :
        (cl[c].st = "wait" /\ cl'[c].st = "run") =>
          \E k \in 1 .. Len(session_list) :
            /\ session_list[k].detached
            /\ ~session_list'[k].detached
            /\ session_list'[k].client_fd \in {f \in Fd : file[f] = c}
            /\ \A p \in Shells(session_list[k]) :
                 \E j \in 1 .. Len(cl'[c].panes) : cl'[c].panes[j] = p
<1>1. TypeOK /\ PanesKept /\ Handover /\ [Next]_vars => Gets
  <2> SUFFICES ASSUME TypeOK, PanesKept, Handover, [Next]_vars, MastersIntact,
                      NEW c \in Client, cl[c].st = "wait", cl'[c].st = "run"
               PROVE  \E k \in 1 .. Len(session_list) :
                        /\ session_list[k].detached
                        /\ ~session_list'[k].detached
                        /\ session_list'[k].client_fd \in {f \in Fd : file[f] = c}
                        /\ \A p \in Shells(session_list[k]) :
                             \E j \in 1 .. Len(cl'[c].panes) : cl'[c].panes[j] = p
    OBVIOUS
  <2>1. cl \in [Client -> ClientState]
    BY DEF TypeOK
  <2>2. ~Quiet
    BY DEF Quiet, Fades
  <2>3. ~Accept
    BY DEF Accept
  <2>4. ~\E d \in Client : ClientStep(d) /\ backlog' # backlog
    <3> SUFFICES ASSUME NEW d \in Client, ClientStep(d), backlog' # backlog
                 PROVE  FALSE
      OBVIOUS
    <3>1. \E st, out : Start(d, st, out)
      BY DEF ClientStep, StartNew, StartAttach, StartList, StartKill,
         Send, ServerEof, PaneSplit, DetachKey, PaneEof, Die
    <3>2. cl[d].st = "off" /\ \E x : cl' = [cl EXCEPT ![d] = x]
      BY <3>1 DEF Start
    <3>3. QED
      BY <2>1, <3>2
  <2>5. ~\E i \in Slot : SpawnPane(i)
    <3> SUFFICES ASSUME NEW i \in Slot, SpawnPane(i)
                 PROVE  FALSE
      OBVIOUS
    <3>1. cl[Sender(i)].st = "spawn"
      BY TalkAnswer DEF Handover
    <3>2. PICK p \in Pid : cl' = [cl EXCEPT ![Sender(i)].st = "run",
                                            ![Sender(i)].panes = Append(@, p)]
      BY ZenonT(60) DEF SpawnPane
    <3>3. Sender(i) # c
      BY <3>1
    <3> HIDE DEF Sender
    <3>4. cl'[c] = cl[c]
      BY <2>1, <3>2, <3>3
    <3>5. QED
      BY <3>4
  <2>6. PICK i \in Slot : Attach(i)
    BY <2>2, <2>3, <2>4, <2>5, QuietStep
  <2>7. \A d \in Client : d # Sender(i) => cl'[d] = cl[d]
    BY <2>6, AttachShape
  <2>8. c = Sender(i)
    BY <2>7
  <2>9. QED
    BY <2>6, <2>8, AttachServes
<1>2. QED
  BY <1>1, TypeCorrect, PanesAreKept, HandoverIsKept, PTL DEF Spec, AttachGetsAllPanes
=============================================================================
