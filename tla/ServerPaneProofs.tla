-------------------------- MODULE ServerPaneProofs --------------------------
(***************************************************************************)
(* Theorems about the shells of Server's sessions: the daemon loses none,  *)
(* and lists no session that has ended.                                    *)
(***************************************************************************)
EXTENDS ServerProofs

-----------------------------------------------------------------------------
(* The inductive invariant, of a session list sl and shells in states pr,  *)
(* when the daemon is at "l".                                              *)

Started == {"live", "doomed", "zombie"}

(* Every shell of a session was started and not reaped, and a session that *)
(* lost its last shell is marked as such.                                  *)
Kept(s, pr, l) ==
  /\ Len(s.pane_pids) = Len(s.master_fds) /\ Len(s.pane_pids) <= MaxPanes
  /\ \A p \in Shells(s) : pr[p] \in Started
  /\ s.child_exited <=> Len(s.pane_pids) > 0 /\ Shells(s) = {}
  /\ s.child_exited => l \in {"reap", "clean"}

(* Pane j of session k has shell p; no shell is in two panes. *)
At(sl, p, k, j) ==
  /\ k \in 1 .. Len(sl) /\ j \in 1 .. Len(sl[k].pane_pids)
  /\ sl[k].pane_pids[j] = p
OneEach(sl) ==
  \A p \in Pid : \A k, m, j, n :
    At(sl, p, k, j) /\ At(sl, p, m, n) => k = m /\ j = n

Tracked(sl, pr) ==
  \A p \in Pid : pr[p] = "live" => \E k \in 1 .. Len(sl) : p \in Shells(sl[k])

Panes(sl, pr, l) ==
  /\ \A k \in 1 .. Len(sl) : Kept(sl[k], pr, l)
  /\ OneEach(sl)
  /\ Tracked(sl, pr)

PanesKept == pc # "down" => Panes(session_list, proc, pc)

(* From the sweep to the next message no detached session has a client. *)
Swept == pc \in {"setup", "select", "accept", "reap", "clean"} =>
  \A k \in 1 .. Len(session_list) :
    session_list[k].detached => session_list[k].client_fd = NoFd

ProcState == {"none", "live", "doomed", "zombie", "reaped"}

-----------------------------------------------------------------------------
(* What the steps do to a session list. *)

LEMMA ShellsType ==
  ASSUME NEW s \in Session
  PROVE  /\ Shells(s) \subseteq Pid
         /\ Len(s.pane_pids) \in Nat /\ Len(s.master_fds) \in Nat
         /\ \A j \in 1 .. Len(s.pane_pids) :
              s.pane_pids[j] \in Pid \cup {None}
<1>1. s.pane_pids \in Seq(Pid \cup {None}) /\ s.master_fds \in Seq(FdOrNone)
  BY DEF Session
<1>2. \A j \in 1 .. Len(s.pane_pids) : s.pane_pids[j] \in Pid \cup {None}
  BY <1>1, ElementOfSeq
<1>3. QED
  BY <1>1, <1>2, LenProperties DEF Shells

(* A step that leaves the panes of a session alone. *)
LEMMA PanesSame ==
  ASSUME NEW sl \in Seq(Session), NEW k \in 1 .. Len(sl), NEW t \in Session,
         NEW pr, NEW l, Panes(sl, pr, l),
         t.pane_pids = sl[k].pane_pids, t.master_fds = sl[k].master_fds,
         t.child_exited = sl[k].child_exited
  PROVE  Panes([sl EXCEPT ![k] = t], pr, l)
<1> DEFINE new == [sl EXCEPT ![k] = t]
<1>1. /\ Len(new) = Len(sl)
      /\ \A m \in 1 .. Len(sl) : new[m] = IF m = k THEN t ELSE sl[m]
  BY UpdateType
<1> HIDE DEF new
<1>2. \A m \in 1 .. Len(sl) : /\ new[m].pane_pids = sl[m].pane_pids
                              /\ new[m].master_fds = sl[m].master_fds
                              /\ new[m].child_exited = sl[m].child_exited
  BY <1>1
<1>3. \A m \in 1 .. Len(sl) : Shells(new[m]) = Shells(sl[m])
  BY <1>2 DEF Shells
<1>4. \A m \in 1 .. Len(new) : Kept(new[m], pr, l)
  BY <1>1, <1>2, <1>3 DEF Panes, Kept
<1>5. \A p, m, j : At(new, p, m, j) => At(sl, p, m, j)
  BY <1>1, <1>2 DEF At
<1>6. OneEach(new)
  BY <1>5 DEF Panes, OneEach
<1>7. Tracked(new, pr)
  BY <1>1, <1>3 DEF Panes, Tracked
<1>8. QED
  BY <1>4, <1>6, <1>7 DEF Panes, new

LEMMA PanesAssociate ==
  ASSUME NEW sl \in Seq(Session), NEW f \in FdOrNone,
         NEW pr, NEW l, Panes(sl, pr, l)
  PROVE  Panes(Associate(sl, f), pr, l)
<1>1. CASE WithClientFd(sl, f) # {}
  BY <1>1 DEF Associate
<1>2. CASE WithClientFd(sl, f) = {}
  <2> DEFINE new == NewSession(NextId(sl), f)
             al == Append(sl, new)
  <2>1. Associate(sl, f) = al
    BY <1>2 DEF Associate
  <2>2. new.pane_pids = <<>> /\ new.master_fds = <<>> /\ new.child_exited = FALSE
    BY DEF NewSession
  <2> HIDE DEF new
  <2>3. /\ Len(sl) \in Nat /\ Len(al) = Len(sl) + 1 /\ al[Len(sl) + 1] = new
        /\ \A m \in 1 .. Len(sl) : al[m] = sl[m]
    OBVIOUS
  <2> HIDE DEF al
  <2>4. Len(new.pane_pids) = 0 /\ Shells(new) = {} /\ Len(new.master_fds) = 0
    BY <2>2 DEF Shells
  <2>5. Kept(new, pr, l)
    BY <2>2, <2>4, LimitsAssumption DEF Kept
  <2>6. \A m \in 1 .. Len(al) : m \in 1 .. Len(sl) \/ m = Len(sl) + 1
    BY <2>3
  <2>7. \A m \in 1 .. Len(al) : Kept(al[m], pr, l)
    BY <2>3, <2>5, <2>6 DEF Panes
  <2>8. OneEach(al)
    <3>1. \A p, m, j : At(al, p, m, j) => At(sl, p, m, j)
      BY <2>3, <2>4, <2>6 DEF At
    <3>2. QED
      BY <3>1 DEF Panes, OneEach
  <2>9. Tracked(al, pr)
    <3>1. SUFFICES ASSUME NEW p \in Pid, pr[p] = "live"
                   PROVE  \E k \in 1 .. Len(al) : p \in Shells(al[k])
      BY DEF Tracked
    <3>2. PICK k \in 1 .. Len(sl) : p \in Shells(sl[k])
      BY <3>1 DEF Panes, Tracked
    <3>3. k \in 1 .. Len(al) /\ al[k] = sl[k]
      BY <2>3
    <3>4. QED
      BY <3>2, <3>3
  <2>10. QED
    BY <2>1, <2>7, <2>8, <2>9 DEF Panes
<1>3. QED
  BY <1>1, <1>2

(* Shells change their state and stay in their panes. *)
LEMMA PanesProc ==
  ASSUME NEW sl \in Seq(Session), NEW pr, NEW new, NEW l, Panes(sl, pr, l),
         \A p \in Pid : pr[p] \in Started => new[p] \in Started,
         \A p \in Pid : new[p] = "live" => pr[p] = "live"
  PROVE  Panes(sl, new, l)
<1>1. \A k \in 1 .. Len(sl) : Shells(sl[k]) \subseteq Pid
  BY ShellsType, ElementOfSeq
<1>2. \A k \in 1 .. Len(sl) : Kept(sl[k], new, l)
  BY <1>1 DEF Panes, Kept
<1>3. QED
  BY <1>2 DEF Panes, Tracked

(* A session goes, and no shell of it runs on. *)
LEMMA PanesListDel ==
  ASSUME NEW sl \in Seq(Session), NEW k \in 1 .. Len(sl),
         NEW pr, NEW l, Panes(sl, pr, l),
         \A p \in Shells(sl[k]) : pr[p] # "live"
  PROVE  Panes(ListDel(sl, k), pr, l)
<1> DEFINE tl == ListDel(sl, k)
           old(x) == IF x < k THEN x ELSE x + 1
<1>1. /\ Len(tl) = Len(sl) - 1
      /\ \A j \in 1 .. (Len(sl) - 1) : tl[j] = IF j < k THEN sl[j] ELSE sl[j + 1]
  BY ListDelType
<1> HIDE DEF tl
<1>2. Len(sl) \in Nat
  OBVIOUS
<1>3. \A m \in 1 .. Len(tl) : old(m) \in 1 .. Len(sl) /\ tl[m] = sl[old(m)]
  BY <1>1, <1>2
<1>4. \A m, n \in 1 .. Len(tl) : old(m) = old(n) => m = n
  BY <1>1, <1>2
<1>5. \A m \in 1 .. Len(sl) : m # k => \E n \in 1 .. Len(tl) : old(n) = m
  <2>1. SUFFICES ASSUME NEW m \in 1 .. Len(sl), m # k
                 PROVE  \E n \in 1 .. Len(tl) : old(n) = m
    OBVIOUS
  <2>2. CASE m < k
    BY <1>1, <1>2, <2>1, <2>2
  <2>3. CASE m > k
    <3>1. m - 1 \in 1 .. Len(tl) /\ old(m - 1) = m
      BY <1>1, <1>2, <2>1, <2>3
    <3>2. QED
      BY <3>1
  <2>4. QED
    BY <1>2, <2>1, <2>2, <2>3
<1> HIDE DEF old
<1>6. \A m \in 1 .. Len(tl) : Kept(tl[m], pr, l)
  BY <1>3 DEF Panes
<1>7. OneEach(tl)
  <2>1. \A p, m, j : At(tl, p, m, j) => m \in 1 .. Len(tl) /\ At(sl, p, old(m), j)
    BY <1>3 DEF At
  <2>2. QED
    BY <1>4, <2>1 DEF Panes, OneEach
<1>8. Tracked(tl, pr)
  <2>1. SUFFICES ASSUME NEW p \in Pid, pr[p] = "live"
                 PROVE  \E n \in 1 .. Len(tl) : p \in Shells(tl[n])
    BY DEF Tracked
  <2>2. PICK m \in 1 .. Len(sl) : p \in Shells(sl[m])
    BY <2>1 DEF Panes, Tracked
  <2>3. m # k
    BY <2>1, <2>2
  <2>4. PICK n \in 1 .. Len(tl) : old(n) = m
    BY <1>5, <2>3
  <2>5. QED
    BY <1>3, <2>2, <2>4
<1>9. QED
  BY <1>6, <1>7, <1>8 DEF Panes, tl

(* A session gets a new shell. *)
LEMMA PanesAdd ==
  ASSUME NEW sl \in Seq(Session), NEW k \in 1 .. Len(sl), NEW p \in Pid, NEW g \in Fd,
         NEW pr \in [Pid -> ProcState], pr[p] = "none", Panes(sl, pr, "receive"),
         Len(sl[k].master_fds) < MaxPanes,
         NEW t, t = [sl[k] EXCEPT !.master_fds = Append(@, g),
                                  !.pane_pids = Append(@, p)]
  PROVE  Panes([sl EXCEPT ![k] = t], [pr EXCEPT ![p] = "live"], "receive")
<1> DEFINE new == [sl EXCEPT ![k] = t]
           now == [pr EXCEPT ![p] = "live"]
           s == sl[k]
           n == Len(s.pane_pids)
<1>1. s \in Session /\ t \in Session
  BY ElementOfSeq, WithPaneType
<1>2. /\ Len(new) = Len(sl)
      /\ \A m \in 1 .. Len(sl) : new[m] = IF m = k THEN t ELSE sl[m]
  BY <1>1, UpdateType
<1>3. /\ n \in Nat /\ Len(s.master_fds) = n /\ n < MaxPanes
      /\ t.pane_pids = Append(s.pane_pids, p) /\ t.master_fds = Append(s.master_fds, g)
      /\ t.child_exited = s.child_exited /\ s.child_exited = FALSE
  BY <1>1, ShellsType DEF Panes, Kept, Session
<1>4. s.pane_pids \in Seq(Pid \cup {None}) /\ s.master_fds \in Seq(FdOrNone)
  BY <1>1 DEF Session
<1>5. /\ Len(t.pane_pids) = n + 1 /\ Len(t.master_fds) = n + 1
      /\ t.pane_pids[n + 1] = p
      /\ \A j \in 1 .. n : t.pane_pids[j] = s.pane_pids[j]
  <2>1. g \in FdOrNone
    BY DEF FdOrNone
  <2>2. QED
    BY <1>3, <1>4, <2>1, AppendProperties
<1>6. \A j \in 1 .. (n + 1) : j \in 1 .. n \/ j = n + 1
  BY <1>3
<1>7. Shells(t) = Shells(s) \cup {p}
  <2> HIDE DEF n
  <2>1. Shells(t) = {t.pane_pids[j] : j \in 1 .. (n + 1)} \ {None}
    BY <1>5 DEF Shells
  <2>2. Shells(s) = {s.pane_pids[j] : j \in 1 .. n} \ {None}
    BY DEF Shells, n
  <2>3. n + 1 \in 1 .. (n + 1) /\ \A j \in 1 .. n : j \in 1 .. (n + 1)
    BY <1>3
  <2>4. {t.pane_pids[j] : j \in 1 .. (n + 1)} = {s.pane_pids[j] : j \in 1 .. n} \cup {p}
    BY <1>5, <1>6, <2>3
  <2>5. QED
    BY <2>1, <2>2, <2>4, NamesAssumption
<1>8. /\ now[p] = "live"
      /\ \A q \in Pid : q # p => now[q] = pr[q]
  OBVIOUS
<1>9. \A m \in 1 .. Len(sl) : p \notin Shells(sl[m])
  BY DEF Panes, Kept, Started
<1>10. \A m \in 1 .. Len(sl) : Shells(sl[m]) \subseteq Pid
  BY ShellsType, ElementOfSeq
<1> HIDE DEF new, now, n
<1>11. Kept(t, now, "receive")
  <2>1. \A q \in Shells(t) : now[q] \in Started
    BY <1>7, <1>8, <1>9, <1>10 DEF Panes, Kept, Started
  <2>2. n + 1 <= MaxPanes
    BY <1>3, LimitsAssumption
  <2>3. QED
    BY <1>3, <1>5, <1>7, <2>1, <2>2 DEF Kept
<1>12. \A m \in 1 .. Len(new) : Kept(new[m], now, "receive")
  <2>1. SUFFICES ASSUME NEW m \in 1 .. Len(sl) PROVE Kept(new[m], now, "receive")
    BY <1>2
  <2>2. CASE m = k
    BY <1>2, <1>11, <2>2
  <2>3. CASE m # k
    <3>1. new[m] = sl[m]
      BY <1>2, <2>3
    <3>2. \A q \in Shells(sl[m]) : now[q] = pr[q]
      BY <1>8, <1>9, <1>10
    <3>3. QED
      BY <3>1, <3>2 DEF Panes, Kept
  <2>4. QED
    BY <2>2, <2>3
<1>13. \A m, j : ~At(sl, p, m, j)
  BY <1>9, NamesAssumption DEF At, Shells
(* An old place holds what it held, the new one p. *)
<1>14. ASSUME NEW q \in Pid, NEW m, NEW j, At(new, q, m, j)
       PROVE  \/ q = p /\ m = k /\ j = n + 1
              \/ q # p /\ At(sl, q, m, j)
  <2>1. m \in 1 .. Len(sl)
    BY <1>2, <1>14 DEF At
  <2>2. CASE m = k
    <3>1. j \in 1 .. (n + 1) /\ t.pane_pids[j] = q
      BY <1>2, <1>5, <1>14, <2>1, <2>2 DEF At
    <3>2. CASE j = n + 1
      BY <1>5, <2>2, <3>1, <3>2
    <3>3. CASE j \in 1 .. n
      BY <1>5, <1>13, <2>1, <2>2, <3>1, <3>3 DEF At, n
    <3>4. QED
      BY <1>6, <3>1, <3>2, <3>3
  <2>3. CASE m # k
    BY <1>2, <1>14, <1>13, <2>1, <2>3 DEF At
  <2>4. QED
    BY <2>2, <2>3
<1>15. OneEach(new)
  BY <1>14 DEF Panes, OneEach
<1>16. Tracked(new, now)
  <2>1. SUFFICES ASSUME NEW q \in Pid, now[q] = "live"
                 PROVE  \E m \in 1 .. Len(sl) : q \in Shells(new[m])
    BY <1>2 DEF Tracked
  <2>2. CASE q = p
    BY <1>2, <1>7, <2>2
  <2>3. CASE q # p
    <3>1. PICK m \in 1 .. Len(sl) : q \in Shells(sl[m])
      BY <1>8, <2>1, <2>3 DEF Panes, Tracked
    <3>2. q \in Shells(new[m])
      BY <1>2, <1>7, <3>1
    <3>3. QED
      BY <3>2
  <2>4. QED
    BY <2>2, <2>3
<1>17. QED
  BY <1>12, <1>15, <1>16 DEF Panes, new, now

(* A shell is reaped: its pane is empty, and the session ends with its last *)
(* shell.                                                                  *)
LEMMA PanesRemove ==
  ASSUME NEW sl \in Seq(Session), NEW k \in 1 .. Len(sl),
         NEW j \in 1 .. Len(sl[k].pane_pids), NEW p \in Pid, sl[k].pane_pids[j] = p,
         NEW pr \in [Pid -> ProcState], Panes(sl, pr, "reap"),
         NEW t, t = IF Shells(WithoutPane(sl[k], j)) = {}
                      THEN Ended(WithoutPane(sl[k], j)) ELSE WithoutPane(sl[k], j)
  PROVE  Panes([sl EXCEPT ![k] = t], [pr EXCEPT ![p] = "reaped"], "reap")
<1> DEFINE new == [sl EXCEPT ![k] = t]
           now == [pr EXCEPT ![p] = "reaped"]
           s == sl[k]
           w == WithoutPane(s, j)
           n == Len(s.pane_pids)
<1>1. s \in Session /\ w \in Session /\ t \in Session
  BY ElementOfSeq, WithoutPaneType
<1>2. /\ Len(new) = Len(sl)
      /\ \A m \in 1 .. Len(sl) : new[m] = IF m = k THEN t ELSE sl[m]
  BY <1>1, UpdateType
<1>3. /\ s.pane_pids \in Seq(Pid \cup {None}) /\ s.master_fds \in Seq(FdOrNone)
      /\ n \in Nat /\ Len(s.master_fds) = n
  BY <1>1, ShellsType DEF Session, Panes, Kept
<1>4. /\ w.pane_pids = [s.pane_pids EXCEPT ![j] = None]
      /\ w.master_fds = [s.master_fds EXCEPT ![j] = NoFd]
      /\ w.child_exited = s.child_exited
  BY <1>1 DEF WithoutPane, Session
<1>5. /\ Len(w.pane_pids) = n /\ Len(w.master_fds) = n
      /\ \A i \in 1 .. n : w.pane_pids[i] = IF i = j THEN None ELSE s.pane_pids[i]
  BY <1>3, <1>4 DEF FdOrNone
<1>6. /\ t.pane_pids = w.pane_pids /\ t.master_fds = w.master_fds
      /\ t.child_exited = IF Shells(w) = {} THEN TRUE ELSE s.child_exited
  BY <1>1, <1>4 DEF Ended, Session
<1>7. p \in Shells(s)
  BY NamesAssumption DEF Shells
<1>8. s.child_exited = FALSE
  BY <1>1, <1>7 DEF Panes, Kept, Session
<1>9. \A m, i : At(sl, p, m, i) => m = k /\ i = j
  BY DEF At, Panes, OneEach
<1> HIDE DEF w, n
<1>10. Shells(t) = Shells(s) \ {p}
  <2>1. t.pane_pids = w.pane_pids /\ Len(t.pane_pids) = n
    BY <1>5, <1>6
  <2>2. \A i \in 1 .. n : i # j => s.pane_pids[i] # p
    BY <1>9 DEF At, n
  <2>3. j \in 1 .. n /\ s.pane_pids[j] = p
    BY DEF n
  <2>4. Shells(s) = {s.pane_pids[i] : i \in 1 .. n} \ {None}
    BY DEF Shells, n
  <2> HIDE DEF s
  <2>5. Shells(t) = {w.pane_pids[i] : i \in 1 .. n} \ {None}
    BY <2>1, Zenon DEF Shells
  <2>6. \A i \in 1 .. n : w.pane_pids[i] = IF i = j THEN None ELSE s.pane_pids[i]
    BY <1>5
  <2>7. QED
    BY <2>2, <2>3, <2>4, <2>5, <2>6
<1>11. \A m \in 1 .. Len(sl) : m # k => p \notin Shells(sl[m])
  BY <1>9 DEF At, Shells
<1>12. \A m \in 1 .. Len(sl) : Shells(sl[m]) \subseteq Pid
  BY ShellsType, ElementOfSeq
<1>13. /\ now[p] = "reaped"
       /\ \A q \in Pid : q # p => now[q] = pr[q]
  OBVIOUS
<1> HIDE DEF new, now
<1>14. Shells(w) = Shells(t)
  BY <1>6 DEF Shells
<1>15. Kept(t, now, "reap")
  <2>1. \A q \in Shells(t) : now[q] \in Started
    BY <1>10, <1>12, <1>13 DEF Panes, Kept
  <2>2. n <= MaxPanes /\ n > 0
    BY <1>3 DEF Panes, Kept, n
  <2>3. t.child_exited <=> Shells(t) = {}
    BY <1>6, <1>8, <1>14
  <2>4. QED
    BY <1>5, <1>6, <2>1, <2>2, <2>3 DEF Kept
<1>16. \A m \in 1 .. Len(new) : Kept(new[m], now, "reap")
  <2>1. SUFFICES ASSUME NEW m \in 1 .. Len(sl) PROVE Kept(new[m], now, "reap")
    BY <1>2
  <2>2. CASE m = k
    BY <1>2, <1>15, <2>2
  <2>3. CASE m # k
    <3>1. new[m] = sl[m]
      BY <1>2, <2>3
    <3>2. \A q \in Shells(sl[m]) : now[q] = pr[q]
      BY <1>11, <1>12, <1>13, <2>3
    <3>3. QED
      BY <3>1, <3>2 DEF Panes, Kept
  <2>4. QED
    BY <2>2, <2>3
<1>17. OneEach(new)
  <2>1. ASSUME NEW q \in Pid, NEW m, NEW i, At(new, q, m, i)
        PROVE  At(sl, q, m, i)
    <3>1. m \in 1 .. Len(sl) /\ q # None
      BY <1>2, <2>1, NamesAssumption DEF At
    <3>2. CASE m = k
      BY <1>2, <1>5, <1>6, <2>1, <3>1, <3>2 DEF At, n
    <3>3. CASE m # k
      BY <1>2, <2>1, <3>1, <3>3 DEF At
    <3>4. QED
      BY <3>2, <3>3
  <2>2. QED
    BY <2>1 DEF Panes, OneEach
<1>18. Tracked(new, now)
  <2>1. SUFFICES ASSUME NEW q \in Pid, now[q] = "live"
                 PROVE  \E m \in 1 .. Len(sl) : q \in Shells(new[m])
    BY <1>2 DEF Tracked
  <2>2. q # p
    BY <1>13, <2>1
  <2>3. PICK m \in 1 .. Len(sl) : q \in Shells(sl[m])
    BY <1>13, <2>1, <2>2 DEF Panes, Tracked
  <2>4. q \in Shells(new[m])
    BY <1>2, <1>10, <2>2, <2>3
  <2>5. QED
    BY <2>4
<1>19. QED
  BY <1>16, <1>17, <1>18 DEF Panes, new, now

-----------------------------------------------------------------------------
(* The steps keep the invariant. *)

LEMMA ReceiveStays ==
  ASSUME NEW i \in Slot, Receive(i)
  PROVE  pc = "receive" /\ pc' \in {"receive", "down"}
<1>1. Turn(i)
  BY DEF Receive, ReceiveFails, BrokenPipe, ListSessions, KillSession, KillUnknown, Resize,
       SpawnPane, SpawnRefused, SpawnFails, Exited, Detach, Attach, AttachRefused, SaveGrid,
       Received
<1>2. Stop \/ (\E fs : HangUp(i, fs)) \/ NextSlot(i)
  BY DEF Receive, ReceiveFails, BrokenPipe, ListSessions, KillSession, KillUnknown, Resize,
       SpawnPane, SpawnRefused, SpawnFails, Exited, Detach, Attach, AttachRefused, SaveGrid
<1>3. QED
  BY <1>1, <1>2 DEF Turn, Stop, HangUp, NextSlot

LEMMA StaysDown ==
  ASSUME pc = "down", [Next]_vars
  PROVE  pc' = "down"
<1>1. ~\E i \in Slot : Receive(i)
  BY ReceiveStays
<1>2. ASSUME NEW c \in Client, ClientStep(c)
      PROVE  pc' = pc
  BY <1>2 DEF ClientStep, StartNew, StartAttach, StartList, StartKill, Start,
       Send, ServerEof, PaneSplit, DetachKey, PaneEof, Die, server
<1>3. ~ServerStep
  BY <1>1 DEF ServerStep, EnterSelect, SelectFails, SelectReturns, Accept, AcceptFails,
       ReceiveDone, Sweep, SweepDone, Reap, ReapDone, Clean, CleanDone
<1>4. QED
  BY <1>2, <1>3 DEF Next, ShellExit, vars, server

LEMMA ReceivePanes ==
  ASSUME TypeOK, Panes(session_list, proc, "receive"), NEW i \in Slot, Receive(i), pc' # "down"
  PROVE  Panes(session_list', proc', "receive")
<1>0. ASSUME NEW type, Received(i, type)
      PROVE  /\ Associated(i) \in Seq(Session)
             /\ Panes(Associated(i), proc, "receive")
  BY <1>0, ReceivedType, PanesAssociate DEF Associated, TypeOK, FdOrNone
<1>1. CASE UNCHANGED <<session_list, proc>>
  BY <1>1
<1>2. ~Stop
  BY DEF Stop
<1>3. CASE KillSession(i)
  <2>1. PICK k \in 1 .. Len(session_list) :
          proc' = Doom(session_list[k]) /\ session_list' = ListDel(session_list, k)
    BY <1>2, <1>3 DEF KillSession
  <2>2. session_list \in Seq(Session) /\ proc \in [Pid -> ProcState]
    BY DEF TypeOK, ProcState
  <2>3. /\ \A p \in Pid : proc[p] \in Started => proc'[p] \in Started
        /\ \A p \in Pid : proc'[p] = "live" => proc[p] = "live"
        /\ \A p \in Pid : p \in Shells(session_list[k]) => proc'[p] # "live"
    BY <2>1, <2>2 DEF Doom, Started
  <2>4. Panes(session_list, proc', "receive")
    BY <2>2, <2>3, PanesProc
  <2>5. \A p \in Shells(session_list[k]) : proc'[p] # "live"
    BY <2>2, <2>3, ShellsType, ElementOfSeq
  <2>6. QED
    BY <2>1, <2>2, <2>4, <2>5, PanesListDel
<1>4. CASE Resize(i) \/ SpawnRefused(i) \/ Exited(i) \/ AttachRefused(i)
  BY <1>0, <1>4 DEF Resize, SpawnRefused, Exited, AttachRefused
<1>5. CASE SpawnPane(i)
  <2>1. Received(i, "COMMAND")
    BY <1>5 DEF SpawnPane
  <2>2. PICK k \in 1 .. Len(Associated(i)), p \in Pid, g \in Fd :
          /\ PaneCount(Associated(i)[k]) < MaxPanes
          /\ proc[p] = "none"
          /\ proc' = [proc EXCEPT ![p] = "live"]
          /\ session_list' = [Associated(i) EXCEPT
               ![k].master_fds = Append(@, g), ![k].pane_pids = Append(@, p)]
    BY ZenonT(60), <1>5 DEF SpawnPane
  <2> DEFINE sl == Associated(i)
             t == [sl[k] EXCEPT !.master_fds = Append(@, g), !.pane_pids = Append(@, p)]
  <2>3. sl \in Seq(Session) /\ Panes(sl, proc, "receive") /\ sl[k] \in Session
    BY <1>0, <2>1, <2>2, ElementOfSeq
  <2>4. proc \in [Pid -> ProcState]
    BY DEF TypeOK, ProcState
  <2>5. session_list' = [sl EXCEPT ![k] = t]
    BY <2>2, <2>3 DEF Session
  <2>6. Len(sl[k].master_fds) < MaxPanes /\ k \in 1 .. Len(sl)
    BY <2>2 DEF PaneCount
  <2> HIDE DEF sl
  <2>7. Panes([sl EXCEPT ![k] = t], [proc EXCEPT ![p] = "live"], "receive")
    BY <2>2, <2>3, <2>4, <2>6, PanesAdd
  <2>8. QED
    BY <2>2, <2>5, <2>7
<1>6. CASE Detach(i)
  <2>1. Received(i, "DETACH") /\ proc' = proc
    BY <1>6 DEF Detach
  <2>2. PICK k \in 1 .. Len(Associated(i)) :
          session_list' = [Associated(i) EXCEPT
            ![k] = [Associated(i)[k] EXCEPT !.detached = TRUE]]
    BY <1>6 DEF Detach
  <2> DEFINE t == [Associated(i)[k] EXCEPT !.detached = TRUE]
  <2>3. Associated(i) \in Seq(Session) /\ Associated(i)[k] \in Session
    BY <1>0, <2>1, <2>2, ElementOfSeq
  <2>4. /\ t \in Session /\ t.pane_pids = Associated(i)[k].pane_pids
        /\ t.master_fds = Associated(i)[k].master_fds
        /\ t.child_exited = Associated(i)[k].child_exited
    BY <2>3 DEF Session
  <2> HIDE DEF t
  <2>5. Panes([Associated(i) EXCEPT ![k] = t], proc, "receive")
    BY <1>0, <2>1, <2>3, <2>4, PanesSame
  <2>6. QED
    BY <2>1, <2>2, <2>5 DEF t
<1>7. CASE Attach(i)
  <2>1. Received(i, "ATTACH") /\ proc' = proc
    BY <1>7 DEF Attach
  <2>2. PICK k \in 1 .. Len(Associated(i)) : AttachGranted(i, k)
    BY <1>7 DEF Attach
  <2> DEFINE sl == Associated(i)
             s == sl[k]
             grids == [n \in Pane |-> IF n <= PaneCount(s) THEN None ELSE s.grid_data[n]]
             t == [s EXCEPT !.client_fd = client_fds[i], !.detached = FALSE,
                            !.grid_data = grids]
  <2>3. /\ sl \in Seq(Session) /\ Panes(sl, proc, "receive") /\ s \in Session
        /\ client_fds[i] \in Fd /\ k \in 1 .. Len(sl)
    BY <1>0, <2>1, <2>2, ReceivedType, ElementOfSeq
  <2>4. grids \in [Pane -> OpenFile \cup {None}]
    BY <2>3 DEF Session
  <2>5. /\ t \in Session /\ t.pane_pids = s.pane_pids /\ t.master_fds = s.master_fds
        /\ t.child_exited = s.child_exited
    BY <2>3, <2>4 DEF Session, FdOrNone
  <2>6. session_list' = [sl EXCEPT ![k] = t]
    BY <2>2, <2>3 DEF AttachGranted, Session
  <2> HIDE DEF t, grids, sl
  <2>7. Panes([sl EXCEPT ![k] = t], proc, "receive")
    BY <2>3, <2>5, PanesSame
  <2>8. QED
    BY <2>1, <2>6, <2>7
<1>8. CASE SaveGrid(i)
  <2>1. Received(i, "GRID_SAVE") /\ proc' = proc
    BY <1>8 DEF SaveGrid
  <2>2. PICK k \in 1 .. Len(Associated(i)) :
          session_list' =
            IF Argument(i) \in Pane
            THEN [Associated(i) EXCEPT
                    ![k].grid_data[Argument(i)] = Head(inbox[Sender(i)]).screen]
            ELSE Associated(i)
    BY <1>8 DEF SaveGrid
  <2> DEFINE sl == Associated(i)
             t == [sl[k] EXCEPT !.grid_data[Argument(i)] = Head(inbox[Sender(i)]).screen]
  <2>3. /\ sl \in Seq(Session) /\ Panes(sl, proc, "receive") /\ sl[k] \in Session
        /\ k \in 1 .. Len(sl)
    BY <1>0, <2>1, <2>2, ElementOfSeq
  <2>4. Head(inbox[Sender(i)]).screen \in OpenFile \cup {None}
    BY <2>1, ReceivedType DEF Msg
  <2>5. /\ t \in Session /\ t.pane_pids = sl[k].pane_pids
        /\ t.master_fds = sl[k].master_fds /\ t.child_exited = sl[k].child_exited
    BY <2>3, <2>4 DEF Session
  <2>6. session_list' \in {[sl EXCEPT ![k] = t], sl}
    BY <2>2
  <2> HIDE DEF t, sl
  <2>7. Panes([sl EXCEPT ![k] = t], proc, "receive")
    BY <2>3, <2>5, PanesSame
  <2>8. QED
    BY <2>1, <2>3, <2>6, <2>7
<1>9. QED
  BY <1>1, <1>2, <1>3, <1>4, <1>5, <1>6, <1>7, <1>8
     DEF Receive, ReceiveFails, BrokenPipe, ListSessions, KillUnknown, SpawnFails

LEMMA ReapPanes ==
  ASSUME TypeOK, Panes(session_list, proc, "reap"), NEW p \in Pid, Reap(p)
  PROVE  Panes(session_list', proc', "reap")
<1> DEFINE now == [proc EXCEPT ![p] = "reaped"]
<1>1. /\ session_list \in Seq(Session) /\ proc \in [Pid -> ProcState]
      /\ proc' = now /\ proc[p] = "zombie"
  BY DEF Reap, TypeOK, ProcState
<1>2. ASSUME ~\E k \in 1 .. Len(session_list), j \in Pane : ShellOf(p, k, j),
             UNCHANGED session_list
      PROVE  Panes(session_list', proc', "reap")
  <2>1. ASSUME NEW k \in 1 .. Len(session_list)
        PROVE  p \notin Shells(session_list[k])
    <3>1. /\ Len(session_list[k].pane_pids) \in Nat
          /\ Len(session_list[k].pane_pids) <= MaxPanes
      BY <1>1, ShellsType, ElementOfSeq DEF Panes, Kept
    <3>2. \A j \in 1 .. Len(session_list[k].pane_pids) : j \in Pane
      BY <3>1, LimitsAssumption DEF Pane
    <3>3. QED
      BY <1>2, <3>2 DEF Shells, ShellOf
  <2>2. \A q \in Pid : q # p => now[q] = proc[q]
    BY <1>1
  <2>3. \A k \in 1 .. Len(session_list) : Shells(session_list[k]) \subseteq Pid
    BY <1>1, ShellsType, ElementOfSeq
  <2>4. now[p] = "reaped"
    BY <1>1
  <2> HIDE DEF now
  <2>5. \A k \in 1 .. Len(session_list) : \A q \in Shells(session_list[k]) : now[q] = proc[q]
    BY <2>1, <2>2, <2>3
  <2>6. \A k \in 1 .. Len(session_list) : Kept(session_list[k], now, "reap")
    BY <2>5 DEF Panes, Kept
  <2>7. Tracked(session_list, now)
    BY <2>2, <2>4 DEF Panes, Tracked
  <2>8. QED
    BY <1>1, <1>2, <2>6, <2>7 DEF Panes
<1>3. ASSUME NEW k \in 1 .. Len(session_list), NEW j \in Pane, ReapPane(p, k, j)
      PROVE  Panes(session_list', proc', "reap")
  <2> DEFINE t == IF Shells(WithoutPane(session_list[k], j)) = {}
                    THEN Ended(WithoutPane(session_list[k], j))
                    ELSE WithoutPane(session_list[k], j)
  <2>1. /\ j \in 1 .. Len(session_list[k].pane_pids)
        /\ session_list[k].pane_pids[j] = p
        /\ session_list' = [session_list EXCEPT ![k] = t]
    BY <1>3 DEF ReapPane, ShellOf
  <2> HIDE DEF t
  <2>2. Panes([session_list EXCEPT ![k] = t], now, "reap")
    BY <1>1, <2>1, PanesRemove DEF t
  <2>3. QED
    BY <1>1, <2>1, <2>2
<1>4. QED
  BY <1>2, <1>3 DEF Reap

LEMMA PanesStep ==
  ASSUME TypeOK, PanesKept, [Next]_vars
  PROVE  PanesKept'
<1> SUFFICES ASSUME pc' # "down"
             PROVE  Panes(session_list', proc', pc')
  BY DEF PanesKept
<1>0. Panes(session_list, proc, pc)
  BY StaysDown DEF PanesKept
<1>1. session_list \in Seq(Session) /\ proc \in [Pid -> ProcState]
  BY DEF TypeOK, ProcState
(* While no session has ended, the daemon may be anywhere. *)
<1>2. ASSUME ToClean = {}, UNCHANGED <<session_list, proc>>
      PROVE  Panes(session_list', proc', pc')
  <2>1. \A k \in 1 .. Len(session_list) : ~session_list[k].child_exited
    BY <1>2 DEF ToClean
  <2>2. \A k \in 1 .. Len(session_list) : Kept(session_list[k], proc, pc')
    BY <1>0, <2>1 DEF Panes, Kept
  <2>3. QED
    BY <1>0, <1>2, <2>2 DEF Panes
<1>3. ASSUME pc \notin {"reap", "clean"}
      PROVE  ToClean = {}
  BY <1>0, <1>3 DEF Panes, Kept, ToClean
<1>4. CASE UNCHANGED <<session_list, proc, pc>>
  BY <1>0, <1>4
<1>5. CASE EnterSelect \/ SelectFails \/ SelectReturns \/ Accept \/ AcceptFails \/ ReceiveDone
  BY <1>2, <1>3, <1>5
     DEF EnterSelect, SelectFails, SelectReturns, Accept, AcceptFails, ReceiveDone, Stop
<1>6. ASSUME NEW i \in Slot, Receive(i)
      PROVE  Panes(session_list', proc', pc')
  <2>1. pc = "receive" /\ pc' = "receive"
    BY <1>6, ReceiveStays
  <2>2. Panes(session_list, proc, "receive")
    BY <1>0, <2>1
  <2>3. Panes(session_list', proc', "receive")
    BY <1>6, <2>2, ReceivePanes
  <2>4. QED
    BY <2>1, <2>3
<1>7. CASE Sweep
  <2>1. PICK k \in ToSweep :
          session_list' = [session_list EXCEPT
            ![k] = [session_list[k] EXCEPT !.client_fd = NoFd]]
    BY <1>7 DEF Sweep
  <2>2. k \in 1 .. Len(session_list) /\ session_list[k] \in Session
    BY <1>1, <2>1, ElementOfSeq DEF ToSweep
  <2> DEFINE t == [session_list[k] EXCEPT !.client_fd = NoFd]
  <2>3. /\ t \in Session /\ t.pane_pids = session_list[k].pane_pids
        /\ t.master_fds = session_list[k].master_fds
        /\ t.child_exited = session_list[k].child_exited
    BY <2>2 DEF Session, FdOrNone
  <2> HIDE DEF t
  <2>4. Panes([session_list EXCEPT ![k] = t], proc, pc)
    BY <1>0, <1>1, <2>2, <2>3, PanesSame
  <2>5. QED
    BY <1>7, <2>1, <2>4 DEF Sweep, t
<1>8. CASE SweepDone
  BY <1>2, <1>3, <1>8 DEF SweepDone
<1>9. ASSUME NEW p \in Pid, Reap(p)
      PROVE  Panes(session_list', proc', pc')
  BY <1>0, <1>9, ReapPanes DEF Reap
<1>10. CASE ReapDone
  <2>1. Panes(session_list, proc, "clean")
    BY <1>0, <1>10 DEF ReapDone, Panes, Kept
  <2>2. QED
    BY <1>10, <2>1 DEF ReapDone
<1>11. CASE Clean
  <2>1. PICK k \in 1 .. Len(session_list) :
          session_list[k].child_exited /\ session_list' = ListDel(session_list, k)
    BY <1>11 DEF Clean, ToClean
  <2>2. Shells(session_list[k]) = {}
    BY <1>0, <2>1 DEF Panes, Kept
  <2>3. Panes(ListDel(session_list, k), proc, pc)
    BY <1>0, <1>1, <2>2, PanesListDel
  <2>4. QED
    BY <1>11, <2>1, <2>3 DEF Clean
<1>12. CASE CleanDone
  BY <1>2, <1>12 DEF CleanDone
<1>13. ASSUME NEW p \in Pid, ShellExit(p)
       PROVE  Panes(session_list', proc', pc')
  <2>1. /\ \A q \in Pid : proc[q] \in Started => proc'[q] \in Started
        /\ \A q \in Pid : proc'[q] = "live" => proc[q] = "live"
    BY <1>1, <1>13 DEF ShellExit, Started
  <2>2. Panes(session_list, proc', pc)
    BY <1>0, <1>1, <2>1, PanesProc
  <2>3. CASE pc = "select"
    <3>1. pc' = "sweep" /\ session_list' = session_list
      BY <1>13, <2>3 DEF ShellExit
    <3>2. Panes(session_list, proc', "sweep")
      BY <2>2, <2>3 DEF Panes, Kept
    <3>3. QED
      BY <3>1, <3>2
  <2>4. CASE pc # "select"
    BY <1>13, <2>2, <2>4 DEF ShellExit
  <2>5. QED
    BY <2>3, <2>4
<1>14. ASSUME NEW c \in Client, ClientStep(c)
       PROVE  UNCHANGED <<session_list, proc, pc>>
  BY <1>14 DEF ClientStep, StartNew, StartAttach, StartList, StartKill, Start,
       Send, ServerEof, PaneSplit, DetachKey, PaneEof, Die, server
<1>15. CASE UNCHANGED vars
  BY <1>4, <1>15 DEF vars, server
<1>16. QED
  BY <1>4, <1>5, <1>6, <1>7, <1>8, <1>9, <1>10, <1>11, <1>12, <1>13, <1>14, <1>15
     DEF Next, ServerStep

LEMMA SweptStep ==
  ASSUME TypeOK, Swept, [Next]_vars
  PROVE  Swept'
<1> DEFINE Calm == {"setup", "select", "accept", "reap", "clean"}
<1>1. session_list \in Seq(Session)
  BY DEF TypeOK
<1>2. ASSUME UNCHANGED session_list, pc' \in Calm => pc \in Calm
      PROVE  Swept'
  BY <1>2 DEF Swept
<1>3. ASSUME pc' \notin Calm
      PROVE  Swept'
  BY <1>3 DEF Swept
<1>4. CASE \/ EnterSelect \/ SelectReturns \/ ReapDone \/ CleanDone
  BY <1>2, <1>4 DEF EnterSelect, SelectReturns, ReapDone, CleanDone
<1>5. CASE SelectFails \/ Accept \/ AcceptFails \/ ReceiveDone \/ Sweep
  BY <1>3, <1>5 DEF SelectFails, Stop, Accept, AcceptFails, ReceiveDone, Sweep
<1>6. ASSUME NEW i \in Slot, Receive(i)
      PROVE  Swept'
  BY <1>3, <1>6, ReceiveStays
<1>7. CASE SweepDone
  BY <1>7 DEF SweepDone, ToSweep, Swept
<1>8. ASSUME NEW p \in Pid, Reap(p)
      PROVE  Swept'
  <2>1. pc = "reap" /\ pc' = "reap"
    BY <1>8 DEF Reap
  <2>2. CASE UNCHANGED session_list
    BY <1>2, <2>1, <2>2
  <2>3. ASSUME NEW k \in 1 .. Len(session_list), NEW j \in Pane, ReapPane(p, k, j)
        PROVE  Swept'
    <3> DEFINE s == session_list[k]
               w == WithoutPane(s, j)
               t == IF Shells(w) = {} THEN Ended(w) ELSE w
    <3>1. s \in Session /\ w \in Session /\ Ended(w) \in Session
      BY <1>1, ElementOfSeq, WithoutPaneType
    <3>2. /\ w.detached = s.detached /\ w.client_fd = s.client_fd
          /\ Ended(w).detached = s.detached /\ Ended(w).client_fd = NoFd
      BY <3>1 DEF WithoutPane, Ended, Session
    <3>3. /\ t \in Session /\ t.detached = s.detached
          /\ t.client_fd = s.client_fd \/ t.client_fd = NoFd
      BY <3>1, <3>2
    <3>4. session_list' = [session_list EXCEPT ![k] = t]
      BY <2>3 DEF ReapPane
    <3> HIDE DEF t, w
    <3>5. /\ Len(session_list') = Len(session_list)
          /\ \A m \in 1 .. Len(session_list) :
               session_list'[m] = IF m = k THEN t ELSE session_list[m]
      BY <1>1, <3>3, <3>4, UpdateType
    <3>6. QED
      BY <2>1, <3>3, <3>5 DEF Swept
  <2>4. QED
    BY <1>8, <2>2, <2>3 DEF Reap
<1>9. CASE Clean
  <2>1. PICK k \in 1 .. Len(session_list) : session_list' = ListDel(session_list, k)
    BY <1>9 DEF Clean, ToClean
  <2>2. /\ Len(session_list') = Len(session_list) - 1
        /\ \A j \in 1 .. (Len(session_list) - 1) :
             session_list'[j] = IF j < k THEN session_list[j] ELSE session_list[j + 1]
    BY <1>1, <2>1, ListDelType
  <2>3. \A j \in 1 .. Len(session_list') :
          session_list'[j] \in {session_list[m] : m \in 1 .. Len(session_list)}
    BY <1>1, <2>2
  <2>4. pc = "clean"
    BY <1>9 DEF Clean
  <2>5. QED
    BY <2>3, <2>4 DEF Swept
<1>10. ASSUME NEW p \in Pid, ShellExit(p)
       PROVE  Swept'
  BY <1>2, <1>10 DEF ShellExit
<1>11. ASSUME NEW c \in Client, ClientStep(c)
       PROVE  UNCHANGED <<session_list, pc>>
  BY <1>11 DEF ClientStep, StartNew, StartAttach, StartList, StartKill, Start,
       Send, ServerEof, PaneSplit, DetachKey, PaneEof, Die, server
<1>12. CASE UNCHANGED vars
  BY <1>2, <1>12 DEF vars, server
<1>13. QED
  BY <1>2, <1>4, <1>5, <1>6, <1>7, <1>8, <1>9, <1>10, <1>11, <1>12 DEF Next, ServerStep

LEMMA InitPanes == Init => PanesKept /\ Swept
<1> SUFFICES ASSUME Init PROVE PanesKept /\ Swept
  OBVIOUS
<1>1. session_list = <<>> /\ Len(session_list) = 0
  BY DEF Init
<1>2. \A p \in Pid : proc[p] # "live"
  BY DEF Init
<1>3. 1 .. Len(session_list) = {}
  BY <1>1
<1>4. QED
  BY <1>2, <1>3 DEF PanesKept, Panes, OneEach, At, Tracked, Swept

-----------------------------------------------------------------------------
(* For every number of clients and shells the daemon keeps the panes of    *)
(* its sessions: the inductive invariant (server.c:157-247, 346-370,       *)
(* 442-518).                                                               *)
THEOREM PanesAreKept == Spec => [](PanesKept /\ Swept)
<1>1. Init => PanesKept /\ Swept
  BY InitPanes
<1>2. TypeOK /\ PanesKept /\ Swept /\ [Next]_vars => PanesKept' /\ Swept'
  BY PanesStep, SweptStep
<1>3. QED
  BY <1>1, <1>2, TypeCorrect, PTL DEF Spec

(* No running shell is lost, and none is in two panes, until someone kills *)
(* it (server.c:232-247, 356-370, 462-510).                                *)
THEOREM NoShellIsLost == Spec => []LiveShellsTracked
<1>1. TypeOK /\ PanesKept => LiveShellsTracked
  <2> SUFFICES ASSUME TypeOK, PanesKept, pc # "down", NEW p \in Pid, proc[p] = "live"
               PROVE  \E k \in 1 .. Len(session_list) :
                        \E j \in 1 .. Len(session_list[k].pane_pids) :
                          /\ ShellOf(p, k, j)
                          /\ \A k2 \in 1 .. Len(session_list), j2 \in Pane :
                               ShellOf(p, k2, j2) => k2 = k /\ j2 = j
    BY DEF LiveShellsTracked
  <2>1. PICK k \in 1 .. Len(session_list) : p \in Shells(session_list[k])
    BY DEF PanesKept, Panes, Tracked
  <2>2. PICK j \in 1 .. Len(session_list[k].pane_pids) :
          session_list[k].pane_pids[j] = p
    BY <2>1 DEF Shells
  <2>3. p # None
    BY NamesAssumption
  <2>4. ASSUME NEW k2 \in 1 .. Len(session_list), NEW j2 \in Pane, ShellOf(p, k2, j2)
        PROVE  k2 = k /\ j2 = j
    BY <2>2, <2>4 DEF ShellOf, At, PanesKept, Panes, OneEach
  <2>5. ShellOf(p, k, j)
    BY <2>2 DEF ShellOf
  <2>6. QED
    BY <2>4, <2>5
<1>2. QED
  BY <1>1, TypeCorrect, PanesAreKept, PTL

(* When the daemon goes back to select, no session is listed that has      *)
(* ended, and no detached one has a client (server.c:442-518).             *)
THEOREM TheListIsCurrent == Spec => []ListIsCurrent
<1>1. TypeOK /\ PanesKept /\ Swept => ListIsCurrent
  <2> SUFFICES ASSUME TypeOK, PanesKept, Swept, pc \in {"setup", "select"},
                      NEW k \in 1 .. Len(session_list)
               PROVE  LET s == session_list[k] IN
                      /\ PaneCount(s) > 0 => Shells(s) # {}
                      /\ ~s.child_exited
                      /\ s.detached => s.client_fd = NoFd
    BY DEF ListIsCurrent
  <2>1. Kept(session_list[k], proc, pc)
    BY DEF PanesKept, Panes
  <2>2. QED
    BY <2>1 DEF Kept, PaneCount, Swept
<1>2. QED
  BY <1>1, TypeCorrect, PanesAreKept, PTL
=============================================================================
