------------------------- MODULE SelfUpdateProofs -------------------------
(***************************************************************************)
(* Proofs about SelfUpdate for any set of versions and any number of       *)
(* installers and edits.                                                   *)
(***************************************************************************)
EXTENDS SelfUpdate, SequenceTheorems, TLAPS

\* While the installer holds a copy of the list.
Holding == pc \in {"bootout", "stop", "move", "mkdir", "copy", "check", "config", "hosts", "list"}

\* A copy that is held is the user's last edit, and the list itself is, but while it is written.
ListInv ==
  ~clobbered =>
    /\ Holding => saved = edits
    /\ pc = "list" => list = Cut
    /\ pc # "list" => list = edits

LEMMA ListStep == ListInv /\ [Next]_vars => ListInv'
<1> SUFFICES ASSUME ListInv, [Next]_vars PROVE ListInv'
  OBVIOUS
<1> USE DEF ListInv, Holding, lists
<1>1. ASSUME pc' \notin {"bootout", "list"}, Holding' => Holding, pc # "list",
             UNCHANGED lists
      PROVE  ListInv'
  BY <1>1
<1>2. CASE CheckUpdate
  BY <1>1, <1>2 DEF CheckUpdate
<1>3. CASE Fetch
  BY <1>1, <1>3 DEF Fetch
<1>4. CASE RunInstaller
  BY <1>1, <1>4 DEF RunInstaller
<1>5. CASE SaveList
  BY <1>5 DEF SaveList, Goto
<1>6. CASE BootoutJobs \/ StopOld \/ MoveAway \/ MakeTree \/ CopyEngine \/ CopyConfig
  BY <1>1, <1>6 DEF BootoutJobs, StopOld, MoveAway, MakeTree, CopyEngine, CopyConfig, Goto
<1>7. CASE CheckEngine
  BY <1>1, <1>7 DEF CheckEngine, Fails
<1>8. CASE CopyHosts
  BY <1>8 DEF CopyHosts, Goto
<1>9. CASE WriteList
  BY <1>9 DEF WriteList, Goto
<1>10. CASE CopyTools \/ DesiredOn \/ Sudoers \/ StartFw \/ LoadJob \/ WriteVersion
  BY <1>1, <1>10 DEF CopyTools, DesiredOn, Sudoers, StartFw, LoadJob, WriteVersion, Goto
<1>11. CASE Record \/ Report
  BY <1>1, <1>11 DEF Record, Report, Goto
<1>12. CASE CutShort
  BY <1>12 DEF CutShort, LeftBehind
<1>13. CASE CommandFails
  BY <1>13 DEF CommandFails, LeftBehind, Fails
<1>14. CASE Reboot
  BY <1>1, <1>14 DEF Reboot
<1>15. ASSUME NEW to \in {"on", "off"}, UserSwitch(to) PROVE ListInv'
  BY <1>1, <1>15 DEF UserSwitch
<1>16. CASE EditList
  BY <1>16 DEF EditList
<1>17. CASE Publish
  BY <1>17 DEF Publish
<1>18. CASE UNCHANGED vars
  BY <1>18 DEF vars
<1> QED
  BY <1>2, <1>3, <1>4, <1>5, <1>6, <1>7, <1>8, <1>9, <1>10, <1>11, <1>12, <1>13, <1>14, <1>15,
     <1>16, <1>17, <1>18 DEF Next, Installer

\* The user's last edit of the hostlist is lost only to an interrupted write or while the
\* installer holds its copy (system-install.sh, lines 86 to 195).
THEOREM HostlistIsKept == Spec => []ListKept
<1>1. Init => ListInv
  BY DEF Init, ListInv, Holding, Default
<1>2. ListInv => ListKept
  BY DEF ListInv, ListKept
<1> QED
  BY <1>1, <1>2, ListStep, PTL DEF Spec

-----------------------------------------------------------------------------
(* Types.                                                                  *)

\* An installer counts at most once as cut short, and while it runs it has not.
ScalarsOK ==
  /\ latest \in Version /\ version \in Version
  /\ list \in -1 .. MaxEdits /\ saved \in -1 .. MaxEdits
  /\ desired \in {"on", "off"} /\ job \in BOOLEAN /\ fw \in BOOLEAN
  /\ pc \in Pc
  /\ installs \in 0 .. MaxInstalls /\ edits \in 0 .. MaxEdits
  /\ torn \in 0 .. MaxInstalls /\ denied \in BOOLEAN /\ clobbered \in BOOLEAN
  /\ pc = "fetch" => installs < MaxInstalls
  /\ torn <= installs
  /\ pc \notin {"idle", "fetch", "record", "report"} => torn < installs

\* Trees are numbered by the installers.
TreesOK ==
  /\ opt \in Tree /\ opt.n <= installs + 1
  /\ baks \in Seq(Tree) /\ Len(baks) <= 2
  /\ \A k \in 1 .. Len(baks) : baks[k].n <= installs + 1

TaskOK == task \in Task

TypeInv == ScalarsOK /\ TreesOK /\ TaskOK

-----------------------------------------------------------------------------
(* Sequences.                                                              *)

LEMMA InsertKeeps ==
  ASSUME NEW b \in Seq(Tree), NEW k \in 1 .. Len(b) + 1, NEW t \in Tree
  PROVE  LET s == InsertAt(b, k, t) IN
         /\ s \in Seq(Tree) /\ Len(s) = Len(b) + 1
         /\ \A i \in 1 .. Len(s) :
              s[i] = IF i < k THEN b[i] ELSE IF i = k THEN t ELSE b[i - 1]
<1> DEFINE front == SubSeq(b, 1, k - 1)
           back == SubSeq(b, k, Len(b))
           left == front \o <<t>>
           s == left \o back
<1>1. front \in Seq(Tree) /\ Len(front) = k - 1 /\ \A i \in 1 .. k - 1 : front[i] = b[i]
  OBVIOUS
<1>2. /\ back \in Seq(Tree) /\ Len(back) = Len(b) + 1 - k
      /\ \A i \in 1 .. Len(b) + 1 - k : back[i] = b[i + k - 1]
  OBVIOUS
<1>3. <<t>> \in Seq(Tree) /\ Len(<<t>>) = 1 /\ <<t>>[1] = t
  OBVIOUS
<1> HIDE DEF front, back
<1>4. /\ left \in Seq(Tree) /\ Len(left) = k
      /\ \A i \in 1 .. k : left[i] = IF i < k THEN b[i] ELSE t
  <2>1. /\ left \in Seq(Tree) /\ Len(left) = Len(front) + 1
        /\ \A i \in 1 .. Len(front) + 1 :
             left[i] = IF i <= Len(front) THEN front[i] ELSE <<t>>[i - Len(front)]
    BY <1>1, <1>3, ConcatProperties
  <2> HIDE DEF left
  <2> QED
    BY <1>1, <1>3, <2>1
<1> HIDE DEF left
<1>5. /\ s \in Seq(Tree) /\ Len(s) = Len(left) + Len(back)
      /\ \A i \in 1 .. Len(left) + Len(back) :
           s[i] = IF i <= Len(left) THEN left[i] ELSE back[i - Len(left)]
  BY <1>2, <1>4, ConcatProperties
<1>6. InsertAt(b, k, t) = s
  BY DEF InsertAt, front, left, back
<1> HIDE DEF s
<1>7. Len(s) = Len(b) + 1
  BY <1>2, <1>4, <1>5
<1>8. ASSUME NEW i \in 1 .. Len(s)
      PROVE  s[i] = IF i < k THEN b[i] ELSE IF i = k THEN t ELSE b[i - 1]
  <2>1. CASE i <= k
    BY <1>4, <1>5, <1>7, <2>1
  <2>2. CASE i > k
    <3>1. i - k \in 1 .. Len(b) + 1 - k
      BY <1>7, <2>2
    <3>2. s[i] = back[i - k] /\ back[i - k] = b[(i - k) + k - 1]
      BY <1>2, <1>4, <1>5, <2>2, <3>1
    <3>3. (i - k) + k - 1 = i - 1
      OBVIOUS
    <3> QED
      BY <2>2, <3>2, <3>3
  <2> QED
    BY <2>1, <2>2
<1> QED
  BY <1>5, <1>6, <1>7, <1>8

LEMMA PrunedKeeps ==
  ASSUME NEW b \in Seq(Tree)
  PROVE  /\ Pruned(b) \in Seq(Tree)
         /\ Len(Pruned(b)) = IF Len(b) > 2 THEN 2 ELSE Len(b)
         /\ \A i \in 1 .. Len(Pruned(b)) : Pruned(b)[i] = b[i]
BY DEF Pruned

LEMMA RemoveKeeps ==
  ASSUME NEW b \in Seq(Tree), NEW k \in 1 .. Len(b)
  PROVE  LET s == RemoveAt(b, k) IN
         /\ s \in Seq(Tree) /\ Len(s) = Len(b) - 1
         /\ \A i \in 1 .. Len(s) : s[i] = IF i < k THEN b[i] ELSE b[i + 1]
<1> DEFINE front == SubSeq(b, 1, k - 1)
           back == SubSeq(b, k + 1, Len(b))
           s == front \o back
<1>1. front \in Seq(Tree) /\ Len(front) = k - 1 /\ \A i \in 1 .. k - 1 : front[i] = b[i]
  OBVIOUS
<1>2. /\ back \in Seq(Tree) /\ Len(back) = Len(b) - k
      /\ \A i \in 1 .. Len(b) - k : back[i] = b[i + k]
  OBVIOUS
<1> HIDE DEF front, back
<1>3. /\ s \in Seq(Tree) /\ Len(s) = Len(front) + Len(back)
      /\ \A i \in 1 .. Len(front) + Len(back) :
           s[i] = IF i <= Len(front) THEN front[i] ELSE back[i - Len(front)]
  BY <1>1, <1>2, ConcatProperties
<1>4. RemoveAt(b, k) = s
  BY DEF RemoveAt, front, back
<1> HIDE DEF s
<1>5. Len(s) = Len(b) - 1
  BY <1>1, <1>2, <1>3
<1>6. ASSUME NEW i \in 1 .. Len(s)
      PROVE  s[i] = IF i < k THEN b[i] ELSE b[i + 1]
  <2>1. CASE i < k
    BY <1>1, <1>3, <1>5, <2>1
  <2>2. CASE i >= k
    <3>1. i - (k - 1) \in 1 .. Len(b) - k
      BY <1>5, <2>2
    <3>2. s[i] = back[i - (k - 1)] /\ back[i - (k - 1)] = b[(i - (k - 1)) + k]
      BY <1>1, <1>2, <1>3, <1>5, <2>2, <3>1
    <3>3. (i - (k - 1)) + k = i + 1
      OBVIOUS
    <3> QED
      BY <2>2, <3>2, <3>3
  <2> QED
    BY <2>1, <2>2
<1> QED
  BY <1>3, <1>4, <1>5, <1>6

\* What the installer does to the backups when it moves the tree away.
LEMMA MoveAwayKeeps ==
  ASSUME TreesOK, MoveAway, opt # Gone
  PROVE  \E k \in 1 .. Len(baks) + 1 :
           /\ k = 1 \/ opt.dated
           /\ baks' \in Seq(Tree) /\ Len(baks') = IF Len(baks) > 1 THEN 2 ELSE Len(baks) + 1
           /\ \A i \in 1 .. Len(baks') :
                baks'[i] = IF i < k THEN baks[i] ELSE IF i = k THEN opt ELSE baks[i - 1]
<1> USE DEF TreesOK
<1>1. PICK k \in 1 .. IF opt.dated THEN Len(baks) + 1 ELSE 1 :
        baks' = Pruned(InsertAt(baks, k, opt))
  BY DEF MoveAway
<1>2. k \in 1 .. Len(baks) + 1 /\ (k = 1 \/ opt.dated)
  BY <1>1
<1> DEFINE s == InsertAt(baks, k, opt)
<1>3. /\ s \in Seq(Tree) /\ Len(s) = Len(baks) + 1
      /\ \A i \in 1 .. Len(s) : s[i] = IF i < k THEN baks[i] ELSE IF i = k THEN opt ELSE baks[i - 1]
  BY <1>2, InsertKeeps
<1> HIDE DEF s
<1>4. /\ baks' \in Seq(Tree)
      /\ Len(baks') = IF Len(s) > 2 THEN 2 ELSE Len(s)
      /\ \A i \in 1 .. Len(baks') : baks'[i] = s[i]
  BY <1>1, <1>3, PrunedKeeps DEF s
<1>5. Len(baks') = IF Len(baks) > 1 THEN 2 ELSE Len(baks) + 1
  BY <1>3, <1>4
<1>6. \A i \in 1 .. Len(baks') :
        baks'[i] = IF i < k THEN baks[i] ELSE IF i = k THEN opt ELSE baks[i - 1]
  BY <1>3, <1>4
<1> QED
  BY <1>2, <1>4, <1>5, <1>6

\* What it does to them when it takes the tree back.
LEMMA RestoreKeeps ==
  ASSUME TreesOK, CheckEngine, ~UNCHANGED tree
  PROVE  \E k \in 1 .. Len(baks) :
           /\ baks[k].n = task.bak /\ opt' = baks[k]
           /\ baks' \in Seq(Tree) /\ Len(baks') = Len(baks) - 1
           /\ \A i \in 1 .. Len(baks') : baks'[i] = IF i < k THEN baks[i] ELSE baks[i + 1]
<1>1. PICK k \in 1 .. Len(baks) :
        opt' = baks[k] /\ baks' = RemoveAt(baks, k) /\ baks[k].n = task.bak
  <2>1. DOMAIN baks = 1 .. Len(baks)
    BY DEF TreesOK
  <2> QED
    BY <2>1 DEF CheckEngine, tree
<1> QED
  BY <1>1, RemoveKeeps DEF TreesOK

-----------------------------------------------------------------------------
(* Type correctness.                                                       *)

LEMMA GoneIsTree == Gone \in Tree /\ Gone.n = 0
<1>1. (CHOOSE v \in Version : TRUE) \in Version
  BY VersionAssumption
<1> QED
  BY <1>1, BoundAssumption DEF Gone, Tree

LEMMA ScalarsStep == TypeInv /\ [Next]_vars => ScalarsOK'
<1> SUFFICES ASSUME TypeInv, [Next]_vars PROVE ScalarsOK'
  OBVIOUS
<1> USE BoundAssumption DEF TypeInv, ScalarsOK, Pc, lists, switch, history
<1>1. task.ver \in Version
  BY DEF TaskOK, Task
<1>2. CASE CheckUpdate
  BY <1>2 DEF CheckUpdate
<1>3. CASE Fetch
  BY <1>3 DEF Fetch
<1>4. CASE RunInstaller
  BY <1>4 DEF RunInstaller
<1>5. CASE SaveList \/ BootoutJobs \/ StopOld
  BY <1>5 DEF SaveList, BootoutJobs, StopOld, Goto
<1>6. CASE MoveAway \/ MakeTree \/ CopyEngine \/ CopyConfig
  BY <1>6 DEF MoveAway, MakeTree, CopyEngine, CopyConfig, Goto
<1>7. CASE CheckEngine
  BY <1>7 DEF CheckEngine, Fails
<1>8. CASE CopyHosts \/ WriteList \/ CopyTools
  BY <1>8 DEF CopyHosts, WriteList, CopyTools, Goto, Cut
<1>9. CASE DesiredOn \/ Sudoers \/ StartFw \/ LoadJob
  BY <1>9 DEF DesiredOn, Sudoers, StartFw, LoadJob, Goto
<1>10. CASE WriteVersion
  <2>1. /\ pc' \in {"record", "idle"} /\ torn' = 0 /\ denied' \in BOOLEAN /\ version' \in Version
        /\ UNCHANGED <<latest, installs, list, saved, edits, clobbered, desired, job, fw>>
    BY <1>1, <1>10 DEF WriteVersion, Goto
  <2>2. 0 \in 0 .. MaxInstalls /\ 0 <= installs
    OBVIOUS
  <2> QED
    BY <2>1, <2>2
<1>11. CASE Record
  <2>1. task.failed \in BOOLEAN
    BY DEF TaskOK, Task
  <2> QED
    BY <1>1, <1>11, <2>1 DEF Record, Goto
<1>12. CASE Report
  BY <1>12 DEF Report, Goto
<1>13. CASE CutShort
  BY <1>13 DEF CutShort, LeftBehind
<1>14. CASE CommandFails
  BY <1>14 DEF CommandFails, LeftBehind, Fails
<1>15. CASE Reboot
  BY <1>15 DEF Reboot
<1>16. ASSUME NEW to \in {"on", "off"}, UserSwitch(to) PROVE ScalarsOK'
  BY <1>16 DEF UserSwitch
<1>17. CASE EditList
  BY <1>17 DEF EditList
<1>18. CASE Publish
  BY <1>18 DEF Publish
<1>19. CASE UNCHANGED vars
  BY <1>19 DEF vars
<1> QED
  BY <1>2, <1>3, <1>4, <1>5, <1>6, <1>7, <1>8, <1>9, <1>10, <1>11, <1>12, <1>13, <1>14, <1>15,
     <1>16, <1>17, <1>18, <1>19 DEF Next, Installer

LEMMA TaskStep == TypeInv /\ [Next]_vars => TaskOK'
<1> SUFFICES ASSUME TypeInv, [Next]_vars PROVE TaskOK'
  OBVIOUS
<1> USE DEF TaskOK
<1>1. task \in Task /\ latest \in Version /\ opt.n \in 0 .. MaxInstalls + 1
  BY DEF TypeInv, ScalarsOK, TreesOK, Tree
<1>2. CASE UNCHANGED task
  BY <1>1, <1>2
<1>3. CASE Fetch
  <2>1. ASSUME NEW ok \in BOOLEAN,
               task' = [by |-> "self", ver |-> latest, ok |-> ok, bak |-> 0, failed |-> FALSE]
        PROVE  TaskOK'
    BY <1>1, <2>1, BoundAssumption DEF Task
  <2> QED
    BY <1>2, <1>3, <2>1 DEF Fetch
<1>4. CASE RunInstaller
  <2>1. ASSUME NEW v \in Version, NEW ok \in BOOLEAN,
               task' = [by |-> "dmg", ver |-> v, ok |-> ok, bak |-> 0, failed |-> FALSE]
        PROVE  TaskOK'
    BY <1>1, <2>1, BoundAssumption DEF Task
  <2> QED
    BY <1>4, <2>1 DEF RunInstaller
<1>5. CASE MoveAway
  BY <1>1, <1>5 DEF MoveAway, Task
<1>6. CASE Fails
  BY <1>1, <1>6 DEF Fails, Task
<1>7. CheckEngine => Fails \/ UNCHANGED task
  BY DEF CheckEngine
<1>8. CommandFails => Fails
  BY DEF CommandFails
<1>9. Next => \/ Fetch \/ RunInstaller \/ MoveAway \/ CheckEngine \/ CommandFails
              \/ UNCHANGED task
  BY DEF Next, Installer, CheckUpdate, Goto, SaveList, BootoutJobs, StopOld, MakeTree, CopyEngine,
         CopyConfig, CopyHosts, WriteList, CopyTools, DesiredOn, Sudoers, StartFw, LoadJob, WriteVersion,
         Record, Report, CutShort, Reboot, UserSwitch, EditList, Publish
<1> QED
  BY <1>2, <1>3, <1>4, <1>5, <1>6, <1>7, <1>8, <1>9 DEF vars

LEMMA TreeFacts ==
  ASSUME TreesOK
  PROVE  /\ Len(baks) \in 0 .. 2 /\ opt.n \in Nat
         /\ \A k \in 1 .. Len(baks) : baks[k] \in Tree /\ baks[k].n \in Nat
<1>1. baks \in Seq(Tree) /\ Len(baks) <= 2 /\ opt \in Tree
  BY DEF TreesOK
<1>2. Len(baks) \in Nat
  BY <1>1, LenProperties
<1>3. ASSUME NEW k \in 1 .. Len(baks) PROVE baks[k] \in Tree
  BY <1>1, <1>3
<1>4. ASSUME NEW t \in Tree PROVE t.n \in Nat
  BY BoundAssumption DEF Tree
<1>5. Len(baks) \in 0 .. 2
  <2> DEFINE l == Len(baks)
  <2>1. l \in Nat /\ l <= 2
    BY <1>1, <1>2
  <2> HIDE DEF l
  <2>2. l \in 0 .. 2
    BY <2>1
  <2> QED
    BY <2>2 DEF l
<1>6. ASSUME NEW k \in 1 .. Len(baks) PROVE baks[k] \in Tree /\ baks[k].n \in Nat
  <2>1. baks[k] \in Tree
    BY <1>3
  <2> QED
    BY <1>4, <2>1
<1>7. opt.n \in Nat
  BY <1>1, <1>4
<1> QED
  BY <1>5, <1>6, <1>7

\* What the installer does to a tree in place.
Changed(t, w, h) == {[t EXCEPT !.whole = w, !.dated = TRUE], [t EXCEPT !.dated = FALSE],
                     [t EXCEPT !.hosts = h], [t EXCEPT !.tools = TRUE]}

LEMMA Changes ==
  ASSUME NEW t \in Tree, NEW w \in BOOLEAN, NEW h \in -1 .. MaxEdits
  PROVE  \A u \in Changed(t, w, h) : u \in Tree /\ u.n = t.n
BY DEF Tree, Changed

LEMMA TreeChange ==
  ASSUME TreesOK, opt' \in Tree, opt'.n = opt.n, UNCHANGED baks,
         installs' >= installs, installs \in Nat, installs' \in Nat
  PROVE  TreesOK'
<1>1. /\ opt.n \in Nat /\ opt.n <= installs + 1
      /\ \A k \in 1 .. Len(baks) : baks[k].n \in Nat /\ baks[k].n <= installs + 1
  BY TreeFacts DEF TreesOK
<1>2. /\ opt'.n <= installs' + 1
      /\ \A k \in 1 .. Len(baks) : baks[k].n <= installs' + 1
  BY <1>1
<1>3. baks \in Seq(Tree) /\ Len(baks) <= 2
  BY DEF TreesOK
<1> QED
  BY <1>2, <1>3 DEF TreesOK

LEMMA TreesStep == TypeInv /\ [Next]_vars => TreesOK'
<1> SUFFICES ASSUME TypeInv, [Next]_vars PROVE TreesOK'
  OBVIOUS
<1>1. TreesOK /\ task \in Task
  BY DEF TypeInv, TaskOK
<1>2. installs \in Nat /\ installs' \in Nat /\ installs' >= installs
  BY BoundAssumption DEF TypeInv, ScalarsOK, Next, Installer, CheckUpdate, Fetch, RunInstaller, Goto, SaveList,
     BootoutJobs, StopOld, MoveAway, MakeTree, CopyEngine, CheckEngine, CopyConfig, CopyHosts,
     WriteList, CopyTools, DesiredOn, Sudoers, StartFw, LoadJob, WriteVersion, Record, Report,
     CutShort, CommandFails, LeftBehind, Reboot, UserSwitch, EditList, Publish, vars
<1>3. ASSUME UNCHANGED <<opt, baks>> PROVE TreesOK'
  BY <1>1, <1>2, <1>3, TreeChange DEF TreesOK
<1>4. CASE MoveAway
  <2>1. opt' = Gone /\ UNCHANGED installs
    BY <1>4 DEF MoveAway
  <2>2. opt' \in Tree /\ opt'.n <= installs' + 1
    BY <1>2, <2>1, GoneIsTree
  <2>3. CASE opt = Gone
    <3>1. UNCHANGED baks
      BY <1>4, <2>3 DEF MoveAway
    <3> QED
      BY <1>1, <2>1, <2>2, <3>1 DEF TreesOK
  <2>4. CASE opt # Gone
    <3>1. PICK k \in 1 .. Len(baks) + 1 :
            /\ baks' \in Seq(Tree) /\ Len(baks') = IF Len(baks) > 1 THEN 2 ELSE Len(baks) + 1
            /\ \A i \in 1 .. Len(baks') :
                 baks'[i] = IF i < k THEN baks[i] ELSE IF i = k THEN opt ELSE baks[i - 1]
      BY <1>1, <1>4, <2>4, MoveAwayKeeps
    <3>2. Len(baks) \in 0 .. 2
      BY <1>1, TreeFacts
    <3>3. ASSUME NEW i \in 1 .. Len(baks') PROVE baks'[i].n <= installs' + 1
      <4>1. CASE i < k
        BY <1>1, <2>1, <3>1, <3>2, <4>1 DEF TreesOK
      <4>2. CASE i = k
        BY <1>1, <2>1, <3>1, <4>2 DEF TreesOK
      <4>3. CASE i > k
        <5>1. i - 1 \in 1 .. Len(baks) /\ baks'[i] = baks[i - 1]
          BY <3>1, <3>2, <4>3
        <5> QED
          BY <1>1, <2>1, <5>1 DEF TreesOK
      <4> QED
        BY <4>1, <4>2, <4>3
    <3>4. Len(baks') <= 2
      BY <3>1, <3>2
    <3> QED
      BY <2>2, <3>1, <3>3, <3>4 DEF TreesOK
  <2> QED
    BY <2>3, <2>4
<1>5. CASE MakeTree
  <2>1. /\ opt' = [Gone EXCEPT !.n = installs + 1, !.ver = task.ver]
        /\ UNCHANGED <<baks, installs>>
    BY <1>5 DEF MakeTree, Goto
  <2>2. installs + 1 \in 0 .. MaxInstalls + 1 /\ task.ver \in Version
    BY <1>1, BoundAssumption DEF TypeInv, ScalarsOK, Task
  <2>3. opt' \in Tree /\ opt'.n = installs + 1
    BY <2>1, <2>2, GoneIsTree DEF Tree
  <2> QED
    BY <1>1, <1>2, <2>1, <2>3 DEF TreesOK
<1>6. CASE CheckEngine
  <2>1. CASE UNCHANGED <<opt, baks>>
    BY <1>3, <2>1
  <2>2. CASE ~UNCHANGED <<opt, baks>>
    <3>1. PICK k \in 1 .. Len(baks) :
           /\ opt' = baks[k]
           /\ baks' \in Seq(Tree) /\ Len(baks') = Len(baks) - 1
           /\ \A i \in 1 .. Len(baks') : baks'[i] = IF i < k THEN baks[i] ELSE baks[i + 1]
      BY <1>1, <1>6, <2>2, RestoreKeeps DEF tree
    <3>2. UNCHANGED installs /\ Len(baks) \in 0 .. 2
      <4>1. UNCHANGED installs
        BY <1>6 DEF CheckEngine
      <4> QED
        BY <1>1, <4>1, TreeFacts
    <3>3. ASSUME NEW i \in 1 .. Len(baks') PROVE baks'[i].n <= installs' + 1
      <4>1. i \in 1 .. Len(baks) /\ i + 1 \in 1 .. Len(baks)
        BY <3>1, <3>2
      <4> QED
        BY <1>1, <3>1, <3>2, <4>1 DEF TreesOK
    <3>4. opt' \in Tree /\ opt'.n <= installs' + 1
      BY <1>1, <3>1, <3>2 DEF TreesOK
    <3>5. Len(baks') <= 2
      BY <3>1, <3>2
    <3> QED
      BY <3>1, <3>3, <3>4, <3>5 DEF TreesOK
  <2> QED
    BY <2>1, <2>2
<1>7. opt \in Tree /\ saved \in -1 .. MaxEdits /\ list \in -1 .. MaxEdits /\ task.ok \in BOOLEAN
      /\ opt.hosts \in -1 .. MaxEdits
  BY <1>1 DEF TypeInv, ScalarsOK, TreesOK, Task, Tree
<1>8. CASE CopyEngine \/ CopyConfig \/ CopyHosts \/ CopyTools
  <2>1. opt' \in Changed(opt, task.ok, saved)
    BY <1>8 DEF CopyEngine, CopyConfig, CopyHosts, CopyTools, Changed
  <2>2. opt' \in Tree /\ opt'.n = opt.n
    BY <1>7, <2>1, Changes
  <2>3. UNCHANGED baks
    BY <1>8 DEF CopyEngine, CopyConfig, CopyHosts, CopyTools
  <2> QED
    BY <1>1, <1>2, <2>2, <2>3, TreeChange
<1>9. ASSUME NEW to \in {"on", "off"}, UserSwitch(to) PROVE TreesOK'
  <2> DEFINE h == IF to = "on" THEN list ELSE opt.hosts
  <2>1. opt' \in Changed(opt, TRUE, h) /\ UNCHANGED baks
    BY <1>9 DEF UserSwitch, Changed
  <2>2. h \in -1 .. MaxEdits
    BY <1>7
  <2> HIDE DEF h
  <2>3. opt' \in Tree /\ opt'.n = opt.n
    BY <1>7, <2>1, <2>2, Changes
  <2> QED
    BY <1>1, <1>2, <2>1, <2>3, TreeChange
<1>10. \/ UNCHANGED <<opt, baks>> \/ MoveAway \/ MakeTree \/ CheckEngine \/ CopyEngine \/ CopyConfig
       \/ CopyHosts \/ CopyTools \/ \E to \in {"on", "off"} : UserSwitch(to)
  BY DEF Next, Installer, vars, tree, CheckUpdate, Fetch, RunInstaller, Goto, SaveList, BootoutJobs, StopOld,
     WriteList, DesiredOn, Sudoers, StartFw, LoadJob, WriteVersion, Record, Report, CutShort,
     CommandFails, LeftBehind, Reboot, EditList, Publish
<1> QED
  BY <1>3, <1>4, <1>5, <1>6, <1>8, <1>9, <1>10

LEMMA InitTypes == Init => TypeInv
<1> SUFFICES ASSUME Init PROVE TypeInv
  OBVIOUS
<1> USE BoundAssumption
<1>1. PICK v \in Version :
        /\ version = v /\ latest = v
        /\ opt = [n |-> 1, ver |-> v, whole |-> TRUE, tools |-> TRUE, dated |-> FALSE,
                  hosts |-> Default]
  BY DEF Init
<1>2. ScalarsOK
  <2>1. latest \in Version /\ version \in Version /\ 0 \in 0 .. MaxInstalls /\ 0 \in -1 .. MaxEdits
    BY <1>1
  <2>2. /\ list = 0 /\ saved = 0 /\ installs = 0 /\ edits = 0 /\ torn = 0 /\ pc = "idle"
        /\ desired \in {"on", "off"} /\ job \in BOOLEAN /\ fw \in BOOLEAN
        /\ denied \in BOOLEAN /\ clobbered \in BOOLEAN
    BY DEF Init, Default
  <2> QED
    BY <2>1, <2>2 DEF ScalarsOK, Pc
<1>3. TaskOK
  BY <1>1 DEF Init, TaskOK, Task
<1>4. TreesOK
  BY <1>1 DEF Init, TreesOK, Tree, Default
<1> QED
  BY <1>2, <1>3, <1>4 DEF TypeInv

LEMMA TypeInductive == Spec => []TypeInv
<1>1. TypeInv /\ [Next]_vars => TypeInv'
  BY ScalarsStep, TaskStep, TreesStep DEF TypeInv
<1> QED
  BY <1>1, InitTypes, PTL DEF Spec

\* The installer leaves every piece of its state in its range; there are never more than two backups
\* (system-install.sh, lines 134 to 137).
THEOREM TypeCorrect == Spec => []TypeOK
<1>1. TypeInv => TypeOK
  BY DEF TypeInv, ScalarsOK, TreesOK, TaskOK, TypeOK
<1> QED
  BY <1>1, TypeInductive, PTL

-----------------------------------------------------------------------------
(* What is in place.                                                       *)

\* No two trees have the same number, and a tree that is being made has one.
Distinct ==
  /\ \A i, j \in 1 .. Len(baks) : baks[i].n = baks[j].n => i = j
  /\ \A i \in 1 .. Len(baks) : baks[i].n # 0 /\ baks[i].n # opt.n
  /\ opt.n = 0 => opt = Gone
  /\ pc \in {"copy", "check", "config", "hosts", "list", "tools"} => opt.n # 0
  /\ pc \in {"save", "bootout", "stop", "move", "mkdir"} =>
       /\ opt.n <= installs
       /\ \A i \in 1 .. Len(baks) : baks[i].n <= installs

\* The scripts are copied after the config, which gives the tree a new date.
Dated ==
  /\ opt.tools => ~opt.dated
  /\ \A i \in 1 .. Len(baks) : baks[i].tools => ~baks[i].dated
  /\ pc \in {"hosts", "list", "tools"} => ~opt.dated
  /\ pc = "copy" => ~opt.tools

\* The tree that an installer makes.
Running == {"config", "hosts", "list", "tools", "desired", "sudoers", "fw", "job", "version"}

Made ==
  /\ pc \in {"copy", "check"} \cup Running => opt.ver = task.ver
  /\ pc \in Running => opt.whole
  /\ pc \in {"desired", "sudoers", "fw", "job", "version"} => opt.tools
  /\ pc = "version" => job

Good(t) == Complete(t) /\ (t.ver = version \/ denied)

\* The tree in place can run, or the backup can that the installer takes back.
Whole ==
  torn = 0 =>
    /\ pc \in {"idle", "fetch", "save", "bootout", "stop", "move", "record", "report"} => Good(opt)
    /\ pc = "record" => opt.ver = task.ver \/ task.failed
    /\ pc \in {"mkdir", "copy", "check"} =>
         \E i \in 1 .. Len(baks) : baks[i].n = task.bak /\ Good(baks[i])

\* The rules are flushed before the tree goes, and come back before the job does.
Diverted ==
  torn = 0 =>
    /\ pc \in {"idle", "fetch", "save", "bootout", "record", "report"} => (fw => job)
    /\ pc \in {"move", "mkdir", "copy", "check"} => ~fw

Installed == TypeInv /\ Distinct /\ Dated /\ Made /\ Whole /\ Diverted

-----------------------------------------------------------------------------
(* Every step keeps each part.                                             *)

\* The steps that leave the trees alone, with what they do to pc.
LEMMA StillSteps ==
  ASSUME [Next]_vars
  PROVE  \/ UNCHANGED <<opt, baks>>
         \/ MoveAway \/ MakeTree \/ CheckEngine
         \/ CopyEngine \/ CopyConfig \/ CopyHosts \/ CopyTools
         \/ \E to \in {"on", "off"} : UserSwitch(to)
BY DEF Next, Installer, vars, tree, CheckUpdate, Fetch, RunInstaller, Goto, SaveList, BootoutJobs, StopOld,
       WriteList, DesiredOn, Sudoers, StartFw, LoadJob, WriteVersion, Record, Report, CutShort,
       CommandFails, LeftBehind, Reboot, EditList, Publish

\* Where a step goes.
LEMMA PcSteps ==
  ASSUME TypeInv, [Next]_vars
  PROVE  /\ pc' \in {"copy", "check", "config", "hosts", "list", "tools"} =>
              pc \in {"copy", "check", "config", "hosts", "list", "tools"} \/ MakeTree
         /\ pc' \in {"save", "bootout", "stop", "move", "mkdir"} =>
              \/ pc \in {"save", "bootout", "stop", "move", "mkdir"} /\ installs' = installs
              \/ installs' = installs + 1
         /\ pc' \in {"hosts", "list", "tools"} => pc \in {"hosts", "list", "tools"} \/ CopyConfig
         /\ pc' = "copy" => pc = "copy" \/ MakeTree
<1>1. CASE SaveList \/ BootoutJobs \/ StopOld \/ MoveAway \/ MakeTree \/ CopyEngine \/ CopyConfig
           \/ CopyHosts \/ WriteList \/ CopyTools \/ DesiredOn \/ Sudoers \/ StartFw \/ LoadJob
  <2>1. CASE SaveList \/ BootoutJobs \/ StopOld
    BY <2>1 DEF Goto, SaveList, BootoutJobs, StopOld
  <2>2. CASE MoveAway
    BY <2>2 DEF MoveAway
  <2>3. CASE MakeTree \/ CopyEngine
    BY <2>3 DEF Goto, MakeTree, CopyEngine
  <2>4. CASE CopyConfig \/ CopyHosts \/ WriteList \/ CopyTools
    BY <2>4 DEF Goto, CopyConfig, CopyHosts, WriteList, CopyTools
  <2>5. CASE DesiredOn \/ Sudoers \/ StartFw \/ LoadJob
    BY <2>5 DEF Goto, DesiredOn, Sudoers, StartFw, LoadJob
  <2> QED
    BY <1>1, <2>1, <2>2, <2>3, <2>4, <2>5
<1>2. CASE CheckEngine \/ CutShort \/ CommandFails
  <2>1. Fails => pc' \in {"record", "idle"}
    BY DEF Fails
  <2>2. CheckEngine => pc = "check" /\ (pc' = "config" \/ Fails)
    BY DEF CheckEngine
  <2>3. CutShort => pc' = "idle"
    BY DEF CutShort
  <2>4. CommandFails => Fails
    BY DEF CommandFails
  <2> QED
    BY <1>2, <2>1, <2>2, <2>3, <2>4
<1>3. CASE WriteVersion \/ Record \/ Report \/ CheckUpdate \/ Fetch \/ RunInstaller
  BY <1>3 DEF WriteVersion, Record, Report, CheckUpdate, Fetch, RunInstaller, Goto
<1>4. ASSUME UNCHANGED <<pc, installs>> PROVE pc' = pc /\ installs' = installs
  BY <1>4
<1>5. CASE Reboot \/ EditList \/ Publish \/ UNCHANGED vars
           \/ \E to \in {"on", "off"} : UserSwitch(to)
  BY <1>4, <1>5 DEF Reboot, EditList, Publish, UserSwitch, vars
<1> QED
  BY <1>1, <1>2, <1>3, <1>5 DEF Next, Installer

LEMMA DistinctStep == TypeInv /\ Distinct /\ [Next]_vars => Distinct'
<1> SUFFICES ASSUME TypeInv, Distinct, [Next]_vars PROVE Distinct'
  OBVIOUS
<1>1. TreesOK /\ installs \in Nat
  BY BoundAssumption DEF TypeInv, ScalarsOK
<1>2. /\ Len(baks) \in 0 .. 2 /\ opt.n \in Nat /\ opt.n <= installs + 1
      /\ \A k \in 1 .. Len(baks) : baks[k].n \in Nat /\ baks[k].n <= installs + 1
  BY <1>1, TreeFacts DEF TreesOK
<1>3. ASSUME UNCHANGED baks, opt'.n = opt.n, opt'.n = 0 => opt' = Gone, ~MakeTree
      PROVE  Distinct'
  BY <1>1, <1>2, <1>3, PcSteps DEF Distinct
<1>4. CASE UNCHANGED <<opt, baks>>
  <2>1. CASE ~MakeTree
    BY <1>3, <1>4, <2>1 DEF Distinct
  <2>2. CASE MakeTree
    <3>1. opt'.n = installs + 1
      BY <2>2, GoneIsTree DEF MakeTree, Tree
    <3>2. pc = "mkdir"
      BY <2>2 DEF MakeTree, Goto
    <3> QED
      BY <1>1, <1>2, <1>4, <3>1, <3>2 DEF Distinct
  <2> QED
    BY <2>1, <2>2
<1>5. CASE MakeTree
  <2>1. /\ opt' = [Gone EXCEPT !.n = installs + 1, !.ver = task.ver] /\ UNCHANGED <<baks, installs>>
        /\ pc = "mkdir" /\ pc' = "copy"
    BY <1>5 DEF MakeTree, Goto
  <2>2. opt'.n = installs + 1
    BY <2>1, GoneIsTree DEF Tree
  <2> QED
    BY <1>1, <1>2, <2>1, <2>2 DEF Distinct
<1>6. CASE MoveAway
  <2>1. opt'.n = 0 /\ opt' = Gone /\ pc = "move" /\ pc' = "mkdir" /\ UNCHANGED installs
    BY <1>6, GoneIsTree DEF MoveAway
  <2>2. CASE opt = Gone
    <3>1. UNCHANGED baks
      BY <1>6, <2>2 DEF MoveAway
    <3>2. \A i \in 1 .. Len(baks) : baks[i].n # 0 /\ baks[i].n # opt'.n /\ baks[i].n <= installs
      BY <2>1 DEF Distinct
    <3> QED
      BY <1>1, <2>1, <3>1, <3>2 DEF Distinct
  <2>3. CASE opt # Gone
    <3>1. PICK k \in 1 .. Len(baks) + 1 :
            /\ baks' \in Seq(Tree) /\ Len(baks') = IF Len(baks) > 1 THEN 2 ELSE Len(baks) + 1
            /\ \A i \in 1 .. Len(baks') :
                 baks'[i] = IF i < k THEN baks[i] ELSE IF i = k THEN opt ELSE baks[i - 1]
      BY <1>1, <1>6, <2>3, MoveAwayKeeps
    <3>2. opt.n # 0
      BY <2>3 DEF Distinct
    <3> DEFINE src(i) == IF i < k THEN i ELSE i - 1
    <3>3. ASSUME NEW i \in 1 .. Len(baks'), i # k
          PROVE  src(i) \in 1 .. Len(baks) /\ baks'[i] = baks[src(i)]
      BY <1>2, <3>1, <3>3
    <3>4. ASSUME NEW i \in 1 .. Len(baks') PROVE baks'[i].n # 0 /\ baks'[i].n <= installs
      <4>1. CASE i = k
        BY <2>1, <3>1, <3>2, <4>1 DEF Distinct
      <4>2. CASE i # k
        BY <2>1, <3>3, <4>2 DEF Distinct
      <4> QED
        BY <4>1, <4>2
    <3>5. ASSUME NEW i \in 1 .. Len(baks'), NEW j \in 1 .. Len(baks'), baks'[i].n = baks'[j].n
          PROVE  i = j
      <4>1. CASE i # k /\ j # k
        <5>1. src(i) = src(j)
          BY <3>3, <3>5, <4>1 DEF Distinct
        <5> QED
          BY <1>2, <3>1, <4>1, <5>1
      <4>2. CASE i = k /\ j # k
        <5>1. baks'[i] = opt
          BY <3>1, <4>2
        <5> QED
          BY <3>3, <3>5, <4>2, <5>1 DEF Distinct
      <4>3. CASE i # k /\ j = k
        <5>1. baks'[j] = opt
          BY <3>1, <4>3
        <5> QED
          BY <3>3, <3>5, <4>3, <5>1 DEF Distinct
      <4> QED
        BY <4>1, <4>2, <4>3
    <3> QED
      BY <1>1, <2>1, <3>4, <3>5 DEF Distinct
  <2> QED
    BY <2>2, <2>3
<1>7. CASE CheckEngine /\ ~UNCHANGED <<opt, baks>>
  <2>1. PICK k \in 1 .. Len(baks) :
           /\ opt' = baks[k]
           /\ baks' \in Seq(Tree) /\ Len(baks') = Len(baks) - 1
           /\ \A i \in 1 .. Len(baks') : baks'[i] = IF i < k THEN baks[i] ELSE baks[i + 1]
    BY <1>1, <1>7, RestoreKeeps DEF tree
  <2> DEFINE src(i) == IF i < k THEN i ELSE i + 1
  <2>2. ASSUME NEW i \in 1 .. Len(baks')
        PROVE  src(i) \in 1 .. Len(baks) /\ src(i) # k /\ baks'[i] = baks[src(i)]
    BY <1>2, <2>1
  <2>3. pc' \in {"record", "idle"}
    BY <1>7 DEF CheckEngine, Fails, tree
  <2>4. opt'.n # 0
    BY <2>1 DEF Distinct
  <2>5. ASSUME NEW i \in 1 .. Len(baks') PROVE baks'[i].n # 0 /\ baks'[i].n # opt'.n
    BY <2>1, <2>2 DEF Distinct
  <2>6. ASSUME NEW i \in 1 .. Len(baks'), NEW j \in 1 .. Len(baks'), baks'[i].n = baks'[j].n
        PROVE  i = j
    <3>1. src(i) = src(j)
      BY <2>2, <2>6 DEF Distinct
    <3> QED
      BY <1>2, <2>1, <3>1
  <2> QED
    BY <2>3, <2>4, <2>5, <2>6 DEF Distinct
<1>8. CASE CopyEngine \/ CopyConfig \/ CopyHosts \/ CopyTools
  <2>1. opt' \in Changed(opt, task.ok, saved) /\ UNCHANGED baks
    BY <1>8 DEF CopyEngine, CopyConfig, CopyHosts, CopyTools, Changed
  <2>2. task.ok \in BOOLEAN /\ saved \in -1 .. MaxEdits /\ opt \in Tree
    BY DEF TypeInv, TaskOK, Task, ScalarsOK, TreesOK
  <2>3. opt'.n = opt.n
    BY <2>1, <2>2, Changes
  <2>4. pc \in {"copy", "config", "hosts", "tools"} /\ ~MakeTree
    BY <1>8 DEF CopyEngine, CopyConfig, CopyHosts, CopyTools, MakeTree, Goto
  <2> QED
    BY <1>3, <2>1, <2>3, <2>4 DEF Distinct
<1>9. ASSUME NEW to \in {"on", "off"}, UserSwitch(to) PROVE Distinct'
  <2> DEFINE h == IF to = "on" THEN list ELSE opt.hosts
  <2>1. opt' \in Changed(opt, TRUE, h) /\ UNCHANGED baks
    BY <1>9 DEF UserSwitch, Changed
  <2>2. opt \in Tree /\ h \in -1 .. MaxEdits
    BY DEF TypeInv, TreesOK, ScalarsOK, Tree
  <2> HIDE DEF h
  <2>3. opt'.n = opt.n
    BY <2>1, <2>2, Changes
  <2>4. opt # Gone /\ ~MakeTree
    BY <1>9 DEF UserSwitch, Complete, Gone, MakeTree, Goto
  <2> QED
    BY <1>3, <2>1, <2>3, <2>4 DEF Distinct
<1> QED
  BY <1>4, <1>5, <1>6, <1>7, <1>8, <1>9, StillSteps


LEMMA DatedStep == TypeInv /\ Dated /\ [Next]_vars => Dated'
<1> SUFFICES ASSUME TypeInv, Dated, [Next]_vars PROVE Dated'
  OBVIOUS
<1>1. TreesOK
  BY DEF TypeInv
<1>2. Len(baks) \in 0 .. 2
  BY <1>1, TreeFacts
<1>3. ASSUME UNCHANGED baks, opt'.tools => ~opt'.dated, ~MakeTree, ~CopyConfig,
             opt'.dated => opt.dated \/ pc' \notin {"hosts", "list", "tools"},
             opt'.tools => opt.tools \/ pc' # "copy"
      PROVE  Dated'
  BY <1>1, <1>3, PcSteps DEF Dated
<1>4. CASE MakeTree
  <2>1. /\ opt' = [Gone EXCEPT !.n = installs + 1, !.ver = task.ver] /\ UNCHANGED baks
        /\ pc' = "copy"
    BY <1>4 DEF MakeTree, Goto
  <2>2. ~opt'.tools
    BY <2>1 DEF Gone
  <2> QED
    BY <2>1, <2>2 DEF Dated
<1>5. CASE CopyConfig
  <2>1. opt' = [opt EXCEPT !.dated = FALSE] /\ UNCHANGED baks /\ pc' = "hosts"
    BY <1>5 DEF CopyConfig, Goto
  <2>2. ~opt'.dated
    BY <1>1, <2>1 DEF TreesOK, Tree
  <2> QED
    BY <2>1, <2>2 DEF Dated
<1>6. CASE UNCHANGED <<opt, baks>>
  <2>1. opt'.tools => ~opt'.dated
    BY <1>6 DEF Dated
  <2> QED
    BY <1>3, <1>4, <1>5, <1>6, <2>1
<1>7. CASE CopyEngine
  <2>1. /\ opt' = [opt EXCEPT !.whole = task.ok, !.dated = TRUE] /\ UNCHANGED baks
        /\ pc = "copy" /\ pc' = "check"
    BY <1>7 DEF CopyEngine, Goto
  <2>2. opt'.tools = opt.tools
    BY <1>1, <2>1 DEF TreesOK, Tree
  <2> QED
    BY <2>1, <2>2 DEF Dated
<1>8. CASE CopyHosts \/ CopyTools
  <2>1. /\ opt' = [opt EXCEPT !.hosts = saved] \/ opt' = [opt EXCEPT !.tools = TRUE]
        /\ UNCHANGED baks /\ pc \in {"hosts", "tools"} /\ pc' \in {"list", "desired"}
    BY <1>8 DEF CopyHosts, CopyTools, Goto
  <2>2. opt'.dated = opt.dated
    BY <1>1, <2>1 DEF TreesOK, Tree
  <2> QED
    BY <2>1, <2>2 DEF Dated
<1>9. ASSUME NEW to \in {"on", "off"}, UserSwitch(to) PROVE Dated'
  <2> DEFINE h == IF to = "on" THEN list ELSE opt.hosts
  <2>1. opt' = [opt EXCEPT !.hosts = h] /\ UNCHANGED <<baks, pc>> /\ pc = "idle"
    BY <1>9 DEF UserSwitch
  <2> HIDE DEF h
  <2>2. opt'.dated = opt.dated /\ opt'.tools = opt.tools
    BY <1>1, <2>1 DEF TreesOK, Tree
  <2> QED
    BY <2>1, <2>2 DEF Dated
<1>10. CASE MoveAway
  <2>1. pc' = "mkdir" /\ opt' = Gone
    BY <1>10 DEF MoveAway
  <2>2. ~opt'.tools
    BY <2>1 DEF Gone
  <2>3. CASE opt = Gone
    <3>1. UNCHANGED baks
      BY <1>10, <2>3 DEF MoveAway
    <3> QED
      BY <2>1, <2>2, <3>1 DEF Dated
  <2>4. CASE opt # Gone
    <3>1. PICK k \in 1 .. Len(baks) + 1 :
            /\ baks' \in Seq(Tree) /\ Len(baks') = IF Len(baks) > 1 THEN 2 ELSE Len(baks) + 1
            /\ \A i \in 1 .. Len(baks') :
                 baks'[i] = IF i < k THEN baks[i] ELSE IF i = k THEN opt ELSE baks[i - 1]
      BY <1>1, <1>10, <2>4, MoveAwayKeeps
    <3>2. ASSUME NEW i \in 1 .. Len(baks') PROVE baks'[i].tools => ~baks'[i].dated
      <4>1. CASE i = k
        BY <3>1, <4>1 DEF Dated
      <4>2. CASE i # k
        <5> DEFINE j == IF i < k THEN i ELSE i - 1
        <5>1. j \in 1 .. Len(baks) /\ baks'[i] = baks[j]
          BY <1>2, <3>1, <4>2
        <5> HIDE DEF j
        <5> QED
          BY <5>1 DEF Dated
      <4> QED
        BY <4>1, <4>2
    <3> QED
      BY <2>1, <2>2, <3>2 DEF Dated
  <2> QED
    BY <2>3, <2>4
<1>11. CASE CheckEngine /\ ~UNCHANGED <<opt, baks>>
  <2>1. PICK k \in 1 .. Len(baks) :
           /\ opt' = baks[k]
           /\ baks' \in Seq(Tree) /\ Len(baks') = Len(baks) - 1
           /\ \A i \in 1 .. Len(baks') : baks'[i] = IF i < k THEN baks[i] ELSE baks[i + 1]
    BY <1>1, <1>11, RestoreKeeps DEF tree
  <2>2. pc' \in {"record", "idle"}
    BY <1>11 DEF CheckEngine, Fails, tree
  <2>3. opt'.tools => ~opt'.dated
    BY <2>1 DEF Dated
  <2>4. ASSUME NEW i \in 1 .. Len(baks') PROVE baks'[i].tools => ~baks'[i].dated
    <3> DEFINE j == IF i < k THEN i ELSE i + 1
    <3>1. j \in 1 .. Len(baks) /\ baks'[i] = baks[j]
      BY <1>2, <2>1
    <3> HIDE DEF j
    <3> QED
      BY <3>1 DEF Dated
  <2> QED
    BY <2>2, <2>3, <2>4 DEF Dated
<1> QED
  BY <1>4, <1>5, <1>6, <1>7, <1>8, <1>9, <1>10, <1>11, StillSteps

LEMMA MadeStep == TypeInv /\ Made /\ [Next]_vars => Made'
<1> SUFFICES ASSUME TypeInv, Made, [Next]_vars PROVE Made'
  OBVIOUS
<1>1. opt \in Tree /\ task \in Task
  BY DEF TypeInv, TreesOK, TaskOK
<1>2. CASE MakeTree
  <2>1. opt'.ver = task.ver
    BY <1>2 DEF MakeTree, Gone
  <2> QED
    BY <1>2, <2>1 DEF MakeTree, Goto, Made, Running
<1>3. CASE CopyEngine
  <2>1. opt' = [opt EXCEPT !.whole = task.ok, !.dated = TRUE]
    BY <1>3 DEF CopyEngine
  <2>2. opt'.ver = opt.ver
    BY <1>1, <2>1 DEF Tree
  <2> QED
    BY <1>3, <2>2 DEF CopyEngine, Goto, Made, Running
<1>4. CASE CheckEngine
  <2>1. CASE opt.whole
    BY <1>4, <2>1 DEF CheckEngine, Made, Running, tree
  <2>2. CASE ~opt.whole
    BY <1>4, <2>2 DEF CheckEngine, Fails, Made, Running
  <2> QED
    BY <2>1, <2>2
<1>5. CASE CopyConfig
  <2>1. opt' = [opt EXCEPT !.dated = FALSE]
    BY <1>5 DEF CopyConfig
  <2>2. opt'.ver = opt.ver /\ opt'.whole = opt.whole
    BY <1>1, <2>1 DEF Tree
  <2> QED
    BY <1>5, <2>2 DEF CopyConfig, Goto, Made, Running
<1>6. CASE CopyHosts
  <2>1. opt' = [opt EXCEPT !.hosts = saved]
    BY <1>6 DEF CopyHosts
  <2>2. opt'.ver = opt.ver /\ opt'.whole = opt.whole
    BY <1>1, <2>1 DEF Tree
  <2> QED
    BY <1>6, <2>2 DEF CopyHosts, Goto, Made, Running
<1>7. CASE CopyTools
  <2>1. opt' = [opt EXCEPT !.tools = TRUE]
    BY <1>7 DEF CopyTools
  <2>2. opt'.ver = opt.ver /\ opt'.whole = opt.whole /\ opt'.tools
    BY <1>1, <2>1 DEF Tree
  <2> QED
    BY <1>7, <2>2 DEF CopyTools, Goto, Made, Running
<1>8. CASE WriteList \/ DesiredOn \/ Sudoers \/ StartFw \/ LoadJob
  BY <1>8 DEF WriteList, DesiredOn, Sudoers, StartFw, LoadJob, Goto, Made, Running, tree, lists, switch
<1>9. ASSUME pc' \in {"idle", "fetch", "save", "bootout", "stop", "move", "mkdir", "record", "report"}
      PROVE  Made'
  BY <1>9 DEF Made, Running
<1>10. CASE SaveList \/ BootoutJobs \/ StopOld \/ MoveAway \/ Record \/ Report
  BY <1>9, <1>10 DEF SaveList, BootoutJobs, StopOld, MoveAway, Record, Report, Goto
<1>11. CASE WriteVersion \/ CheckUpdate \/ Fetch \/ RunInstaller \/ CutShort
  BY <1>9, <1>11 DEF WriteVersion, CheckUpdate, Fetch, RunInstaller, CutShort, Goto
<1>12. CASE CommandFails
  BY <1>9, <1>12 DEF CommandFails, Fails
<1>13. CASE Reboot \/ \E to \in {"on", "off"} : UserSwitch(to)
  BY <1>9, <1>13 DEF Reboot, UserSwitch
<1>14. CASE EditList \/ Publish \/ UNCHANGED vars
  BY <1>14 DEF EditList, Publish, vars, Made, Running, tree, switch
<1> QED
  BY <1>2, <1>3, <1>4, <1>5, <1>6, <1>7, <1>8, <1>10, <1>11, <1>12, <1>13, <1>14 DEF Next, Installer


\* An installer that is cut short has not been counted before, and is then.
LEMMA TornCounts == TypeInv => torn \in Nat /\ torn + 1 # 0
BY BoundAssumption DEF TypeInv, ScalarsOK

LEMMA WholeStep == TypeInv /\ Distinct /\ Dated /\ Made /\ Whole /\ [Next]_vars => Whole'
<1> SUFFICES ASSUME TypeInv, Distinct, Dated, Made, Whole, [Next]_vars, torn' = 0 PROVE Whole'
  BY DEF Whole
<1>1. TreesOK /\ opt \in Tree /\ task \in Task
  BY DEF TypeInv, TreesOK, TaskOK
<1>2. Len(baks) \in 0 .. 2
  BY <1>1, TreeFacts
<1>3. ASSUME torn = 0, opt'.ver = opt.ver, opt'.whole = opt.whole, opt'.tools = opt.tools,
             UNCHANGED <<version, denied>>,
             pc \in {"idle", "fetch", "save", "bootout", "stop", "record", "report"},
             pc' \in {"idle", "fetch", "save", "bootout", "stop", "move", "report"}
      PROVE  Whole'
  BY <1>3 DEF Whole, Good, Complete
<1>4. ASSUME pc' \in Running PROVE Whole'
  BY <1>4 DEF Whole, Running
<1>5. CASE CheckUpdate \/ Fetch \/ RunInstaller
  BY <1>3, <1>5 DEF CheckUpdate, Fetch, RunInstaller, tree, history
<1>6. CASE SaveList \/ BootoutJobs \/ StopOld
  BY <1>3, <1>6 DEF SaveList, BootoutJobs, StopOld, Goto, tree, history
<1>7. CASE MoveAway
  <2>1. /\ torn = 0 /\ Good(opt) /\ opt' = Gone /\ pc' = "mkdir" /\ task'.bak = opt.n
        /\ UNCHANGED <<version, denied>>
    BY <1>1, <1>7 DEF MoveAway, Whole, Task, history
  <2>2. ~opt.dated /\ opt # Gone
    BY <2>1 DEF Dated, Good, Complete, Gone
  <2>3. /\ Len(baks') = IF Len(baks) > 1 THEN 2 ELSE Len(baks) + 1
        /\ 1 \in 1 .. Len(baks') => baks'[1] = opt
    <3>1. PICK k \in 1 .. Len(baks) + 1 :
            /\ k = 1 \/ opt.dated
            /\ Len(baks') = IF Len(baks) > 1 THEN 2 ELSE Len(baks) + 1
            /\ \A i \in 1 .. Len(baks') :
                 baks'[i] = IF i < k THEN baks[i] ELSE IF i = k THEN opt ELSE baks[i - 1]
      BY <1>1, <1>7, <2>2, MoveAwayKeeps
    <3> QED
      BY <2>2, <3>1
  <2>4. Len(baks') \in {1, 2}
    <3>1. Len(baks) \in {0, 1, 2}
      BY <1>2
    <3> QED
      BY <2>3, <3>1
  <2>5. 1 \in 1 .. Len(baks') /\ baks'[1] = opt
    BY <2>3, <2>4
  <2>6. baks'[1].n = task'.bak /\ Good(baks[1])'
    BY <2>1, <2>5 DEF Good, Complete
  <2> QED
    BY <2>1, <2>5, <2>6 DEF Whole
<1>8. CASE MakeTree \/ CopyEngine
  <2>1. /\ UNCHANGED <<version, baks, denied, torn, task>>
        /\ pc \in {"mkdir", "copy"} /\ pc' \in {"copy", "check"}
    BY <1>8 DEF MakeTree, CopyEngine, Goto, history
  <2> QED
    BY <2>1 DEF Whole, Good, Complete
<1>9. CASE CheckEngine
  <2>1. CASE opt.whole
    BY <1>4, <1>9, <2>1 DEF CheckEngine, Running
  <2>2. CASE ~opt.whole
    <3>1. torn = 0 /\ pc = "check" /\ UNCHANGED <<version, denied>> /\ Fails
      BY <1>9, <2>2 DEF CheckEngine, history
    <3>2. PICK i \in 1 .. Len(baks) : baks[i].n = task.bak /\ Good(baks[i])
      BY <3>1 DEF Whole
    <3>3. i \in DOMAIN baks
      BY <1>1, <3>2 DEF TreesOK
    <3>4. PICK k \in DOMAIN baks : baks[k].n = task.bak /\ opt' = baks[k]
      BY <1>9, <2>2, <3>2, <3>3 DEF CheckEngine
    <3>5. k \in 1 .. Len(baks)
      BY <1>1, <3>4 DEF TreesOK
    <3>6. k = i
      BY <3>2, <3>4, <3>5 DEF Distinct
    <3>7. Good(opt)'
      BY <3>1, <3>2, <3>4, <3>6 DEF Good, Complete
    <3>8. pc' \in {"record", "idle"} /\ task'.failed
      BY <1>1, <3>1 DEF Fails, Task
    <3> QED
      BY <3>7, <3>8 DEF Whole
  <2> QED
    BY <2>1, <2>2
<1>10. CASE CopyConfig \/ CopyHosts \/ WriteList \/ CopyTools
  BY <1>4, <1>10 DEF CopyConfig, CopyHosts, WriteList, CopyTools, Goto, Running
<1>11. CASE DesiredOn \/ Sudoers \/ StartFw \/ LoadJob
  BY <1>4, <1>11 DEF DesiredOn, Sudoers, StartFw, LoadJob, Goto, Running
<1>12. CASE WriteVersion
  <2>1. /\ pc = "version" /\ pc' \in {"record", "idle"} /\ version' = task.ver
        /\ UNCHANGED <<opt, task>>
    BY <1>12 DEF WriteVersion, Goto, tree
  <2>2. Complete(opt) /\ opt.ver = task.ver
    BY <2>1 DEF Made, Running, Complete
  <2> QED
    BY <2>1, <2>2 DEF Whole, Good, Complete
<1>13. CASE Record
  <2>1. /\ torn = 0 /\ pc = "record" /\ pc' = "report" /\ version' = task.ver
        /\ denied' = task.failed /\ UNCHANGED opt
    BY <1>13 DEF Record, Goto, tree
  <2>2. Complete(opt) /\ (opt.ver = task.ver \/ task.failed)
    BY <2>1 DEF Whole, Good
  <2> QED
    BY <2>1, <2>2 DEF Whole, Good, Complete
<1>14. CASE Report
  BY <1>3, <1>14 DEF Report, Goto, tree, history
<1>15. CASE CutShort
  <2>1. /\ pc' = "idle" /\ UNCHANGED <<version, opt, denied>>
        /\ torn' = IF pc \in {"save", "bootout", "record", "report"} THEN torn ELSE torn + 1
    BY <1>15 DEF CutShort, LeftBehind, tree
  <2>2. pc \in {"save", "bootout", "record", "report"} /\ torn = 0
    BY <2>1, TornCounts
  <2> QED
    BY <1>3, <2>1, <2>2
<1>16. CASE CommandFails
  <2>1. /\ Fails /\ UNCHANGED <<version, opt, denied>>
        /\ torn' = IF pc \in {"save", "bootout", "record", "report"} THEN torn ELSE torn + 1
    BY <1>16 DEF CommandFails, LeftBehind, tree
  <2>2. pc \in {"save", "bootout", "record", "report"} /\ torn = 0
    BY <2>1, TornCounts
  <2>3. pc' \in {"record", "idle"} /\ task'.failed
    BY <1>1, <2>1 DEF Fails, Task
  <2> QED
    BY <2>1, <2>2, <2>3 DEF Whole, Good, Complete
<1>17. CASE Reboot
  BY <1>3, <1>17 DEF Reboot, tree, history
<1>18. ASSUME NEW to \in {"on", "off"}, UserSwitch(to) PROVE Whole'
  <2> DEFINE h == IF to = "on" THEN list ELSE opt.hosts
  <2>1. opt' = [opt EXCEPT !.hosts = h] /\ UNCHANGED <<pc, version, torn, denied>> /\ pc = "idle"
    BY <1>18 DEF UserSwitch, history
  <2> HIDE DEF h
  <2>2. opt'.ver = opt.ver /\ opt'.whole = opt.whole /\ opt'.tools = opt.tools
    BY <1>1, <2>1 DEF Tree
  <2> QED
    BY <1>3, <2>1, <2>2
<1>19. CASE EditList \/ Publish \/ UNCHANGED vars
  <2>1. UNCHANGED <<version, opt, baks, pc, task, torn, denied>>
    BY <1>19 DEF EditList, Publish, vars, tree, history
  <2> QED
    BY <2>1 DEF Whole, Good, Complete
<1> QED
  BY <1>5, <1>6, <1>7, <1>8, <1>9, <1>10, <1>11, <1>12, <1>13, <1>14, <1>15, <1>16, <1>17, <1>18,
     <1>19 DEF Next, Installer

LEMMA DivertedStep == TypeInv /\ Made /\ Whole /\ Diverted /\ [Next]_vars => Diverted'
<1> SUFFICES ASSUME TypeInv, Made, Whole, Diverted, [Next]_vars, torn' = 0 PROVE Diverted'
  BY DEF Diverted
<1>1. ASSUME torn = 0, UNCHANGED switch,
             pc \in {"idle", "fetch", "save", "bootout", "record", "report"},
             pc' \in {"idle", "fetch", "save", "bootout", "record", "report"}
      PROVE  Diverted'
  BY <1>1 DEF Diverted, switch
<1>2. ASSUME torn = 0, UNCHANGED switch, pc \in {"move", "mkdir", "copy", "check"},
             pc' \in {"mkdir", "copy", "check", "record", "idle", "config"}
      PROVE  Diverted'
  BY <1>2 DEF Diverted, switch
<1>3. ASSUME fw' => job', pc' \in {"idle", "report"} PROVE Diverted'
  BY <1>3 DEF Diverted
<1>4. ASSUME pc' \in {"stop"} \cup Running PROVE Diverted'
  BY <1>4 DEF Diverted, Running
<1>5. CASE CheckUpdate \/ Fetch \/ RunInstaller
  BY <1>1, <1>5 DEF CheckUpdate, Fetch, RunInstaller, history
<1>6. CASE SaveList
  BY <1>1, <1>6 DEF SaveList, Goto, history
<1>7. CASE BootoutJobs
  BY <1>4, <1>7 DEF BootoutJobs, Goto
<1>8. CASE StopOld
  <2>1. torn = 0 /\ pc = "stop" /\ pc' = "move" /\ fw' = (fw /\ ~opt.whole)
    BY <1>8 DEF StopOld, Goto, history
  <2>2. opt.whole
    BY <2>1 DEF Whole, Good, Complete
  <2> QED
    BY <2>1, <2>2 DEF Diverted
<1>9. CASE MoveAway
  BY <1>2, <1>9 DEF MoveAway, history
<1>10. CASE MakeTree \/ CopyEngine
  BY <1>2, <1>10 DEF MakeTree, CopyEngine, Goto, history
<1>11. CASE CheckEngine
  <2>1. pc = "check" /\ pc' \in {"config", "record", "idle"} /\ torn = 0 /\ UNCHANGED switch
    BY <1>11 DEF CheckEngine, Fails, history
  <2> QED
    BY <1>2, <2>1
<1>12. CASE CopyConfig \/ CopyHosts \/ WriteList \/ CopyTools
  BY <1>4, <1>12 DEF CopyConfig, CopyHosts, WriteList, CopyTools, Goto, Running
<1>13. CASE DesiredOn \/ Sudoers \/ StartFw \/ LoadJob
  BY <1>4, <1>13 DEF DesiredOn, Sudoers, StartFw, LoadJob, Goto, Running
<1>14. CASE WriteVersion
  <2>1. pc = "version" /\ pc' \in {"record", "idle"} /\ UNCHANGED switch
    BY <1>14 DEF WriteVersion, Goto
  <2>2. job
    BY <2>1 DEF Made
  <2> QED
    BY <2>1, <2>2 DEF Diverted, switch
<1>15. CASE Record
  BY <1>1, <1>15 DEF Record, Goto
<1>16. CASE Report
  <2>1. CASE UNCHANGED switch
    BY <1>1, <1>16, <2>1 DEF Report, Goto, history
  <2>2. CASE job' = TRUE
    BY <1>3, <1>16, <2>2 DEF Report, Goto
  <2> QED
    BY <1>16, <2>1, <2>2 DEF Report
<1>17. CASE CutShort
  <2>1. /\ pc' = "idle" /\ UNCHANGED switch
        /\ torn' = IF pc \in {"save", "bootout", "record", "report"} THEN torn ELSE torn + 1
    BY <1>17 DEF CutShort, LeftBehind
  <2>2. pc \in {"save", "bootout", "record", "report"} /\ torn = 0
    BY <2>1, TornCounts
  <2> QED
    BY <1>1, <2>1, <2>2
<1>18. CASE CommandFails
  <2>1. /\ pc' \in {"record", "idle"} /\ UNCHANGED switch
        /\ torn' = IF pc \in {"save", "bootout", "record", "report"} THEN torn ELSE torn + 1
    BY <1>18 DEF CommandFails, Fails, LeftBehind
  <2>2. pc \in {"save", "bootout", "record", "report"} /\ torn = 0
    BY <2>1, TornCounts
  <2> QED
    BY <1>1, <2>1, <2>2
<1>19. CASE Reboot
  BY <1>3, <1>19 DEF Reboot
<1>20. ASSUME NEW to \in {"on", "off"}, UserSwitch(to) PROVE Diverted'
  BY <1>3, <1>20 DEF UserSwitch
<1>21. CASE EditList \/ Publish \/ UNCHANGED vars
  <2>1. UNCHANGED <<pc, torn, fw, job>>
    BY <1>21 DEF EditList, Publish, vars, switch, history
  <2> QED
    BY <2>1 DEF Diverted
<1> QED
  BY <1>5, <1>6, <1>7, <1>8, <1>9, <1>10, <1>11, <1>12, <1>13, <1>14, <1>15, <1>16, <1>17, <1>18,
     <1>19, <1>20, <1>21 DEF Next, Installer

LEMMA InitInstalled == Init => Distinct /\ Dated /\ Made /\ Whole /\ Diverted
<1> SUFFICES ASSUME Init PROVE Distinct /\ Dated /\ Made /\ Whole /\ Diverted
  OBVIOUS
<1>1. PICK v \in Version :
        /\ version = v /\ latest = v
        /\ opt = [n |-> 1, ver |-> v, whole |-> TRUE, tools |-> TRUE, dated |-> FALSE,
                  hosts |-> Default]
  BY DEF Init
<1>2. Len(baks) = 0 /\ pc = "idle" /\ fw = TRUE /\ job = TRUE
  BY DEF Init
<1>3. opt.n = 1 /\ opt.ver = version /\ opt.whole /\ opt.tools /\ ~opt.dated
  BY <1>1
<1>4. Distinct /\ Dated
  BY <1>2, <1>3 DEF Distinct, Dated
<1>5. Made /\ Diverted
  BY <1>2 DEF Made, Running, Diverted
<1>6. Whole
  BY <1>2, <1>3 DEF Whole, Good, Complete
<1> QED
  BY <1>4, <1>5, <1>6

LEMMA InstalledInductive == Spec => []Installed
<1>1. Init => Installed
  BY InitTypes, InitInstalled DEF Installed
<1>2. Installed /\ [Next]_vars => Installed'
  BY ScalarsStep, TaskStep, TreesStep, DistinctStep, DatedStep, MadeStep, WholeStep, DivertedStep
     DEF Installed, TypeInv
<1> QED
  BY <1>1, <1>2, PTL DEF Spec

\* What an installer that is not cut short leaves can run and is what the version says, whether the package
\* was complete (system-install.sh, lines 146 to 407) or the old tree came back (lines 172 to 182).
THEOREM InstallerLeavesWhole == Spec => []LeavesWhole
<1>1. Installed => LeavesWhole
  BY DEF Installed, Whole, Good, LeavesWhole, AtRest
<1> QED
  BY <1>1, InstalledInductive, PTL

\* The job and the rules go together (system-install.sh, lines 105 to 119) and come back together (lines 340
\* to 369): the old tree, whose script flushes the rules, is whole unless an installer was cut short.
THEOREM InstallerCutsNobodyOff == Spec => []NotCutOff
<1>1. Installed => NotCutOff
  BY DEF Installed, Diverted, NotCutOff, AtRest
<1> QED
  BY <1>1, InstalledInductive, PTL
-----------------------------------------------------------------------------
(* The last complete engine.                                               *)

Newest == 1 \in 1 .. Len(baks) /\ Complete(baks[1])
Older == 2 \in 1 .. Len(baks) /\ Complete(baks[2])

\* Between installers the complete tree is in place or the newest backup.  An installer moves it to the front
\* of the backups, unless an earlier one was cut short: then the tree that is moved away may be newer than the
\* complete one, and comes back if this installer fails.
Kept ==
  torn < 2 =>
    /\ pc \in {"idle", "fetch", "save", "bootout", "stop", "move", "record", "report"} =>
         Complete(opt) \/ Newest
    /\ pc \in {"mkdir", "copy", "check"} =>
         Newest \/ (torn = 1 /\ Older /\ baks[1].n = task.bak)
    /\ pc \in {"config", "hosts", "list", "tools"} =>
         Newest \/ (torn = 1 /\ Older)

\* Where the trees are left alone.
LEMMA KeptStays ==
  ASSUME Kept, UNCHANGED <<baks, torn>>, Complete(opt) => Complete(opt'),
         task'.bak = task.bak \/ pc' \notin {"mkdir", "copy", "check"},
         \/ /\ pc \in {"idle", "fetch", "save", "bootout", "stop", "move", "record", "report"}
            /\ pc' \in {"idle", "fetch", "save", "bootout", "stop", "move", "record", "report"}
         \/ pc \in {"mkdir", "copy", "check"} /\ pc' \in {"mkdir", "copy", "check"}
         \/ pc \in {"mkdir", "copy", "check"} /\ pc' \in {"config", "hosts", "list", "tools"}
         \/ pc \in {"config", "hosts", "list", "tools"} /\ pc' \in {"config", "hosts", "list", "tools"}
  PROVE  Kept'
BY DEF Kept, Newest, Older, Complete

\* A complete tree in place is all that is asked for between installers.
LEMMA KeptInPlace ==
  ASSUME Complete(opt'), pc' \notin {"mkdir", "copy", "check", "config", "hosts", "list", "tools"}
  PROVE  Kept'
BY DEF Kept, Complete

\* An installer that is cut short is counted, but for the commands that leave the trees in place.
LEMMA KeptLeft ==
  ASSUME TypeInv, Made, Kept, UNCHANGED <<opt, baks>>, pc' \in {"idle", "record"}, pc \notin {"idle", "fetch"},
         torn' = IF pc \in {"save", "bootout", "record", "report"} THEN torn ELSE torn + 1
  PROVE  Kept'
<1> SUFFICES ASSUME torn' < 2 PROVE Complete(opt) \/ Newest
  BY DEF Kept, Newest, Complete
<1>1. torn \in Nat
  BY BoundAssumption DEF TypeInv, ScalarsOK
<1>2. CASE pc \in {"save", "bootout", "record", "report"}
  BY <1>2 DEF Kept
<1>3. CASE pc \notin {"save", "bootout", "record", "report"}
  <2>1. torn = 0
    BY <1>1, <1>3
  <2>2. CASE pc \in {"stop", "move", "mkdir", "copy", "check", "config", "hosts", "list", "tools"}
    BY <2>1, <2>2 DEF Kept
  <2>3. CASE pc \in {"desired", "sudoers", "fw", "job", "version"}
    BY <2>3 DEF Made, Running, Complete
  <2> QED
    BY <1>3, <2>2, <2>3 DEF TypeInv, ScalarsOK, Pc
<1> QED
  BY <1>2, <1>3

\* The tree that is moved away goes to the front, unless it has the date of its package: then it has no scripts.
LEMMA KeptMoved ==
  ASSUME TypeInv, Distinct, Dated, Whole, Kept, MoveAway
  PROVE  Kept'
<1> SUFFICES ASSUME torn < 2
             PROVE  (Newest \/ (torn = 1 /\ Older /\ baks[1].n = task.bak))'
  BY DEF MoveAway, Kept, history
<1>1. pc = "move" /\ torn \in 0 .. 1 /\ task'.bak = opt.n /\ UNCHANGED torn
  <2>1. torn \in Nat
    BY BoundAssumption DEF TypeInv, ScalarsOK
  <2> QED
    BY <2>1 DEF MoveAway, history, TypeInv, TaskOK, Task
<1>2. Complete(opt) \/ Newest
  BY <1>1 DEF Kept
<1>3. torn = 0 => Complete(opt)
  BY <1>1 DEF Whole, Good
<1>4. CASE opt = Gone
  <2>1. ~Complete(opt)
    BY <1>4 DEF Complete, Gone
  <2>2. UNCHANGED baks
    BY <1>4 DEF MoveAway
  <2> QED
    BY <1>2, <2>1, <2>2 DEF Newest, Complete
<1>5. CASE opt # Gone
  <2>1. Len(baks) \in 0 .. 2
    BY TreeFacts DEF TypeInv
  <2>2. PICK k \in 1 .. Len(baks) + 1 :
          /\ k = 1 \/ opt.dated
          /\ Len(baks') = IF Len(baks) > 1 THEN 2 ELSE Len(baks) + 1
          /\ \A i \in 1 .. Len(baks') :
               baks'[i] = IF i < k THEN baks[i] ELSE IF i = k THEN opt ELSE baks[i - 1]
    BY <1>5, MoveAwayKeeps DEF TypeInv
  <2>3. 1 \in 1 .. Len(baks')
    BY <2>1, <2>2
  <2>4. CASE Complete(opt)
    <3>1. k = 1
      BY <2>2, <2>4 DEF Dated, Complete
    <3>2. baks'[1] = opt
      BY <2>2, <2>3, <3>1
    <3> QED
      BY <2>3, <2>4, <3>2 DEF Newest, Complete
  <2>5. CASE ~Complete(opt)
    <3>1. Newest /\ torn = 1
      BY <1>1, <1>2, <1>3, <2>5
    <3>2. CASE k = 1
      <4>1. 2 \in 1 .. Len(baks')
        BY <2>1, <2>2, <3>1 DEF Newest
      <4>2. baks'[1] = opt /\ baks'[2] = baks[1]
        BY <2>2, <2>3, <3>2, <4>1
      <4>3. Older' /\ baks'[1].n = task'.bak
        BY <1>1, <3>1, <4>1, <4>2 DEF Newest, Older, Complete
      <4> QED
        BY <1>1, <3>1, <4>3
    <3>3. CASE k # 1
      <4>1. baks'[1] = baks[1]
        BY <2>2, <2>3, <3>3
      <4> QED
        BY <2>3, <3>1, <4>1 DEF Newest, Complete
    <3> QED
      BY <3>2, <3>3
  <2> QED
    BY <2>4, <2>5
<1> QED
  BY <1>4, <1>5

\* What comes back is what was moved away.
LEMMA KeptRestored ==
  ASSUME TypeInv, Distinct, Kept, CheckEngine, ~opt.whole
  PROVE  Kept'
<1> SUFFICES ASSUME torn < 2
             PROVE  (Complete(opt) \/ Newest)'
  BY DEF CheckEngine, Fails, Kept, history
<1>1. pc = "check"
  BY DEF CheckEngine
<1>2. CASE UNCHANGED tree
  <2>1. ~ \E k \in DOMAIN baks : baks[k].n = task.bak
    <3>1. SUFFICES ASSUME NEW k \in DOMAIN baks, baks[k].n = task.bak PROVE FALSE
      OBVIOUS
    <3>2. PICK j \in DOMAIN baks : opt' = baks[j]
      BY <3>1 DEF CheckEngine
    <3>3. j \in 1 .. Len(baks)
      BY <3>2 DEF TypeInv, TreesOK
    <3> QED
      BY <1>2, <3>2, <3>3 DEF Distinct, tree
  <2>2. DOMAIN baks = 1 .. Len(baks)
    BY DEF TypeInv, TreesOK
  <2>3. Newest
    <3>1. Len(baks) \in Nat
      BY TreeFacts DEF TypeInv
    <3> QED
      BY <1>1, <2>1, <2>2, <3>1 DEF Kept, Older
  <2> QED
    BY <1>2, <2>3 DEF Newest, Complete, tree
<1>3. CASE ~UNCHANGED tree
  <2>1. PICK k \in 1 .. Len(baks) :
          /\ baks[k].n = task.bak /\ opt' = baks[k]
          /\ Len(baks') = Len(baks) - 1
          /\ \A i \in 1 .. Len(baks') : baks'[i] = IF i < k THEN baks[i] ELSE baks[i + 1]
    BY <1>3, RestoreKeeps DEF TypeInv
  <2>2. Len(baks) \in 0 .. 2
    BY TreeFacts DEF TypeInv
  <2>3. CASE Newest
    <3>1. CASE k = 1
      BY <2>1, <2>3, <3>1 DEF Newest, Complete
    <3>2. CASE k # 1
      <4>1. 1 \in 1 .. Len(baks')
        BY <2>1, <2>2, <3>2
      <4>2. baks'[1] = baks[1]
        BY <2>1, <3>2, <4>1
      <4> QED
        BY <2>3, <4>1, <4>2 DEF Newest, Complete
    <3> QED
      BY <3>1, <3>2
  <2>4. CASE Older /\ baks[1].n = task.bak
    <3>1. 1 \in 1 .. Len(baks) /\ 2 \in 1 .. Len(baks)
      BY <2>2, <2>4 DEF Older
    <3>2. k = 1
      BY <2>1, <2>4, <3>1 DEF Distinct
    <3>3. 1 \in 1 .. Len(baks') /\ baks'[1] = baks[1 + 1]
      BY <2>1, <2>2, <3>1, <3>2
    <3> QED
      BY <2>4, <3>3 DEF Newest, Older, Complete
  <2> QED
    BY <1>1, <2>3, <2>4 DEF Kept
<1> QED
  BY <1>2, <1>3

LEMMA KeptStep == Installed /\ Kept /\ [Next]_vars => Kept'
<1> SUFFICES ASSUME Installed, Kept, [Next]_vars PROVE Kept'
  OBVIOUS
<1> USE DEF Installed
<1>1. opt \in Tree /\ task \in Task
  BY DEF TypeInv, TreesOK, TaskOK
<1>2. CASE CheckUpdate \/ Fetch \/ RunInstaller
  BY <1>2, KeptStays DEF CheckUpdate, Fetch, RunInstaller, tree, history
<1>3. CASE SaveList \/ BootoutJobs \/ StopOld
  BY <1>3, KeptStays DEF SaveList, BootoutJobs, StopOld, Goto, tree, history
<1>4. CASE MoveAway
  BY <1>4, KeptMoved
<1>5. CASE MakeTree \/ CopyEngine
  <2>1. /\ UNCHANGED <<baks, torn, task>> /\ pc \in {"mkdir", "copy"} /\ pc' \in {"copy", "check"}
    BY <1>5 DEF MakeTree, CopyEngine, Goto, history
  <2> QED
    BY <2>1 DEF Kept, Newest, Older, Complete
<1>6. CASE CheckEngine
  <2>1. CASE opt.whole
    BY <1>6, <2>1, KeptStays DEF CheckEngine, tree, history
  <2> QED
    BY <1>6, <2>1, KeptRestored
<1>7. CASE CopyConfig \/ CopyHosts \/ WriteList
  <2>1. /\ UNCHANGED <<baks, torn, task>>
        /\ pc \in {"config", "hosts", "list"} /\ pc' \in {"hosts", "list", "tools"}
    BY <1>7 DEF CopyConfig, CopyHosts, WriteList, Goto, history, tree
  <2> QED
    BY <2>1 DEF Kept, Newest, Older, Complete
<1>8. CASE CopyTools
  <2>1. opt' = [opt EXCEPT !.tools = TRUE] /\ pc = "tools" /\ pc' = "desired"
    BY <1>8 DEF CopyTools, Goto
  <2>2. opt'.whole = opt.whole /\ opt'.tools
    BY <1>1, <2>1 DEF Tree
  <2>3. opt.whole
    BY <2>1 DEF Made, Running
  <2> QED
    BY <2>1, <2>2, <2>3, KeptInPlace DEF Complete
<1>9. CASE DesiredOn \/ Sudoers \/ StartFw \/ LoadJob \/ WriteVersion
  <2>1. /\ UNCHANGED opt /\ pc \in {"desired", "sudoers", "fw", "job", "version"}
        /\ pc' \in {"sudoers", "fw", "job", "version", "record", "idle"}
    BY <1>9 DEF DesiredOn, Sudoers, StartFw, LoadJob, WriteVersion, Goto, tree
  <2>2. Complete(opt)
    BY <2>1 DEF Made, Running, Complete
  <2> QED
    BY <2>1, <2>2, KeptInPlace DEF Complete
<1>10. CASE Record \/ Report
  BY <1>10, KeptStays DEF Record, Report, Goto, tree, history
<1>11. CASE CutShort
  BY <1>11, KeptLeft DEF CutShort, LeftBehind, tree
<1>12. CASE CommandFails
  <2>1. pc \notin {"idle", "fetch"} /\ pc' \in {"idle", "record"}
    BY <1>12 DEF CommandFails, Fails
  <2> QED
    BY <1>12, <2>1, KeptLeft DEF CommandFails, LeftBehind, tree
<1>13. CASE Reboot
  BY <1>13, KeptStays DEF Reboot, tree, history
<1>14. ASSUME NEW to \in {"on", "off"}, UserSwitch(to) PROVE Kept'
  <2> DEFINE h == IF to = "on" THEN list ELSE opt.hosts
  <2>1. opt' = [opt EXCEPT !.hosts = h] /\ pc' = "idle" /\ Complete(opt)
    BY <1>14 DEF UserSwitch
  <2> HIDE DEF h
  <2>2. Complete(opt')
    BY <1>1, <2>1 DEF Tree, Complete
  <2> QED
    BY <2>1, <2>2, KeptInPlace
<1>15. CASE EditList \/ Publish \/ UNCHANGED vars
  <2>1. UNCHANGED <<opt, baks, pc, task, torn>>
    BY <1>15 DEF EditList, Publish, vars, tree, history
  <2> QED
    BY <2>1 DEF Kept, Newest, Older, Complete
<1> QED
  BY <1>2, <1>3, <1>4, <1>5, <1>6, <1>7, <1>8, <1>9, <1>10, <1>11, <1>12, <1>13, <1>14, <1>15
     DEF Next, Installer

LEMMA KeptInductive == Spec => []Kept
<1>1. Init => Kept
  <2> SUFFICES ASSUME Init PROVE Kept
    OBVIOUS
  <2>1. Complete(opt) /\ pc = "idle"
    BY DEF Init, Complete
  <2> QED
    BY <2>1 DEF Kept
<1>2. Installed /\ Kept /\ [Next]_vars => Kept'
  BY KeptStep
<1> QED
  BY <1>1, <1>2, InstalledInductive, PTL DEF Spec

\* One installer cut short, wherever that was, never costs the last complete engine: the pruning of the
\* backups (system-install.sh, lines 134 to 137) goes by their dates, and a tree that has the date of its
\* package (line 155) has no scripts yet.
THEOREM EngineSurvives == Spec => []WholeKept
<1>1. Installed /\ Kept => WholeKept
  <2> SUFFICES ASSUME Installed, Kept, torn < 2
               PROVE  \E t \in {opt} \cup ToSet(baks) : Complete(t)
    BY DEF WholeKept
  <2>1. pc \in Pc /\ baks \in Seq(Tree)
    BY DEF Installed, TypeInv, ScalarsOK, TreesOK
  <2>2. \A i \in 1 .. Len(baks) : baks[i] \in ToSet(baks)
    BY <2>1 DEF ToSet
  <2>3. CASE Complete(opt)
    BY <2>3
  <2>4. CASE Newest
    BY <2>2, <2>4 DEF Newest
  <2>5. CASE Older
    BY <2>2, <2>5 DEF Older
  <2>6. CASE pc \in {"desired", "sudoers", "fw", "job", "version"}
    BY <2>3, <2>6 DEF Installed, Made, Running, Complete
  <2> QED
    BY <2>1, <2>3, <2>4, <2>5, <2>6 DEF Kept, Pc
<1> QED
  BY <1>1, InstalledInductive, KeptInductive, PTL

=============================================================================
