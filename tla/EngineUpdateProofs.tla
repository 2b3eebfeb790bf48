------------------------- MODULE EngineUpdateProofs -------------------------
(***************************************************************************)
(* Proofs about EngineUpdate for any number of versions and backups.       *)
(***************************************************************************)
EXTENDS EngineUpdate, TLAPS

Kept == \E i \in 1..Len(bak) : Whole(bak[i])

\* A backup in the making is the last and not whole, and when it is finished there is a whole
\* one; what the scripts do to the tree comes after a mark, when there was one too.
Backed ==
  /\ pc = "copy" => dir = Len(bak) /\ ~Whole(bak[dir])
  /\ pc = "mark" => blind \/ Kept
  /\ pc \notin {"idle", "copy", "mark"} => blind \/ latest # 0
  /\ latest # 0 => blind \/ Kept

IInv == TypeOK /\ NothingLost /\ Backed

-----------------------------------------------------------------------------
\* A cut copy is a tree, and not a whole one.
LEMMA CutCopyNotWhole ==
  ASSUME NEW t \in CutCopy
  PROVE  t \in Tree /\ ~Whole(t)
<1>1. NoSource \in Source
  BY DEF NoSource, Source, File
<1>2. None \in File
  BY DEF File
<1>3. t \in Tree
  BY <1>1, <1>2 DEF CutCopy, Tree
<1>4. ~Whole(t)
  BY DEF CutCopy, Whole, Startable
<1> QED
  BY <1>3, <1>4

\* Beginning a backup adds a directory and loses none.
LEMMA AppendKeeps ==
  ASSUME bak \in Seq(Tree), NEW t \in Tree
  PROVE  /\ Append(bak, t) \in Seq(Tree)
         /\ Len(Append(bak, t)) = Len(bak) + 1
         /\ Append(bak, t)[Len(bak) + 1] = t
         /\ \A i \in 1..Len(bak) : Append(bak, t)[i] = bak[i]
OBVIOUS

\* Filling a backup changes that directory and no other.
LEMMA FillKeeps ==
  ASSUME bak \in Seq(Tree), NEW d \in 1..Len(bak), NEW t \in Tree
  PROVE  LET b == [bak EXCEPT ![d] = t]
         IN  /\ b \in Seq(Tree)
             /\ Len(b) = Len(bak)
             /\ b[d] = t
             /\ \A i \in 1..Len(bak) : i # d => b[i] = bak[i]
OBVIOUS

\* Every variable keeps its type in every step.
LEMMA TypeStep == TypeOK /\ [Next]_vars => TypeOK'
<1> SUFFICES ASSUME TypeOK, [Next]_vars PROVE TypeOK'
  OBVIOUS
<1> USE BoundAssumption
        DEF TypeOK, trees, script, switch, system, vars, Goto, End, Updating, Killed, Outdates
<1>1. CASE Update
  <2>1. PICK t \in CutCopy : bak' = Append(bak, t)
    BY <1>1 DEF Update
  <2>2. bak' \in Seq(Tree) /\ Len(bak') = Len(bak) + 1
    BY <2>1, CutCopyNotWhole, AppendKeeps
  <2>3. opt' \in Tree /\ opt'.src.code \in Version
    <3>1. CASE UNCHANGED opt
      BY <1>1, <3>1 DEF Update, Clone, Tree, Source, File
    <3>2. CASE opt.src.code = None
      <4>1. PICK v \in Version : opt' = [opt EXCEPT !.src = [NoSource EXCEPT !.code = v]]
        BY <1>1, <3>2 DEF Update, Clone
      <4>2. [NoSource EXCEPT !.code = v] \in Source /\ [NoSource EXCEPT !.code = v].code = v
        BY DEF NoSource, Source, File
      <4> QED
        BY <4>1, <4>2 DEF Tree
    <3> QED
      BY <1>1, <3>1, <3>2 DEF Update, Clone
  <2> QED
    BY <1>1, <2>2, <2>3 DEF Update, Step
<1>2. CASE Copy
  <2>1. dir \in 1..Len(bak)
    BY <1>2 DEF Copy
  <2>2. bak' \in Seq(Tree) /\ Len(bak') = Len(bak)
    BY <1>2, <2>1, FillKeeps DEF Copy
  <2> QED
    BY <1>2, <2>2 DEF Copy, Step
<1>3. CASE MarkLatest
  BY <1>3 DEF MarkLatest, Step
<1>4. CASE Pull
  <2>1. PICK v \in opt.src.code..MaxVersion : opt' = [opt EXCEPT !.src.code = v]
    BY <1>4 DEF Pull
  <2>2. v \in Version
    BY <1>4 DEF Pull, Version
  <2>3. opt' \in Tree /\ opt'.src.code = v
    BY <2>1, <2>2 DEF Tree, Source, File
  <2> QED
    BY <1>4, <2>2, <2>3 DEF Pull, Step
<1>5. CASE Make
  <2>1. opt' \in Tree /\ opt'.src.code = opt.src.code
    <3>1. opt.src \in Source
      BY DEF Tree
    <3>2. CASE opt' = [opt EXCEPT !.src.built = TRUE, !.src.bin = opt.src.code]
      BY <3>1, <3>2 DEF Tree, Source
    <3>3. CASE opt' = [opt EXCEPT !.src.built = TRUE, !.src.bin = None]
      BY <3>1, <3>3 DEF Tree, Source, File
    <3>4. CASE UNCHANGED opt
      BY <3>4
    <3> QED
      BY <1>5, <3>2, <3>3, <3>4 DEF Make
  <2> QED
    BY <1>5, <2>1 DEF Make, Step
<1>6. CASE StopForUpdate
  BY <1>6 DEF StopForUpdate, ZapretStop, Step
<1>7. CASE RemoveCode
  <2>1. opt' \in Tree /\ opt'.src = opt.src
    BY <1>7 DEF RemoveCode, Tree, File
  <2> QED
    BY <1>7, <2>1 DEF RemoveCode, Step
<1>8. CASE CopyCode
  <2>1. opt' \in Tree
    BY <1>8 DEF CopyCode, Tree, File
  <2> QED
    BY <1>8, <2>1 DEF CopyCode, Step
<1>9. CASE RemoveBin
  <2>1. opt' \in Tree
    BY <1>9 DEF RemoveBin, Tree, File
  <2> QED
    BY <1>9, <2>1 DEF RemoveBin, Step
<1>10. CASE CopyBin
  <2>1. opt' \in Tree
    BY <1>10 DEF CopyBin, Tree, Source
  <2> QED
    BY <1>10, <2>1 DEF CopyBin, Step
<1>11. CASE Restore
  <2>1. opt' \in Tree
    BY <1>11 DEF Restore, Tree
  <2> QED
    BY <1>11, <2>1 DEF Restore, Step
<1>12. CASE StartUpdated
  <2>1. pc' \in {"started", "undo-stop"} /\ UNCHANGED <<trees, dir, task, ended>>
    BY <1>12 DEF StartUpdated
  <2>2. CASE ZapretStart
    BY <1>12, <2>1, <2>2 DEF StartUpdated, ZapretStart, Step
  <2>3. CASE ZapretStartFails
    BY <1>12, <2>1, <2>3 DEF StartUpdated, ZapretStartFails, Step
  <2> QED
    BY <1>12, <2>2, <2>3 DEF StartUpdated
<1>13. CASE CheckStarted
  BY <1>13 DEF CheckStarted, Step
<1>14. CASE SelfTest
  BY <1>14 DEF SelfTest, Step
<1>15. CASE Rollback
  <2>1. dir' \in 1..Len(bak)
    BY <1>15 DEF Rollback
  <2> QED
    BY <1>15, <2>1 DEF Rollback, Step
<1>16. CASE StopForRollback
  BY <1>16 DEF StopForRollback, ZapretStop, Step
<1>17. CASE RemoveTree
  BY <1>17, CutCopyNotWhole DEF RemoveTree, Step
<1>18. CASE CopyTree
  <2>1. opt' \in Tree
    BY <1>18, CutCopyNotWhole DEF CopyTree
  <2> QED
    BY <1>18, <2>1 DEF CopyTree, Step
<1>19. CASE StartUndone
  BY <1>19 DEF StartUndone, InitStart, Step
<1>20. CASE StartRestored
  BY <1>20 DEF StartRestored, ZapretStart, ZapretStartFails, Step
<1>21. CASE UserStart
  <2>1. opt' \in Tree
    BY <1>21 DEF UserStart, StartScript, Tree
  <2> QED
    BY <1>21, <2>1 DEF UserStart, StartScript, Step, ZapretStart, ZapretStartFails
<1>22. CASE UserStop
  BY <1>22 DEF UserStop, ZapretStop, Step
<1>23. CASE Spawn
  BY <1>23 DEF Spawn
<1>24. CASE Die
  BY <1>24 DEF Die
<1>25. CASE Fail
  BY <1>25 DEF Fail, Step
<1>26. CASE Reboot
  BY <1>26 DEF Reboot, Step
<1>27. CASE Boot
  <2>1. boot' \subseteq {"zapret-boot", "zapret", "boot-on", "boot-off"}
    BY <1>27 DEF Boot, BootReads, BootLoads, BootUnloads, LegacyBoot
  <2>2. /\ tpws' \in {"down", "job", "daemon"}
        /\ {job, pf, stale, late}' \subseteq BOOLEAN /\ UNCHANGED desired
    BY <1>27 DEF Boot, BootReads, BootLoads, BootUnloads, LegacyBoot, InitStart, Reload
  <2>3. UNCHANGED <<trees, script, legacy, watch, blind>>
    BY <1>27 DEF Boot, BootReads, BootLoads, BootUnloads, LegacyBoot
  <2> QED
    BY <2>1, <2>2, <2>3
<1>28. CASE WatchReads \/ WatchMakesDir \/ WatchReloads
  <2>1. {squat, watch, stale, late, job, pf}' \subseteq BOOLEAN /\ tpws' \in {tpws, "down"}
    BY <1>28 DEF WatchReads, WatchMakesDir, WatchReloads, Reload
  <2>2. UNCHANGED <<opt, bak, latest, script, desired, legacy, boot, blind>>
    BY <1>28 DEF WatchReads, WatchMakesDir, WatchReloads, Reload
  <2> QED
    BY <2>1, <2>2
<1>29. CASE WatchStarts
  <2>1. opt' \in Tree /\ opt'.src = opt.src
    BY <1>29 DEF WatchStarts, StartScript, Tree
  <2> QED
    BY <1>29, <2>1 DEF WatchStarts, StartScript, ZapretStart, ZapretStartFails
<1>30. CASE UNCHANGED vars
  BY <1>30
<1> QED
  BY <1>1, <1>2, <1>3, <1>4, <1>5, <1>6, <1>7, <1>8, <1>9, <1>10, <1>11, <1>12, <1>13, <1>14,
     <1>15, <1>16, <1>17, <1>18, <1>19, <1>20, <1>21, <1>22, <1>23, <1>24, <1>25, <1>26,
     <1>27, <1>28, <1>29, <1>30 DEF Next, UpdateEngine, RollbackEngine, Watch

\* Steps of a script that neither replace the tree nor touch backups and the mark, and that
\* are followed by another step that comes after a mark, leave what IInv says alone.
LEMMA NothingMoves ==
  ASSUME IInv, TypeOK', UNCHANGED <<opt, bak, latest, blind>>,
         \/ pc' = "idle"
         \/ pc' \notin {"copy", "mark"} /\ (blind \/ latest # 0)
         \/ UNCHANGED <<pc, dir>>
  PROVE  IInv'
BY DEF IInv, NothingLost, Backed, Kept

\* So does replacing the tree, as a whole backup remains.
LEMMA TreeMoves ==
  ASSUME IInv, TypeOK', UNCHANGED <<bak, latest, blind>>,
         pc \notin {"idle", "copy", "mark"}, pc' \notin {"copy", "mark"}
  PROVE  IInv'
BY DEF IInv, NothingLost, Backed, Kept

\* Every step keeps a whole engine somewhere.
LEMMA InvStep == IInv /\ [Next]_vars => IInv'
<1> SUFFICES ASSUME IInv, [Next]_vars PROVE IInv'
  OBVIOUS
<1>0. TypeOK /\ TypeOK'
  BY TypeStep DEF IInv
<1> USE <1>0 DEF trees, script, switch, system, vars, Goto, End
<1>1. CASE Update
  <2>1. PICK t \in CutCopy : bak' = Append(bak, t)
    BY <1>1 DEF Update
  <2>2. /\ Len(bak') = Len(bak) + 1 /\ bak'[Len(bak) + 1] = t
        /\ \A i \in 1..Len(bak) : bak'[i] = bak[i]
    BY <2>1, CutCopyNotWhole, AppendKeeps DEF TypeOK
  <2>3. Kept => Kept'
    BY <2>2 DEF Kept, TypeOK
  <2>4. pc' = "copy" /\ dir' = Len(bak') /\ ~Whole(bak'[dir'])
    BY <1>1, <2>2, CutCopyNotWhole DEF Update, TypeOK
  <2>5. Whole(opt) => Whole(opt')
    BY <1>1 DEF Update, Clone, TypeOK, Tree, Whole, Startable
  <2>7. NothingLost'
    BY <1>1, <2>3, <2>5 DEF Update, IInv, NothingLost, Kept
  <2>6. Backed'
    BY <1>1, <2>3, <2>4 DEF Update, IInv, Backed
  <2> QED
    BY <2>6, <2>7 DEF IInv
<1>2. CASE Copy
  <2>1. dir \in 1..Len(bak) /\ ~Whole(bak[dir])
    BY <1>2 DEF Copy, IInv, Backed, TypeOK
  <2>2. /\ Len(bak') = Len(bak) /\ bak'[dir] = opt
        /\ \A i \in 1..Len(bak) : i # dir => bak'[i] = bak[i]
    BY <1>2, <2>1, FillKeeps DEF Copy, TypeOK
  <2>3. Kept => Kept'
    BY <2>1, <2>2 DEF Kept
  <2>6. Whole(opt) => Kept'
    BY <2>1, <2>2 DEF Kept
  <2>7. blind \/ Kept'
    BY <2>3, <2>6 DEF IInv, NothingLost, Kept
  <2>4. NothingLost'
    BY <1>2, <2>3 DEF Copy, IInv, NothingLost, Kept
  <2>5. Backed'
    BY <1>2, <2>2, <2>3, <2>7 DEF Copy, IInv, Backed
  <2> QED
    BY <2>4, <2>5 DEF IInv
<1>3. CASE MarkLatest
  <2>1. blind \/ Kept
    BY <1>3 DEF MarkLatest, IInv, Backed
  <2>2. dir # 0
    BY <1>3 DEF MarkLatest, TypeOK
  <2> QED
    BY <1>3, <2>1, <2>2 DEF MarkLatest, IInv, NothingLost, Backed, Kept
<1>4. CASE StopForUpdate \/ StartUpdated \/ CheckStarted \/ SelfTest
  BY <1>4, NothingMoves
    DEF StopForUpdate, StartUpdated, CheckStarted, SelfTest, IInv, Backed
<1>5. CASE Pull \/ Make \/ RemoveCode \/ CopyCode \/ RemoveBin \/ CopyBin \/ Restore
  BY <1>5, TreeMoves DEF Pull, Make, RemoveCode, CopyCode, RemoveBin, CopyBin, Restore
<1>6. CASE Rollback
  <2>1. NothingLost'
    BY <1>6 DEF Rollback, IInv, NothingLost
  <2>2. Backed'
    BY <1>6 DEF Rollback, IInv, Backed, Kept
  <2> QED
    BY <2>1, <2>2 DEF IInv
<1>7. CASE StopForRollback \/ StartUndone \/ StartRestored
  BY <1>7, NothingMoves DEF StopForRollback, StartUndone, StartRestored, IInv, Backed
<1>8. CASE RemoveTree \/ CopyTree
  BY <1>8, TreeMoves DEF RemoveTree, CopyTree
<1>9. CASE UserStart \/ WatchStarts
  <2>1. Whole(opt) => Whole(opt')
    BY <1>9 DEF UserStart, WatchStarts, StartScript, TypeOK, Tree, Whole, Startable
  <2>2. NothingLost'
    BY <1>9, <2>1 DEF UserStart, WatchStarts, IInv, NothingLost
  <2>3. Backed'
    BY <1>9 DEF UserStart, WatchStarts, IInv, Backed, Kept
  <2> QED
    BY <2>2, <2>3 DEF IInv
<1>10. CASE UserStop \/ Fail \/ Reboot
  BY <1>10, NothingMoves DEF UserStop, Fail, Reboot
<1>11. CASE Spawn \/ Die \/ UNCHANGED vars
  BY <1>11, NothingMoves DEF Spawn, Die
<1>12. CASE Boot
  BY <1>12, NothingMoves DEF Boot, BootReads, BootLoads, BootUnloads, LegacyBoot
<1>13. CASE WatchReads \/ WatchMakesDir \/ WatchReloads
  BY <1>13, NothingMoves DEF WatchReads, WatchMakesDir, WatchReloads
<1> QED
  BY <1>1, <1>2, <1>3, <1>4, <1>5, <1>6, <1>7, <1>8, <1>9, <1>10, <1>11, <1>12, <1>13
    DEF Next, UpdateEngine, RollbackEngine, Watch

LEMMA InvInit == Init => IInv
<1> SUFFICES ASSUME Init PROVE IInv
  OBVIOUS
<1>1. TypeOK
  <2>0. 0 \in Version
    BY BoundAssumption DEF Version
  <2>1. opt \in Tree
    BY <2>0 DEF Init, Tree, Source, NoSource, File
  <2>2. bak \in Seq(Tree) /\ Len(bak) = 0
    BY DEF Init
  <2>3. 0 \in 0..Len(bak) /\ Len(bak) <= MaxBackups
    BY <2>2, BoundAssumption
  <2>4. latest \in 0..Len(bak) /\ dir \in 0..Len(bak) /\ pc = "idle"
    BY <2>3 DEF Init
  <2>5. ~Updating
    BY <2>4 DEF Updating
  <2> QED
    BY <2>1, <2>2, <2>3, <2>4, <2>5 DEF Init, TypeOK, Step
<1>2. Whole(opt)
  BY NoneAssumption DEF Init, Whole, Startable
<1>3. Backed
  BY DEF Init, Backed
<1> QED
  BY <1>1, <1>2, <1>3 DEF IInv, NothingLost

-----------------------------------------------------------------------------
\* No job zapret of the last restart is left to start a daemon while the tree is replaced, and
\* what does not run is not stale.
OldInv ==
  /\ OldEngineEnds
  /\ Replacing => "zapret" \notin boot
  /\ tpws = "down" => ~stale

LEMMA OldStep == TypeOK /\ OldInv /\ [Next]_vars => OldInv'
<1> SUFFICES ASSUME TypeOK, OldInv, [Next]_vars PROVE OldInv'
  OBVIOUS
<1> USE DEF OldInv, OldEngineEnds, OffWhileReplaced, RunsWhatIsThere, Replacing,
            trees, script, switch, system, vars, Goto, End, Killed, Outdates
<1>1. CASE Update \/ Copy \/ MarkLatest \/ Pull \/ Make
  BY <1>1 DEF Update, Copy, MarkLatest, Pull, Make
<1>2. CASE StopForUpdate \/ StopForRollback
  BY <1>2 DEF StopForUpdate, StopForRollback, ZapretStop
<1>3. CASE RemoveCode \/ CopyCode \/ RemoveBin \/ CopyBin \/ Restore
  <2>1. /\ Replacing /\ pc' # "idle" /\ pc' \notin {"started", "self-test"}
        /\ UNCHANGED <<desired, job, tpws, late, boot>>
    BY <1>3 DEF RemoveCode, CopyCode, RemoveBin, CopyBin, Restore
  <2>2. tpws' = "down" => ~stale'
    BY <1>3 DEF RemoveCode, CopyCode, RemoveBin, CopyBin, Restore
  <2> QED
    BY <2>1, <2>2
<1>4. CASE StartUpdated
  BY <1>4 DEF StartUpdated, ZapretStart, ZapretStartFails
<1>5. CASE CheckStarted \/ SelfTest
  BY <1>5 DEF CheckStarted, SelfTest
<1>6. CASE Rollback \/ RemoveTree \/ CopyTree
  <2>1. /\ Replacing' => Replacing
        /\ pc' # "idle" /\ pc' \notin {"started", "self-test"}
        /\ UNCHANGED <<desired, job, tpws, late, boot>>
    BY <1>6 DEF Rollback, RemoveTree, CopyTree
  <2>2. tpws' = "down" => ~stale'
    BY <1>6 DEF Rollback, RemoveTree, CopyTree
  <2> QED
    BY <2>1, <2>2
<1>7. CASE StartUndone
  BY <1>7 DEF StartUndone, InitStart
<1>8. CASE StartRestored
  BY <1>8 DEF StartRestored, ZapretStart, ZapretStartFails
<1>9. CASE UserStart
  BY <1>9 DEF UserStart, StartScript, ZapretStart, ZapretStartFails
<1>10. CASE UserStop
  BY <1>10 DEF UserStop, ZapretStop
<1>11. CASE Fail \/ Reboot
  BY <1>11 DEF Fail, Reboot
<1>12. CASE Spawn \/ Die
  BY <1>12 DEF Spawn, Die
<1>13. CASE BootReads \/ BootLoads \/ BootUnloads
  <2>1. /\ UNCHANGED <<opt, pc, ended, desired>>
        /\ "zapret" \in boot' => "zapret" \in boot
    BY <1>13 DEF BootReads, BootLoads, BootUnloads, Reload
  <2>2. \/ UNCHANGED <<job, tpws, stale, late>>
        \/ tpws' = "down" /\ ~stale' /\ (late' <=> late \/ desired = "off")
        \/ job' = FALSE /\ UNCHANGED <<tpws, stale, late>>
        \/ job' = FALSE /\ tpws' = "down" /\ ~stale' /\ UNCHANGED late
    BY <1>13 DEF BootReads, BootLoads, BootUnloads, Reload, TypeOK
  <2>3. desired \in {"on", "off"}
    BY DEF TypeOK
  <2> QED
    BY <2>1, <2>2, <2>3
<1>14. CASE LegacyBoot
  BY <1>14 DEF LegacyBoot, InitStart
<1>15. CASE WatchReads \/ WatchMakesDir \/ WatchReloads
  BY <1>15 DEF WatchReads, WatchMakesDir, WatchReloads, Reload, TypeOK
<1>16. CASE WatchStarts
  <2>1. opt'.code = opt.code
    BY <1>16 DEF WatchStarts, StartScript, TypeOK, Tree
  <2> QED
    <3>1. UNCHANGED <<pc, ended>> /\ ("zapret" \in boot' => "zapret" \in boot)
      BY <1>16 DEF WatchStarts, StartScript, ZapretStart, ZapretStartFails
    <3>2. tpws' = "down" /\ ~stale'
      <4>1. tpws' = "down" /\ (stale' => stale /\ tpws = "down")
        BY <1>16 DEF WatchStarts, StartScript, ZapretStart, ZapretStartFails
      <4> QED
        BY <4>1
    <3>3. late' <=> late \/ desired = "off"
      BY <1>16 DEF WatchStarts
    <3>4. desired = "on" \/ desired = "off"
      BY DEF TypeOK
    <3>5. Replacing /\ ~late' => FALSE
      BY <3>3, <3>4
    <3> QED
      BY <2>1, <3>1, <3>2, <3>5
<1>17. CASE UNCHANGED vars
  BY <1>17
<1> QED
  BY <1>1, <1>2, <1>3, <1>4, <1>5, <1>6, <1>7, <1>8, <1>9, <1>10, <1>11, <1>12, <1>13, <1>14,
     <1>15, <1>16, <1>17 DEF Next, UpdateEngine, RollbackEngine, Boot, Watch

-----------------------------------------------------------------------------
\* How far the engine in place is from whole, step by step, if the backup of the running
\* script is whole: only the executables may be missing in the end, and then nothing starts.
AsBacked ==
  /\ pc = "undo-start" => squat \/ (Whole(bak[dir]) => Whole(opt))
  /\ Whole(bak[dir]) =>
       /\ pc \in {"mark", "pull", "make", "stop"} => Whole(opt)
       /\ pc \in {"remove-code", "copy-code", "remove-bin", "copy-bin", "restore", "start",
                  "started", "self-test"} => opt.config /\ opt.tools
       /\ pc \in {"remove-bin", "copy-bin", "restore", "start"} => squat \/ opt.code # None
       /\ pc \in {"started", "self-test"} => opt.code # None
       /\ pc \in {"start", "started", "self-test"} => opt.hosts
       /\ pc \in {"started", "self-test"} /\ tpws # "down" => Startable(opt)

WholeInv == TypeOK /\ AsBacked /\ EndsWhole

LEMMA WholeStep == WholeInv /\ [Next]_vars => WholeInv'
<1> SUFFICES ASSUME WholeInv, [Next]_vars PROVE WholeInv'
  OBVIOUS
<1>0. TypeOK /\ TypeOK'
  BY TypeStep DEF WholeInv
<1> USE <1>0 DEF WholeInv, trees, script, switch, system, vars, Goto, End, Killed, Outdates
<1>1. CASE Update
  BY <1>1 DEF Update, AsBacked, EndsWhole
<1>2. CASE Copy
  <2>1. bak'[dir] = opt
    BY <1>2, FillKeeps DEF Copy, TypeOK
  <2> QED
    BY <1>2, <2>1 DEF Copy, AsBacked, EndsWhole
<1>3. CASE MarkLatest \/ Pull \/ Make
  <2>1. Whole(opt) => Whole(opt')
    BY <1>3 DEF MarkLatest, Pull, Make, TypeOK, Tree, Whole, Startable
  <2> QED
    BY <1>3, <2>1 DEF MarkLatest, Pull, Make, AsBacked, EndsWhole
<1>4. CASE StopForUpdate
  BY <1>4 DEF StopForUpdate, AsBacked, EndsWhole, Whole, Startable
<1>5. CASE RemoveCode \/ CopyCode
  <2>1. pc' # "idle" /\ opt'.config = opt.config /\ opt'.tools = opt.tools
    BY <1>5 DEF RemoveCode, CopyCode, TypeOK, Tree
  <2>3. pc = "copy-code" /\ Whole(bak[dir]) => squat' \/ opt'.code # None
    BY <1>5, NoneAssumption DEF RemoveCode, CopyCode, TypeOK, Tree, Updating, Version
  <2> QED
    BY <1>5, <2>1, <2>3 DEF RemoveCode, CopyCode, AsBacked, EndsWhole
<1>6. CASE RemoveBin \/ CopyBin \/ Restore
  <2>1. /\ pc' # "idle"
        /\ opt'.config = opt.config /\ opt'.tools = opt.tools /\ opt'.code = opt.code
        /\ pc = "restore" => opt'.hosts
    BY <1>6 DEF RemoveBin, CopyBin, Restore, TypeOK, Tree
  <2> QED
    BY <1>6, <2>1 DEF RemoveBin, CopyBin, Restore, AsBacked, EndsWhole
<1>7. CASE StartUpdated
  BY <1>7 DEF StartUpdated, ZapretStart, ZapretStartFails, AsBacked, EndsWhole
<1>8. CASE CheckStarted
  BY <1>8 DEF CheckStarted, AsBacked, EndsWhole
<1>9. CASE SelfTest
  <2>1. AsBacked'
    BY <1>9 DEF SelfTest, AsBacked
  <2>2. EndsWhole'
    BY <1>9 DEF SelfTest, AsBacked, EndsWhole, IsRunning, Whole
  <2> QED
    BY <2>1, <2>2
<1>10. CASE Rollback \/ StopForRollback \/ RemoveTree \/ CopyTree
  BY <1>10 DEF Rollback, StopForRollback, RemoveTree, CopyTree, AsBacked, EndsWhole
<1>11. CASE StartUndone \/ StartRestored
  BY <1>11 DEF StartUndone, StartRestored, AsBacked, EndsWhole
<1>12. CASE UserStart \/ UserStop \/ Fail
  BY <1>12 DEF UserStart, UserStop, Fail, AsBacked, EndsWhole
<1>13. CASE Reboot
  BY <1>13 DEF Reboot, AsBacked, EndsWhole
<1>14. CASE Spawn \/ Die
  BY <1>14 DEF Spawn, Die, AsBacked, EndsWhole
<1>15. CASE BootReads \/ BootLoads \/ BootUnloads
  BY <1>15 DEF BootReads, BootLoads, BootUnloads, Reload, AsBacked, EndsWhole
<1>16. CASE LegacyBoot
  <2>1. tpws' # "down" => tpws # "down" \/ Startable(opt)
    BY <1>16 DEF LegacyBoot, InitStart
  <2> QED
    BY <1>16, <2>1 DEF LegacyBoot, AsBacked, EndsWhole
<1>17. CASE WatchReads \/ WatchMakesDir \/ WatchReloads
  BY <1>17 DEF WatchReads, WatchMakesDir, WatchReloads, Reload, AsBacked, EndsWhole
<1>18. CASE WatchStarts
  <2>1. /\ Whole(opt) => Whole(opt')
        /\ Startable(opt) => Startable(opt')
        /\ opt'.code = opt.code /\ opt'.tools = opt.tools /\ opt'.config /\ opt'.hosts
    BY <1>18 DEF WatchStarts, StartScript, TypeOK, Tree, Whole, Startable
  <2>2. UNCHANGED <<bak, pc, dir, ended, squat>> /\ (tpws' # "down" => tpws # "down")
    BY <1>18 DEF WatchStarts, StartScript, ZapretStart, ZapretStartFails
  <2> QED
    BY <2>1, <2>2 DEF AsBacked, EndsWhole
<1>19. CASE UNCHANGED vars
  BY <1>19 DEF AsBacked, EndsWhole
<1> QED
  BY <1>1, <1>2, <1>3, <1>4, <1>5, <1>6, <1>7, <1>8, <1>9, <1>10, <1>11, <1>12, <1>13, <1>14,
     <1>15, <1>16, <1>17, <1>18, <1>19 DEF Next, UpdateEngine, RollbackEngine, Boot, Watch

-----------------------------------------------------------------------------
\* Every variable of the engine update keeps its type, and BACKUP_DIR and the mark always
\* name directories that exist.
THEOREM TypeCorrect == Spec => []TypeOK
<1>1. Init => TypeOK
  BY InvInit DEF IInv
<1> QED
  BY <1>1, TypeStep, PTL DEF Spec

\* However often updates and rollbacks fail or the machine goes down in the middle of them, a
\* whole engine is left, in place or in a backup, unless a rollback has found no mark.
THEOREM EngineIsKept == Spec => []NothingLost
<1>1. IInv => NothingLost
  BY DEF IInv
<1> QED
  BY <1>1, InvInit, InvStep, PTL DEF Spec

\* While /opt/zapret is replaced no tpws runs from it and no job would start one, but for a
\* job of launchd that had read "on" before; and what such a job has started is gone by the
\* self-test, by the end of an update and by that of a rollback.
THEOREM OldEngineIsGone == Spec => []OldEngineEnds
<1>1. Init => OldInv
  BY DEF Init, OldInv, OldEngineEnds, OffWhileReplaced, RunsWhatIsThere, Replacing
<1>2. OldInv => OldEngineEnds
  BY DEF OldInv
<1> QED
  BY <1>1, <1>2, OldStep, TypeCorrect, PTL DEF Spec

\* An update that found a whole engine and ends, and a rollback to a whole backup, leave a whole
\* engine in place, whatever git and make have failed at unseen.
THEOREM EngineEndsWhole == Spec => []EndsWhole
<1>1. Init => WholeInv
  BY InvInit DEF IInv, Init, WholeInv, AsBacked, EndsWhole
<1>2. WholeInv => EndsWhole
  BY DEF WholeInv
<1> QED
  BY <1>1, <1>2, WholeStep, PTL DEF Spec
-----------------------------------------------------------------------------
\* From zapret_start on an update has Zapret on with scripts to start it by, and what is not
\* loaded the boot loader will load, which is never one that has read "off".
OnInv ==
  pc \in {"started", "self-test"} \/ (pc = "idle" /\ ended = "updated")
  => /\ desired = "on" /\ opt.code # None
     /\ "boot-off" \notin boot
     /\ boot \cap {"zapret-boot", "boot-on"} # {} \/ (job /\ pf)

LEMMA OnStep == TypeOK /\ OnInv /\ [Next]_vars => OnInv'
<1> SUFFICES ASSUME TypeOK, OnInv, [Next]_vars PROVE OnInv'
  OBVIOUS
<1> USE DEF OnInv, trees, script, switch, system, vars, Goto, End, Outdates
<1>1. CASE Update \/ Copy \/ MarkLatest \/ Pull \/ Make \/ StopForUpdate
  BY <1>1 DEF Update, Copy, MarkLatest, Pull, Make, StopForUpdate
<1>2. CASE RemoveCode \/ CopyCode \/ RemoveBin \/ CopyBin \/ Restore
  BY <1>2 DEF RemoveCode, CopyCode, RemoveBin, CopyBin, Restore
<1>3. CASE StartUpdated
  BY <1>3 DEF StartUpdated, ZapretStart, ZapretStartFails
<1>4. CASE CheckStarted
  BY <1>4 DEF CheckStarted
<1>5. CASE SelfTest
  BY <1>5 DEF SelfTest
<1>6. CASE Rollback \/ StopForRollback \/ RemoveTree \/ CopyTree \/ StartUndone \/ StartRestored
  BY <1>6 DEF Rollback, StopForRollback, RemoveTree, CopyTree, StartUndone, StartRestored
<1>7. CASE UserStart \/ UserStop
  BY <1>7 DEF UserStart, UserStop
<1>8. CASE Spawn \/ Die \/ UNCHANGED vars
  BY <1>8 DEF Spawn, Die, Killed
<1>9. CASE Fail
  BY <1>9 DEF Fail
<1>10. CASE Reboot
  BY <1>10 DEF Reboot
<1>11. CASE BootReads \/ BootUnloads
  BY <1>11 DEF BootReads, BootUnloads
<1>12. CASE BootLoads \/ WatchReloads
  BY <1>12 DEF BootLoads, WatchReloads, Reload
<1>13. CASE LegacyBoot
  BY <1>13 DEF LegacyBoot, InitStart, TypeOK
<1>14. CASE WatchReads \/ WatchMakesDir
  BY <1>14 DEF WatchReads, WatchMakesDir
<1>15. CASE WatchStarts
  <2>1. opt'.code = opt.code
    BY <1>15 DEF WatchStarts, StartScript, TypeOK, Tree
  <2> QED
    BY <1>15, <2>1 DEF WatchStarts, StartScript, ZapretStart, ZapretStartFails
<1> QED
  BY <1>1, <1>2, <1>3, <1>4, <1>5, <1>6, <1>7, <1>8, <1>9, <1>10, <1>11, <1>12, <1>13, <1>14,
     <1>15 DEF Next, UpdateEngine, RollbackEngine, Boot, Watch

\* After an update that succeeded Zapret is on, through every restart of the machine, until
\* another script or the user says otherwise.
THEOREM UpdateLeavesOn == Spec => []UpdatedIsOn
<1>1. Init => OnInv
  BY DEF Init, OnInv
<1>2. OnInv => UpdatedIsOn
  BY DEF OnInv, UpdatedIsOn
<1>3. QED
  BY <1>1, <1>2, OnStep, TypeCorrect, PTL DEF Spec

=============================================================================
