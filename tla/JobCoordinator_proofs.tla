------------------------- MODULE JobCoordinator_proofs -------------------------
(* Theorems about JobCoordinator, for any jobs, cells and descendants.     *)
EXTENDS JobCoordinator, TLAPS

(* Every step keeps the types.                                            *)
LEMMA TypeStep ==
    ASSUME TypeOK, Staged, [Next]_vars
    PROVE  TypeOK'
  <1> USE LifeAssumption DEF Goto, SetStatus, cellVars, workVars, groupVars, TypeOK, JobLifecycle, JobState, Steps, Files, Run
  <1>1. ASSUME NEW j \in Jobs, NEW c \in Cells, Insert(j, c) PROVE TypeOK'
    BY <1>1 DEF Insert
  <1>2. ASSUME NEW c \in Cells, SpawnWorker(c) PROVE TypeOK'
    BY <1>2 DEF SpawnWorker
  <1>3. ASSUME NEW c \in Cells, SpawnWorkerFailed(c) PROVE TypeOK'
    BY <1>3 DEF SpawnWorkerFailed
  <1>4. ASSUME NEW j \in Jobs, Cancel(j) PROVE TypeOK'
    BY <1>4 DEF Cancel
  <1>5. ASSUME NEW c \in Cells, BeginJob(c) PROVE TypeOK'
    BY <1>5 DEF BeginJob
  <1>6. ASSUME NEW c \in Cells, CancelledEarly(c) PROVE TypeOK'
    BY <1>6 DEF CancelledEarly
  <1>7. ASSUME NEW c \in Cells, SpawnChild(c) PROVE TypeOK'
    BY <1>7 DEF SpawnChild, FailFrom
  <1>8. ASSUME NEW c \in Cells, ReapChild(c) PROVE TypeOK'
    BY <1>8 DEF ReapChild, Verdict
  <1>9. ASSUME NEW c \in Cells, TerminateGroup(c) PROVE TypeOK'
    BY <1>9 DEF TerminateGroup
  <1>10. ASSUME NEW c \in Cells, ReapTerminated(c) PROVE TypeOK'
    BY <1>10 DEF ReapTerminated
  <1>11. ASSUME NEW c \in Cells, KillGroup(c) PROVE TypeOK'
    BY <1>11 DEF KillGroup
  <1>12. ASSUME NEW c \in Cells, JoinReaders(c) PROVE TypeOK'
    BY <1>12 DEF JoinReaders, OutputClosed
  <1>13. ASSUME NEW c \in Cells, ReaderFailed(c) PROVE TypeOK'
    BY <1>13 DEF ReaderFailed, FailFrom
  <1>14. ASSUME NEW c \in Cells, NEW f \in Files, WriteFile(c, f) PROVE TypeOK'
    BY <1>14 DEF WriteFile, After
  <1>15. ASSUME NEW c \in Cells, NEW f \in Files, WriteFailed(c, f) PROVE TypeOK'
    BY <1>15 DEF WriteFailed, FailFrom
  <1>16. ASSUME NEW c \in Cells, FinishJob(c) PROVE TypeOK'
    BY <1>16 DEF FinishJob, Staged
  <1>17. ASSUME NEW c \in Cells, NEW exit \in {"ok", "bad"}, LeaderExit(c, exit) PROVE TypeOK'
    BY <1>17 DEF LeaderExit
  <1>18. ASSUME NEW c \in Cells, NEW h \in Heirs, Fork(c, h) PROVE TypeOK'
    BY <1>18 DEF Fork
  <1>19. ASSUME NEW c \in Cells, NEW h \in Heirs, HeirExit(c, h) PROVE TypeOK'
    BY <1>19 DEF HeirExit
  <1>20. ASSUME Restart PROVE TypeOK'
    BY <1>20 DEF Restart
  <1>21. ASSUME UNCHANGED vars PROVE TypeOK'
    BY <1>21 DEF vars
  <1>22. QED
    BY <1>1, <1>2, <1>3, <1>4, <1>5, <1>6, <1>7, <1>8, <1>9, <1>10, <1>11, <1>12,
       <1>13, <1>14, <1>15, <1>16, <1>17, <1>18, <1>19, <1>20, <1>21 DEF Next, Worker

(* The registry and the cells keep referring to each other.               *)
LEMMA WiredStep ==
    ASSUME TypeOK, Wired, [Next]_vars
    PROVE  Wired'
  <1> USE NothingAssumption DEF Goto, SetStatus, cellVars, workVars, groupVars, TypeOK, Wired, Steps, Files, NewId
  <1>1. ASSUME NEW j \in Jobs, NEW c \in Cells, Insert(j, c) PROVE Wired'
    BY <1>1 DEF Insert
  <1>2. ASSUME NEW c \in Cells, SpawnWorker(c) PROVE Wired'
    BY <1>2 DEF SpawnWorker
  <1>3. ASSUME NEW c \in Cells, SpawnWorkerFailed(c) PROVE Wired'
    BY <1>3 DEF SpawnWorkerFailed
  <1>4. ASSUME NEW j \in Jobs, Cancel(j) PROVE Wired'
    BY <1>4 DEF Cancel
  <1>5. ASSUME NEW c \in Cells, BeginJob(c) PROVE Wired'
    BY <1>5 DEF BeginJob
  <1>6. ASSUME NEW c \in Cells, CancelledEarly(c) PROVE Wired'
    BY <1>6 DEF CancelledEarly
  <1>7. ASSUME NEW c \in Cells, SpawnChild(c) PROVE Wired'
    BY <1>7 DEF SpawnChild, FailFrom
  <1>8. ASSUME NEW c \in Cells, ReapChild(c) PROVE Wired'
    BY <1>8 DEF ReapChild, Verdict
  <1>9. ASSUME NEW c \in Cells, TerminateGroup(c) PROVE Wired'
    BY <1>9 DEF TerminateGroup
  <1>10. ASSUME NEW c \in Cells, ReapTerminated(c) PROVE Wired'
    BY <1>10 DEF ReapTerminated
  <1>11. ASSUME NEW c \in Cells, KillGroup(c) PROVE Wired'
    BY <1>11 DEF KillGroup
  <1>12. ASSUME NEW c \in Cells, JoinReaders(c) PROVE Wired'
    BY <1>12 DEF JoinReaders, OutputClosed
  <1>13. ASSUME NEW c \in Cells, ReaderFailed(c) PROVE Wired'
    BY <1>13 DEF ReaderFailed, FailFrom
  <1>14. ASSUME NEW c \in Cells, NEW f \in Files, WriteFile(c, f) PROVE Wired'
    BY <1>14 DEF WriteFile, After
  <1>15. ASSUME NEW c \in Cells, NEW f \in Files, WriteFailed(c, f) PROVE Wired'
    BY <1>15 DEF WriteFailed, FailFrom
  <1>16. ASSUME NEW c \in Cells, FinishJob(c) PROVE Wired'
    BY <1>16 DEF FinishJob, Staged
  <1>17. ASSUME NEW c \in Cells, NEW exit \in {"ok", "bad"}, LeaderExit(c, exit) PROVE Wired'
    BY <1>17 DEF LeaderExit
  <1>18. ASSUME NEW c \in Cells, NEW h \in Heirs, Fork(c, h) PROVE Wired'
    BY <1>18 DEF Fork
  <1>19. ASSUME NEW c \in Cells, NEW h \in Heirs, HeirExit(c, h) PROVE Wired'
    BY <1>19 DEF HeirExit
  <1>20. ASSUME Restart PROVE Wired'
    BY <1>20 DEF Restart
  <1>21. ASSUME UNCHANGED vars PROVE Wired'
    BY <1>21 DEF vars
  <1>22. QED
    BY <1>1, <1>2, <1>3, <1>4, <1>5, <1>6, <1>7, <1>8, <1>9, <1>10, <1>11, <1>12,
       <1>13, <1>14, <1>15, <1>16, <1>17, <1>18, <1>19, <1>20, <1>21 DEF Next, Worker

(* The status and the outcome keep fitting the worker's place.            *)
LEMMA StagedStep ==
    ASSUME TypeOK, Wired, Staged, [Next]_vars
    PROVE  Staged'
  <1> USE NothingAssumption DEF Goto, SetStatus, cellVars, workVars, groupVars, TypeOK, Wired, Staged, Steps, Files, JobState, JobLifecycle, IsTerminal
  <1>1. ASSUME NEW j \in Jobs, NEW c \in Cells, Insert(j, c) PROVE Staged'
    BY <1>1 DEF Insert
  <1>2. ASSUME NEW c \in Cells, SpawnWorker(c) PROVE Staged'
    BY <1>2 DEF SpawnWorker
  <1>3. ASSUME NEW c \in Cells, SpawnWorkerFailed(c) PROVE Staged'
    BY <1>3 DEF SpawnWorkerFailed
  <1>4. ASSUME NEW j \in Jobs, Cancel(j) PROVE Staged'
    BY <1>4 DEF Cancel
  <1>5. ASSUME NEW c \in Cells, BeginJob(c) PROVE Staged'
    BY <1>5 DEF BeginJob
  <1>6. ASSUME NEW c \in Cells, CancelledEarly(c) PROVE Staged'
    BY <1>6 DEF CancelledEarly
  <1>7. ASSUME NEW c \in Cells, SpawnChild(c) PROVE Staged'
    BY <1>7 DEF SpawnChild, FailFrom
  <1>8. ASSUME NEW c \in Cells, ReapChild(c) PROVE Staged'
    BY <1>8 DEF ReapChild, Verdict
  <1>9. ASSUME NEW c \in Cells, TerminateGroup(c) PROVE Staged'
    BY <1>9 DEF TerminateGroup
  <1>10. ASSUME NEW c \in Cells, ReapTerminated(c) PROVE Staged'
    BY <1>10 DEF ReapTerminated
  <1>11. ASSUME NEW c \in Cells, KillGroup(c) PROVE Staged'
    BY <1>11 DEF KillGroup
  <1>12. ASSUME NEW c \in Cells, JoinReaders(c) PROVE Staged'
    BY <1>12 DEF JoinReaders, OutputClosed
  <1>13. ASSUME NEW c \in Cells, ReaderFailed(c) PROVE Staged'
    BY <1>13 DEF ReaderFailed, FailFrom
  <1>14. ASSUME NEW c \in Cells, NEW f \in Files, WriteFile(c, f) PROVE Staged'
    BY <1>14 DEF WriteFile, After
  <1>15. ASSUME NEW c \in Cells, NEW f \in Files, WriteFailed(c, f) PROVE Staged'
    BY <1>15 DEF WriteFailed, FailFrom
  <1>16. ASSUME NEW c \in Cells, FinishJob(c) PROVE Staged'
    BY <1>16 DEF FinishJob, Staged
  <1>17. ASSUME NEW c \in Cells, NEW exit \in {"ok", "bad"}, LeaderExit(c, exit) PROVE Staged'
    BY <1>17 DEF LeaderExit
  <1>18. ASSUME NEW c \in Cells, NEW h \in Heirs, Fork(c, h) PROVE Staged'
    BY <1>18 DEF Fork
  <1>19. ASSUME NEW c \in Cells, NEW h \in Heirs, HeirExit(c, h) PROVE Staged'
    BY <1>19 DEF HeirExit
  <1>20. ASSUME Restart PROVE Staged'
    BY <1>20 DEF Restart
  <1>21. ASSUME UNCHANGED vars PROVE Staged'
    BY <1>21 DEF vars
  <1>22. QED
    BY <1>1, <1>2, <1>3, <1>4, <1>5, <1>6, <1>7, <1>8, <1>9, <1>10, <1>11, <1>12,
       <1>13, <1>14, <1>15, <1>16, <1>17, <1>18, <1>19, <1>20, <1>21 DEF Next, Worker

(* The process group keeps fitting the worker's place.                    *)
LEMMA GroupedStep ==
    ASSUME TypeOK, Staged, Grouped, [Next]_vars
    PROVE  Grouped'
  <1> USE DEF Goto, SetStatus, cellVars, workVars, groupVars, TypeOK, Staged, Grouped, Steps, Files, JobState, JobLifecycle, IsTerminal
  <1>1. ASSUME NEW j \in Jobs, NEW c \in Cells, Insert(j, c) PROVE Grouped'
    BY <1>1 DEF Insert
  <1>2. ASSUME NEW c \in Cells, SpawnWorker(c) PROVE Grouped'
    BY <1>2 DEF SpawnWorker
  <1>3. ASSUME NEW c \in Cells, SpawnWorkerFailed(c) PROVE Grouped'
    BY <1>3 DEF SpawnWorkerFailed
  <1>4. ASSUME NEW j \in Jobs, Cancel(j) PROVE Grouped'
    BY <1>4 DEF Cancel
  <1>5. ASSUME NEW c \in Cells, BeginJob(c) PROVE Grouped'
    BY <1>5 DEF BeginJob
  <1>6. ASSUME NEW c \in Cells, CancelledEarly(c) PROVE Grouped'
    BY <1>6 DEF CancelledEarly
  <1>7. ASSUME NEW c \in Cells, SpawnChild(c) PROVE Grouped'
    BY <1>7 DEF SpawnChild, FailFrom
  <1>8. ASSUME NEW c \in Cells, ReapChild(c) PROVE Grouped'
    BY <1>8 DEF ReapChild, Verdict
  <1>9. ASSUME NEW c \in Cells, TerminateGroup(c) PROVE Grouped'
    BY <1>9 DEF TerminateGroup
  <1>10. ASSUME NEW c \in Cells, ReapTerminated(c) PROVE Grouped'
    BY <1>10 DEF ReapTerminated
  <1>11. ASSUME NEW c \in Cells, KillGroup(c) PROVE Grouped'
    BY <1>11 DEF KillGroup
  <1>12. ASSUME NEW c \in Cells, JoinReaders(c) PROVE Grouped'
    BY <1>12 DEF JoinReaders, OutputClosed
  <1>13. ASSUME NEW c \in Cells, ReaderFailed(c) PROVE Grouped'
    BY <1>13 DEF ReaderFailed, FailFrom
  <1>14. ASSUME NEW c \in Cells, NEW f \in Files, WriteFile(c, f) PROVE Grouped'
    BY <1>14 DEF WriteFile, After
  <1>15. ASSUME NEW c \in Cells, NEW f \in Files, WriteFailed(c, f) PROVE Grouped'
    BY <1>15 DEF WriteFailed, FailFrom
  <1>16. ASSUME NEW c \in Cells, FinishJob(c) PROVE Grouped'
    BY <1>16 DEF FinishJob, Staged
  <1>17. ASSUME NEW c \in Cells, NEW exit \in {"ok", "bad"}, LeaderExit(c, exit) PROVE Grouped'
    BY <1>17 DEF LeaderExit
  <1>18. ASSUME NEW c \in Cells, NEW h \in Heirs, Fork(c, h) PROVE Grouped'
    BY <1>18 DEF Fork
  <1>19. ASSUME NEW c \in Cells, NEW h \in Heirs, HeirExit(c, h) PROVE Grouped'
    BY <1>19 DEF HeirExit
  <1>20. ASSUME Restart PROVE Grouped'
    BY <1>20 DEF Restart
  <1>21. ASSUME UNCHANGED vars PROVE Grouped'
    BY <1>21 DEF vars
  <1>22. QED
    BY <1>1, <1>2, <1>3, <1>4, <1>5, <1>6, <1>7, <1>8, <1>9, <1>10, <1>11, <1>12,
       <1>13, <1>14, <1>15, <1>16, <1>17, <1>18, <1>19, <1>20, <1>21 DEF Next, Worker

(* The store keeps what the worker has written.                           *)
LEMMA KeptStep ==
    ASSUME TypeOK, Wired, Staged, Kept, [Next]_vars
    PROVE  Kept'
  <1> USE DEF Goto, SetStatus, cellVars, workVars, groupVars, TypeOK, Wired, Staged, Kept, Written, Steps, Files, JobState, JobLifecycle, IsTerminal, Run
  <1>1. ASSUME NEW j \in Jobs, NEW c \in Cells, Insert(j, c) PROVE Kept'
    BY <1>1 DEF Insert
  <1>2. ASSUME NEW c \in Cells, SpawnWorker(c) PROVE Kept'
    BY <1>2 DEF SpawnWorker
  <1>3. ASSUME NEW c \in Cells, SpawnWorkerFailed(c) PROVE Kept'
    BY <1>3 DEF SpawnWorkerFailed
  <1>4. ASSUME NEW j \in Jobs, Cancel(j) PROVE Kept'
    BY <1>4 DEF Cancel
  <1>5. ASSUME NEW c \in Cells, BeginJob(c) PROVE Kept'
    BY <1>5 DEF BeginJob
  <1>6. ASSUME NEW c \in Cells, CancelledEarly(c) PROVE Kept'
    BY <1>6 DEF CancelledEarly
  <1>7. ASSUME NEW c \in Cells, SpawnChild(c) PROVE Kept'
    BY <1>7 DEF SpawnChild, FailFrom
  <1>8. ASSUME NEW c \in Cells, ReapChild(c) PROVE Kept'
    BY <1>8 DEF ReapChild, Verdict
  <1>9. ASSUME NEW c \in Cells, TerminateGroup(c) PROVE Kept'
    BY <1>9 DEF TerminateGroup
  <1>10. ASSUME NEW c \in Cells, ReapTerminated(c) PROVE Kept'
    BY <1>10 DEF ReapTerminated
  <1>11. ASSUME NEW c \in Cells, KillGroup(c) PROVE Kept'
    BY <1>11 DEF KillGroup
  <1>12. ASSUME NEW c \in Cells, JoinReaders(c) PROVE Kept'
    BY <1>12 DEF JoinReaders, OutputClosed
  <1>13. ASSUME NEW c \in Cells, ReaderFailed(c) PROVE Kept'
    BY <1>13 DEF ReaderFailed, FailFrom
  <1>14. ASSUME NEW c \in Cells, NEW f \in Files, WriteFile(c, f) PROVE Kept'
    BY <1>14 DEF WriteFile, After
  <1>15. ASSUME NEW c \in Cells, NEW f \in Files, WriteFailed(c, f) PROVE Kept'
    BY <1>15 DEF WriteFailed, FailFrom
  <1>16. ASSUME NEW c \in Cells, FinishJob(c) PROVE Kept'
    BY <1>16 DEF FinishJob, Staged
  <1>17. ASSUME NEW c \in Cells, NEW exit \in {"ok", "bad"}, LeaderExit(c, exit) PROVE Kept'
    BY <1>17 DEF LeaderExit
  <1>18. ASSUME NEW c \in Cells, NEW h \in Heirs, Fork(c, h) PROVE Kept'
    BY <1>18 DEF Fork
  <1>19. ASSUME NEW c \in Cells, NEW h \in Heirs, HeirExit(c, h) PROVE Kept'
    BY <1>19 DEF HeirExit
  <1>20. ASSUME Restart PROVE Kept'
    BY <1>20 DEF Restart
  <1>21. ASSUME UNCHANGED vars PROVE Kept'
    BY <1>21 DEF vars
  <1> HIDE DEF Kept, Written, Files, Steps, TypeOK
  <1>22. QED
    BY <1>1, <1>2, <1>3, <1>4, <1>5, <1>6, <1>7, <1>8, <1>9, <1>10, <1>11, <1>12,
       <1>13, <1>14, <1>15, <1>16, <1>17, <1>18, <1>19, <1>20, <1>21 DEF Next, Worker

(* Stamps of different cells differ.                                       *)
LEMMA RunDistinct ==
    /\ \A c, d \in Cells : Run(c) = Run(d) => c = d
    /\ life' = life => \A c \in Cells : Run(c)' = Run(c)
  BY DEF Run

(* No record is from a later life of the service.                         *)
LEMMA PastStep ==
    ASSUME TypeOK, Wired, Past, [Next]_vars
    PROVE  Past'
  <1> USE LifeAssumption, NothingAssumption DEF Goto, SetStatus, cellVars, workVars, groupVars, TypeOK, Wired, Past, Steps, Files, Run
  <1>1. ASSUME NEW j \in Jobs, NEW c \in Cells, Insert(j, c) PROVE Past'
    BY <1>1 DEF Insert
  <1>2. ASSUME NEW c \in Cells, SpawnWorker(c) PROVE Past'
    BY <1>2 DEF SpawnWorker
  <1>3. ASSUME NEW c \in Cells, SpawnWorkerFailed(c) PROVE Past'
    BY <1>3 DEF SpawnWorkerFailed
  <1>4. ASSUME NEW j \in Jobs, Cancel(j) PROVE Past'
    BY <1>4 DEF Cancel
  <1>5. ASSUME NEW c \in Cells, BeginJob(c) PROVE Past'
    BY <1>5 DEF BeginJob
  <1>6. ASSUME NEW c \in Cells, CancelledEarly(c) PROVE Past'
    BY <1>6 DEF CancelledEarly
  <1>7. ASSUME NEW c \in Cells, SpawnChild(c) PROVE Past'
    BY <1>7 DEF SpawnChild, FailFrom
  <1>8. ASSUME NEW c \in Cells, ReapChild(c) PROVE Past'
    BY <1>8 DEF ReapChild, Verdict
  <1>9. ASSUME NEW c \in Cells, TerminateGroup(c) PROVE Past'
    BY <1>9 DEF TerminateGroup
  <1>10. ASSUME NEW c \in Cells, ReapTerminated(c) PROVE Past'
    BY <1>10 DEF ReapTerminated
  <1>11. ASSUME NEW c \in Cells, KillGroup(c) PROVE Past'
    BY <1>11 DEF KillGroup
  <1>12. ASSUME NEW c \in Cells, JoinReaders(c) PROVE Past'
    BY <1>12 DEF JoinReaders, OutputClosed
  <1>13. ASSUME NEW c \in Cells, ReaderFailed(c) PROVE Past'
    BY <1>13 DEF ReaderFailed, FailFrom
  <1>14. ASSUME NEW c \in Cells, NEW f \in Files, WriteFile(c, f) PROVE Past'
    BY <1>14 DEF WriteFile, After
  <1>15. ASSUME NEW c \in Cells, NEW f \in Files, WriteFailed(c, f) PROVE Past'
    BY <1>15 DEF WriteFailed, FailFrom
  <1>16. ASSUME NEW c \in Cells, FinishJob(c) PROVE Past'
    BY <1>16 DEF FinishJob, Staged
  <1>17. ASSUME NEW c \in Cells, NEW exit \in {"ok", "bad"}, LeaderExit(c, exit) PROVE Past'
    BY <1>17 DEF LeaderExit
  <1>18. ASSUME NEW c \in Cells, NEW h \in Heirs, Fork(c, h) PROVE Past'
    BY <1>18 DEF Fork
  <1>19. ASSUME NEW c \in Cells, NEW h \in Heirs, HeirExit(c, h) PROVE Past'
    BY <1>19 DEF HeirExit
  <1>20. ASSUME Restart PROVE Past'
    BY <1>20 DEF Restart
  <1>21. ASSUME UNCHANGED vars PROVE Past'
    BY <1>21 DEF vars
  <1> HIDE DEF Past, Files, Steps, TypeOK
  <1>22. QED
    BY <1>1, <1>2, <1>3, <1>4, <1>5, <1>6, <1>7, <1>8, <1>9, <1>10, <1>11, <1>12,
       <1>13, <1>14, <1>15, <1>16, <1>17, <1>18, <1>19, <1>20, <1>21 DEF Next, Worker

(* No record is of a run that has not written it.                         *)
LEMMA FreshStep ==
    ASSUME TypeOK, Wired, Past, Fresh, [Next]_vars
    PROVE  Fresh'
  <1> USE RunDistinct DEF Goto, SetStatus, cellVars, workVars, groupVars, TypeOK, Wired, Fresh, Steps, Files
  <1>1. ASSUME NEW j \in Jobs, NEW c \in Cells, Insert(j, c) PROVE Fresh'
    BY <1>1 DEF Insert
  <1>2. ASSUME NEW c \in Cells, SpawnWorker(c) PROVE Fresh'
    BY <1>2 DEF SpawnWorker
  <1>3. ASSUME NEW c \in Cells, SpawnWorkerFailed(c) PROVE Fresh'
    BY <1>3 DEF SpawnWorkerFailed
  <1>4. ASSUME NEW j \in Jobs, Cancel(j) PROVE Fresh'
    BY <1>4 DEF Cancel
  <1>5. ASSUME NEW c \in Cells, BeginJob(c) PROVE Fresh'
    BY <1>5 DEF BeginJob
  <1>6. ASSUME NEW c \in Cells, CancelledEarly(c) PROVE Fresh'
    BY <1>6 DEF CancelledEarly
  <1>7. ASSUME NEW c \in Cells, SpawnChild(c) PROVE Fresh'
    BY <1>7 DEF SpawnChild, FailFrom
  <1>8. ASSUME NEW c \in Cells, ReapChild(c) PROVE Fresh'
    BY <1>8 DEF ReapChild, Verdict
  <1>9. ASSUME NEW c \in Cells, TerminateGroup(c) PROVE Fresh'
    BY <1>9 DEF TerminateGroup
  <1>10. ASSUME NEW c \in Cells, ReapTerminated(c) PROVE Fresh'
    BY <1>10 DEF ReapTerminated
  <1>11. ASSUME NEW c \in Cells, KillGroup(c) PROVE Fresh'
    BY <1>11 DEF KillGroup
  <1>12. ASSUME NEW c \in Cells, JoinReaders(c) PROVE Fresh'
    BY <1>12 DEF JoinReaders, OutputClosed
  <1>13. ASSUME NEW c \in Cells, ReaderFailed(c) PROVE Fresh'
    BY <1>13 DEF ReaderFailed, FailFrom
  <1>14. ASSUME NEW c \in Cells, NEW f \in Files, WriteFile(c, f) PROVE Fresh'
    BY <1>14 DEF WriteFile, After
  <1>15. ASSUME NEW c \in Cells, NEW f \in Files, WriteFailed(c, f) PROVE Fresh'
    BY <1>15 DEF WriteFailed, FailFrom
  <1>16. ASSUME NEW c \in Cells, FinishJob(c) PROVE Fresh'
    BY <1>16 DEF FinishJob, Staged
  <1>17. ASSUME NEW c \in Cells, NEW exit \in {"ok", "bad"}, LeaderExit(c, exit) PROVE Fresh'
    BY <1>17 DEF LeaderExit
  <1>18. ASSUME NEW c \in Cells, NEW h \in Heirs, Fork(c, h) PROVE Fresh'
    BY <1>18 DEF Fork
  <1>19. ASSUME NEW c \in Cells, NEW h \in Heirs, HeirExit(c, h) PROVE Fresh'
    BY <1>19 DEF HeirExit
  <1>20. ASSUME Restart PROVE Fresh'
    <2>1. life \in 1 .. MaxLife /\ life' = life + 1 /\ life' \in 1 .. MaxLife
      BY <1>20, LifeAssumption DEF Restart
    <2>2. ASSUME NEW j \in Jobs, NEW f \in Files, NEW c \in Cells PROVE record[j][f] # Run(c)'
      <3>1. Run(c)' # None /\ Run(c)'[1] = life + 1
        BY <2>1, NothingAssumption DEF Run
      <3>2. record[j][f] # None => record[j][f][1] <= life
        BY DEF Past
      <3>3. QED
        BY <2>1, <3>1, <3>2
    <2>3. record' = record /\ \A c \in Cells : pc'[c] = "none"
      BY <1>20 DEF Restart
    <2>4. QED
      BY <2>2, <2>3
  <1>21. ASSUME UNCHANGED vars PROVE Fresh'
    BY <1>21 DEF vars
  <1> HIDE DEF Fresh, Files, Steps, TypeOK
  <1>22. QED
    BY <1>1, <1>2, <1>3, <1>4, <1>5, <1>6, <1>7, <1>8, <1>9, <1>10, <1>11, <1>12,
       <1>13, <1>14, <1>15, <1>16, <1>17, <1>18, <1>19, <1>20, <1>21 DEF Next, Worker

LEMMA InitInductive == Init => Inductive
  <1> SUFFICES ASSUME Init PROVE Inductive
    OBVIOUS
  <1>1. TypeOK
    BY LifeAssumption DEF Init, TypeOK, JobLifecycle, Steps
  <1>2. Wired /\ Staged /\ Grouped
    BY NothingAssumption DEF Init, Wired, Staged, Grouped, Files, IsTerminal
  <1>3. \A c \in Cells : Written(c) = {} /\ Run(c) # None
    BY LifeAssumption, NothingAssumption DEF Init, Written, Run
  <1>4. Kept /\ Fresh /\ Past
    BY <1>3 DEF Init, Kept, Fresh, Past
  <1>5. QED
    BY <1>1, <1>2, <1>4 DEF Inductive

(* The inductive invariant holds of every reachable state.                 *)
THEOREM InductiveHolds == Spec => []Inductive
  <1>1. Inductive /\ [Next]_vars => Inductive'
    <2> SUFFICES ASSUME Inductive, [Next]_vars PROVE Inductive'
      OBVIOUS
    <2>1. TypeOK /\ Wired /\ Staged /\ Grouped /\ Kept /\ Fresh /\ Past
      BY DEF Inductive
    <2>2. TypeOK' /\ Wired' /\ Staged' /\ Grouped'
      BY <2>1, TypeStep, WiredStep, StagedStep, GroupedStep
    <2>3. Kept' /\ Fresh' /\ Past'
      BY <2>1, KeptStep, FreshStep, PastStep
    <2>4. QED
      BY <2>2, <2>3 DEF Inductive
  <1>2. QED
    BY <1>1, InitInductive, PTL DEF Spec

(* Every running job answers under its own identifier.                     *)
THEOREM RegisteredHolds == Spec => []Registered
  <1>1. Inductive => Registered
    BY DEF Inductive, Wired, Registered, Live
  <1>2. QED
    BY <1>1, InductiveHolds, PTL

(* Whoever reads succeeded or cancelled finds the three files of this run. *)
THEOREM VerdictStoredHolds == Spec => []VerdictStored
  <1>1. Inductive => VerdictStored
    <2> SUFFICES ASSUME Inductive, NEW j \in Jobs, registry[j] # None,
                        status[registry[j]] \in {"succeeded", "cancelled"}, NEW f \in Files
                 PROVE  record[j][f] = Run(registry[j])
      BY DEF VerdictStored
    <2>1. registry[j] \in Cells /\ job[registry[j]] = j
      BY DEF Inductive, TypeOK, Wired
    <2>2. pc[registry[j]] = "done"
      BY <2>1 DEF Inductive, Staged, IsTerminal
    <2>3. Written(registry[j]) = Files
      BY <2>2 DEF Written
    <2>4. QED
      BY <2>1, <2>3 DEF Inductive, Kept
  <1>2. QED
    BY <1>1, InductiveHolds, PTL

(* ... and they are complete: the leader is gone, the pipes are closed.    *)
THEOREM OutputCompleteHolds == Spec => []OutputComplete
  <1>1. Inductive => OutputComplete
    BY DEF Inductive, Grouped, OutputComplete
  <1>2. QED
    BY <1>1, InductiveHolds, PTL

(* A final status survives everything but a restart.                       *)
THEOREM VerdictFinalHolds == Spec => VerdictFinal
  <1> DEFINE Final(j) == LET c == registry[j] IN
                c # None /\ IsTerminal(status[c]) /\ life' = life =>
                    registry'[j] = c /\ status'[c] = status[c]
  <1>1. ASSUME Inductive, Next, NEW j \in Jobs, registry[j] # None,
               IsTerminal(status[registry[j]]), life' = life
        PROVE  registry'[j] = registry[j] /\ status'[registry[j]] = status[registry[j]]
    <2>1. /\ registry[j] \in Cells /\ job[registry[j]] = j /\ pc[registry[j]] = "done"
          /\ pc \in [Cells -> Steps] /\ registry \in [Jobs -> Cells \cup {None}]
          /\ status \in [Cells -> JobLifecycle]
      BY <1>1 DEF Inductive, TypeOK, Wired, Staged
    <2> USE <1>1, <2>1 DEF Goto, SetStatus, cellVars, workVars, groupVars
    <2>2. ASSUME NEW k \in Jobs, Cancel(k) \/ \E c \in Cells : Insert(k, c)
          PROVE  registry'[j] = registry[j] /\ status'[registry[j]] = status[registry[j]]
      BY <2>2 DEF Cancel, Insert, NewId
    <2>3. ASSUME NEW c \in Cells, SpawnWorker(c) \/ SpawnWorkerFailed(c)
          PROVE  registry'[j] = registry[j] /\ status'[registry[j]] = status[registry[j]]
      BY <2>3 DEF SpawnWorker, SpawnWorkerFailed, Inductive, Wired
    <2>4. ASSUME NEW c \in Cells, Worker(c) \/ ReaderFailed(c)
          PROVE  registry'[j] = registry[j] /\ status'[registry[j]] = status[registry[j]]
      BY <2>4 DEF Worker, ReaderFailed, FailFrom, BeginJob, CancelledEarly, SpawnChild,
         ReapChild, TerminateGroup, ReapTerminated, KillGroup, JoinReaders, WriteFile,
         WriteFailed, FinishJob, Files
    <2>5. ASSUME NEW c \in Cells,
                 \/ \E exit \in {"ok", "bad"} : LeaderExit(c, exit)
                 \/ \E h \in Heirs : Fork(c, h) \/ HeirExit(c, h)
          PROVE  registry'[j] = registry[j] /\ status'[registry[j]] = status[registry[j]]
      BY <2>5 DEF LeaderExit, Fork, HeirExit
    <2>6. ~Restart
      BY LifeAssumption DEF Restart, Inductive, TypeOK
    <2>7. QED
      BY <2>2, <2>3, <2>4, <2>5, <2>6 DEF Next
  <1>2. Inductive /\ [Next]_vars => [\A j \in Jobs : Final(j)]_vars
    BY <1>1
  <1>3. QED
    BY <1>2, InductiveHolds, PTL DEF Spec, VerdictFinal
-----------------------------------------------------------------------------
(* The job registry implements JobContract.                                *)

LEMMA InitContract == Init => Contract!ContractInit
  BY DEF Init, Contract!ContractInit, ContractPhase, Asked, Stored, Known

(* What callers can see depends on these variables alone.                  *)
LEMMA InvisibleStep ==
    ASSUME UNCHANGED <<registry, status, token, record, life>>
    PROVE  UNCHANGED Contract!contractVars
  <1>1. ContractPhase' = ContractPhase
    BY DEF ContractPhase, Known
  <1>2. Asked' = Asked
    BY DEF Asked, Known
  <1>3. Stored' = Stored
    BY DEF Stored, Known, Run
  <1>4. QED
    BY <1>1, <1>2, <1>3 DEF Contract!contractVars

(* A worker's cell is the one its identifier names.                        *)
LEMMA WorkerCell ==
    ASSUME Inductive, NEW c \in Cells, pc[c] # "none"
    PROVE  /\ job[c] \in Jobs /\ registry[job[c]] = c /\ Known(job[c])
           /\ \A j \in Jobs : registry[j] = c => j = job[c]
  BY NothingAssumption DEF Inductive, TypeOK, Wired, Known

(* Setting the status of a cell moves the phase of its identifier.         *)
LEMMA StatusStep ==
    ASSUME Inductive, NEW c \in Cells, pc[c] # "none", NEW s, SetStatus(c, s),
           UNCHANGED <<registry, token, record, life>>
    PROVE  /\ Contract!Move(job[c], status[c], s)
           /\ Asked' = Asked /\ Stored' = Stored
  <1>1. /\ job[c] \in Jobs /\ registry[job[c]] = c /\ Known(job[c])
        /\ \A j \in Jobs : registry[j] = c => j = job[c]
    BY WorkerCell
  <1>2. /\ \A d \in Cells : d # c => status'[d] = status[d]
        /\ status'[c] = s
        /\ \A j \in Jobs : Known(j) => registry[j] \in Cells
    BY DEF SetStatus, Inductive, TypeOK, Known
  <1>3. ContractPhase[job[c]] = status[c] /\ ContractPhase'[job[c]] = s
    BY <1>1, <1>2 DEF ContractPhase, Known
  <1>4. \A j \in Jobs : j # job[c] => ContractPhase'[j] = ContractPhase[j]
    BY <1>1, <1>2 DEF ContractPhase, Known
  <1>5. /\ ContractPhase = [j \in Jobs |-> ContractPhase[j]]
        /\ ContractPhase' = [j \in Jobs |-> ContractPhase'[j]]
    BY DEF ContractPhase
  <1>6. ContractPhase' = [ContractPhase EXCEPT ![job[c]] = s]
    BY <1>1, <1>3, <1>4, <1>5
  <1>7. Asked' = Asked /\ Stored' = Stored
    BY DEF Asked, Stored, Known, Run
  <1>8. QED
    BY <1>3, <1>6, <1>7 DEF Contract!Move

LEMMA FailImplements ==
    ASSUME Inductive, NEW c \in Cells, NEW step \in Steps \ {"none", "inserted", "queued", "done"},
           FailFrom(c, step)
    PROVE  Contract!Finish(job[c], "failed")
  <1>1. pc[c] = step /\ status[c] = "running"
    BY DEF FailFrom, Goto, Inductive, Staged, TypeOK, JobLifecycle, IsTerminal
  <1>2. Contract!Move(job[c], "running", "failed") /\ Asked' = Asked /\ Stored' = Stored
    BY <1>1, StatusStep DEF FailFrom, groupVars
  <1>3. QED
    BY <1>2 DEF Contract!Finish

LEMMA FinishImplements ==
    ASSUME Inductive, NEW c \in Cells, FinishJob(c)
    PROVE  Contract!Finish(job[c], outcome[c])
  <1>1. pc[c] = "finish" /\ status[c] = "running"
    BY DEF FinishJob, Goto, Inductive, Staged, TypeOK, JobLifecycle, IsTerminal
  <1>2. Contract!Move(job[c], "running", outcome[c]) /\ Asked' = Asked /\ Stored' = Stored
    BY <1>1, StatusStep DEF FinishJob, groupVars
  <1>3. job[c] \in Jobs /\ registry[job[c]] = c /\ Known(job[c])
    BY <1>1, WorkerCell
  <1>4. outcome[c] = "cancelled" => job[c] \in Asked
    BY <1>3 DEF Inductive, Staged, Asked
  <1>5. job[c] \in Stored
    <2>1. Written(c) = Files
      BY <1>1 DEF Written
    <2>2. QED
      BY <1>3, <2>1 DEF Inductive, Kept, Stored
  <1>6. QED
    BY <1>2, <1>4, <1>5 DEF Contract!Finish

(* The third file completes the record.                                    *)
LEMMA WriteImplements ==
    ASSUME Inductive, NEW c \in Cells, NEW f \in Files, WriteFile(c, f)
    PROVE  Contract!Store(job[c]) \/ UNCHANGED Contract!contractVars
  <1>1. pc[c] = f /\ status[c] = "running"
    BY DEF WriteFile, Goto, Inductive, Staged, TypeOK, JobLifecycle, IsTerminal, Files
  <1>2. /\ job[c] \in Jobs /\ registry[job[c]] = c /\ Known(job[c])
        /\ \A j \in Jobs : registry[j] = c => j = job[c]
    BY <1>1, WorkerCell DEF Files
  <1>3. /\ UNCHANGED <<registry, status, token, life>>
        /\ \A j \in Jobs : j # job[c] => record'[j] = record[j]
        /\ \A g \in Files : g # f => record'[job[c]][g] = record[job[c]][g]
        /\ record'[job[c]][f] = Run(c)
    BY <1>2 DEF WriteFile, cellVars, Inductive, TypeOK
  <1>4. ContractPhase' = ContractPhase /\ Asked' = Asked
    BY <1>3 DEF ContractPhase, Asked, Known
  <1>5. \A j \in Jobs : j # job[c] => (j \in Stored' <=> j \in Stored)
    BY <1>3 DEF Stored, Known, Run
  <1>6. CASE f = "stderr"
    <2>1. Written(c) = {"json", "stdout"}
      BY <1>1, <1>6 DEF Written
    <2>2. \A g \in Files : record'[job[c]][g] = Run(c)'
      BY <1>3, <1>6, <2>1 DEF Inductive, Kept, Files, Run
    <2>3. job[c] \in Stored'
      BY <1>2, <1>3, <2>2 DEF Stored, Known
    <2>4. Stored' = Stored \cup {job[c]}
      BY <1>2, <1>5, <2>3 DEF Stored
    <2>5. ContractPhase[job[c]] = "running"
      BY <1>1, <1>2 DEF ContractPhase
    <2>6. QED
      BY <1>4, <2>4, <2>5 DEF Contract!Store
  <1>7. CASE f # "stderr"
    <2>1. record[job[c]]["stderr"] # Run(c)
      BY <1>1, <1>2, <1>7 DEF Inductive, Fresh, Files
    <2>2. job[c] \notin Stored /\ job[c] \notin Stored'
      BY <1>2, <1>3, <1>7, <2>1 DEF Stored, Files, Run
    <2>3. Stored' = Stored
      BY <1>5, <2>2 DEF Stored
    <2>4. QED
      BY <1>4, <2>3 DEF Contract!contractVars
  <1>8. QED
    BY <1>6, <1>7

LEMMA WorkerImplements ==
    ASSUME Inductive, NEW c \in Cells, Worker(c) \/ ReaderFailed(c)
    PROVE  \/ UNCHANGED Contract!contractVars
           \/ Contract!Begin(job[c]) \/ Contract!Store(job[c])
           \/ \E verdict \in JobState : Contract!Finish(job[c], verdict)
  <1>1. CASE BeginJob(c)
    <2>1. pc[c] = "queued" /\ status[c] = "queued"
      BY <1>1 DEF BeginJob, Goto, Inductive, Staged
    <2>2. Contract!Move(job[c], "queued", "running") /\ Asked' = Asked /\ Stored' = Stored
      BY <1>1, <2>1, StatusStep DEF BeginJob, groupVars
    <2>3. QED
      BY <2>2 DEF Contract!Begin
  <1>2. CASE \/ CancelledEarly(c) \/ ReapChild(c) \/ TerminateGroup(c) \/ ReapTerminated(c)
             \/ KillGroup(c) \/ JoinReaders(c)
    BY <1>2, InvisibleStep DEF CancelledEarly, ReapChild, TerminateGroup, ReapTerminated,
       KillGroup, JoinReaders, cellVars
  <1>3. CASE SpawnChild(c)
    <2>1. CASE FailFrom(c, "start")
      <3>1. "start" \in Steps \ {"none", "inserted", "queued", "done"}
        BY DEF Steps
      <3>2. QED
        BY <2>1, <3>1, FailImplements DEF JobState
    <2>2. CASE ~FailFrom(c, "start")
      BY <1>3, <2>2, InvisibleStep DEF SpawnChild, cellVars
    <2>3. QED
      BY <2>1, <2>2
  <1>4. CASE ReaderFailed(c)
    <2>1. "join" \in Steps \ {"none", "inserted", "queued", "done"}
      BY DEF Steps
    <2>2. QED
      BY <1>4, <2>1, FailImplements DEF ReaderFailed, JobState
  <1>5. ASSUME NEW f \in Files, WriteFile(c, f)
        PROVE  Contract!Store(job[c]) \/ UNCHANGED Contract!contractVars
    BY <1>5, WriteImplements
  <1>6. ASSUME NEW f \in Files, WriteFailed(c, f)
        PROVE  Contract!Finish(job[c], "failed")
    <2>1. f \in Steps \ {"none", "inserted", "queued", "done"}
      BY DEF Steps, Files
    <2>2. QED
      BY <1>6, <2>1, FailImplements DEF WriteFailed
  <1>7. CASE FinishJob(c)
    <2>1. outcome[c] \in JobState
      BY <1>7 DEF FinishJob, Goto, Inductive, Staged
    <2>2. QED
      BY <1>7, <2>1, FinishImplements
  <1>8. QED
    BY <1>1, <1>2, <1>3, <1>4, <1>5, <1>6, <1>7 DEF Worker, JobState

(* Callers: a new identifier, its removal, and a request to cancel.        *)
LEMMA InsertImplements ==
    ASSUME Inductive, NEW j \in Jobs, NEW c \in Cells, Insert(j, c)
    PROVE  Contract!Accept(j)
  <1>1. /\ registry[j] = None /\ pc[c] = "none" /\ status[c] = "queued" /\ ~token[c]
        /\ \A f \in Files : record[j][f] # Run(c)
        /\ c # None
    BY NothingAssumption DEF Insert, NewId, Inductive, Staged, Fresh
  <1>2. /\ registry'[j] = c /\ UNCHANGED <<status, token, record, life>>
        /\ \A k \in Jobs : k # j => registry'[k] = registry[k]
    BY DEF Insert, Inductive, TypeOK
  <1>3. ContractPhase[j] = "unknown" /\ ContractPhase'[j] = "queued"
    BY <1>1, <1>2 DEF ContractPhase, Known
  <1>4. \A k \in Jobs : k # j => ContractPhase'[k] = ContractPhase[k]
    BY <1>2 DEF ContractPhase, Known
  <1>5. /\ ContractPhase = [k \in Jobs |-> ContractPhase[k]]
        /\ ContractPhase' = [k \in Jobs |-> ContractPhase'[k]]
    BY DEF ContractPhase
  <1>6. ContractPhase' = [ContractPhase EXCEPT ![j] = "queued"]
    BY <1>3, <1>4, <1>5
  <1>7. Asked' = Asked
    BY <1>1, <1>2 DEF Asked, Known
  <1>8. Stored' = Stored
    BY <1>1, <1>2 DEF Stored, Known, Run, Files
  <1>9. QED
    BY <1>3, <1>6, <1>7, <1>8 DEF Contract!Accept, Contract!Move

LEMMA RemoveImplements ==
    ASSUME Inductive, NEW c \in Cells, SpawnWorkerFailed(c)
    PROVE  job[c] \in Jobs /\ Contract!Drop(job[c])
  <1>1. /\ pc[c] = "inserted" /\ status[c] = "queued"
        /\ job[c] \in Jobs /\ registry[job[c]] = c /\ Known(job[c])
        /\ \A j \in Jobs : registry[j] = c => j = job[c]
    BY WorkerCell DEF SpawnWorkerFailed, Inductive, Staged
  <1>2. /\ registry'[job[c]] = None /\ UNCHANGED <<status, record, life>>
        /\ \A k \in Jobs : k # job[c] => registry'[k] = registry[k]
        /\ \A d \in Cells : d # c => token'[d] = token[d]
    BY <1>1 DEF SpawnWorkerFailed, Inductive, TypeOK
  <1>3. ContractPhase[job[c]] = "queued" /\ ContractPhase'[job[c]] = "unknown"
    BY <1>1, <1>2 DEF ContractPhase, Known
  <1>4. \A k \in Jobs : k # job[c] => ContractPhase'[k] = ContractPhase[k]
    BY <1>2 DEF ContractPhase, Known
  <1>5. /\ ContractPhase = [k \in Jobs |-> ContractPhase[k]]
        /\ ContractPhase' = [k \in Jobs |-> ContractPhase'[k]]
    BY DEF ContractPhase
  <1>6. ContractPhase' = [ContractPhase EXCEPT ![job[c]] = "unknown"]
    BY <1>1, <1>3, <1>4, <1>5
  <1>7. Asked' = Asked \ {job[c]}
    <2>1. \A k \in Jobs : Known(k) => registry[k] \in Cells
      BY DEF Inductive, TypeOK, Known
    <2>2. job[c] \notin Asked'
      BY <1>2 DEF Asked, Known
    <2>3. \A k \in Jobs : k # job[c] => (k \in Asked' <=> k \in Asked)
      BY <1>1, <1>2, <2>1 DEF Asked, Known
    <2>4. QED
      BY <2>2, <2>3 DEF Asked
  <1>8. Stored' = Stored
    <2>1. \A f \in Files : record[job[c]][f] # Run(c)
      BY <1>1 DEF Inductive, Fresh
    <2>2. job[c] \notin Stored /\ job[c] \notin Stored'
      BY <1>1, <1>2, <2>1 DEF Stored, Known, Files
    <2>3. \A k \in Jobs : k # job[c] => (k \in Stored' <=> k \in Stored)
      BY <1>2 DEF Stored, Known, Run
    <2>4. QED
      BY <2>2, <2>3 DEF Stored
  <1>9. QED
    BY <1>1, <1>3, <1>6, <1>7, <1>8 DEF Contract!Drop, Contract!Move

LEMMA CancelImplements ==
    ASSUME Inductive, NEW j \in Jobs, Cancel(j)
    PROVE  Contract!Ask(j)
  <1>1. /\ Known(j) /\ registry[j] \in Cells
        /\ \A k \in Jobs : registry[k] = registry[j] => k = j
        /\ \A k \in Jobs : Known(k) => registry[k] \in Cells
    BY DEF Cancel, Known, Inductive, TypeOK, Wired
  <1>2. /\ token'[registry[j]] /\ UNCHANGED <<registry, status, record, life>>
        /\ \A d \in Cells : d # registry[j] => token'[d] = token[d]
    BY <1>1 DEF Cancel, Inductive, TypeOK
  <1>3. ContractPhase' = ContractPhase /\ Stored' = Stored
    BY <1>2 DEF ContractPhase, Stored, Known, Run
  <1>4. ContractPhase[j] # "unknown"
    BY <1>1 DEF ContractPhase, Inductive, TypeOK, JobLifecycle
  <1>5. Asked' = Asked \cup {j}
    <2>1. j \in Asked'
      BY <1>1, <1>2 DEF Asked, Known
    <2>2. \A k \in Jobs : k # j => (k \in Asked' <=> k \in Asked)
      BY <1>1, <1>2 DEF Asked, Known
    <2>3. QED
      BY <2>1, <2>2 DEF Asked
  <1>6. QED
    BY <1>3, <1>4, <1>5 DEF Contract!Ask

LEMMA RestartImplements == Restart => Contract!Restart
  BY DEF Restart, Contract!Restart, ContractPhase, Asked, Stored, Known

(* Every behaviour of the registry, its workers and the processes is one   *)
(* of JobContract.                                                         *)
THEOREM ContractImplemented == Spec => ImplementsContract
  <1>1. Inductive /\ [Next]_vars => [Contract!ContractNext]_(Contract!contractVars)
    <2> SUFFICES ASSUME Inductive, [Next]_vars
                 PROVE  Contract!ContractNext \/ UNCHANGED Contract!contractVars
      OBVIOUS
    <2>1. ASSUME NEW j \in Jobs, Cancel(j) \/ \E c \in Cells : Insert(j, c)
          PROVE  Contract!ContractNext
      BY <2>1, CancelImplements, InsertImplements DEF Contract!ContractNext
    <2>2. ASSUME NEW c \in Cells, SpawnWorkerFailed(c) PROVE Contract!ContractNext
      BY <2>2, RemoveImplements DEF Contract!ContractNext
    <2>3. ASSUME NEW c \in Cells, Worker(c) \/ ReaderFailed(c)
          PROVE  Contract!ContractNext \/ UNCHANGED Contract!contractVars
      <3>1. job[c] \in Jobs
        <4>1. pc[c] # "none"
          BY <2>3 DEF Worker, ReaderFailed, FailFrom, BeginJob, CancelledEarly, SpawnChild,
             ReapChild, TerminateGroup, ReapTerminated, KillGroup, JoinReaders, WriteFile,
             WriteFailed, FinishJob, Goto, Files
        <4>2. QED
          BY <4>1, WorkerCell
      <3>2. QED
        BY <2>3, <3>1, WorkerImplements DEF Contract!ContractNext, JobState
    <2>4. ASSUME NEW c \in Cells,
                 \/ SpawnWorker(c)
                 \/ \E exit \in {"ok", "bad"} : LeaderExit(c, exit)
                 \/ \E h \in Heirs : Fork(c, h) \/ HeirExit(c, h)
          PROVE  UNCHANGED Contract!contractVars
      BY <2>4, InvisibleStep DEF SpawnWorker, LeaderExit, Fork, HeirExit, cellVars
    <2>5. CASE UNCHANGED vars
      BY <2>5, InvisibleStep DEF vars, cellVars
    <2>6. QED
      BY <2>1, <2>2, <2>3, <2>4, <2>5, RestartImplements DEF Next, Contract!ContractNext
  <1>2. QED
    BY <1>1, InitContract, InductiveHolds, PTL DEF Spec, ImplementsContract,
       Contract!ContractSpec
=============================================================================
