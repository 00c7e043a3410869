-------------------------- MODULE TaskEvidenceProofs --------------------------
(***************************************************************************)
(* The policies of a turn, which share no state.  First the verdict and    *)
(* the records of a task, for any files, any number of tasks and any       *)
(* number of attempts at repair (TaskEvidence); in the last two sections   *)
(* the progress policy, for any calls, batches and streaks (ToolStall).    *)
(***************************************************************************)
EXTENDS TaskEvidence, ToolStall, FiniteSetTheorems, WellFoundedInduction, TLAPS

\* Everything touched since the last verification is excused.
Quiet == history.touched \subseteq history.cleaned \cup history.unseen

\* A verification that is current, or the absence of counted mutations, means
\* that nothing has changed unnoticed.
EvidenceInv ==
  /\ test # NoTest => test.version <= version
  /\ InTask /\ test # NoTest /\ test.version = version => Quiet
  /\ InTask /\ ~HasTaskMutations => Quiet

\* A created file of the session that existed before was written anew, and a
\* file that the task found and that is gone was deleted.  No
\* file is both created and deleted in the task.
OriginInv ==
  /\ task.created \cap task.deleted = {}
  /\ session.created \cap Existing \subseteq history.restored
  /\ InTask => \A f \in history.present :
                 disk[f] = "absent" => f \in history.dropped \cup history.unseen

\* RecordsAgree without the types.
RecordLinks ==
  /\ task.created \subseteq task.changed \cap session.created
  /\ session.created \subseteq session.changed
  /\ task.deleted \subseteq task.changed
  /\ session.deleted \subseteq session.changed
  /\ session.created \cap session.deleted = {}
  /\ \A f \in session.deleted \cup task.deleted :
       disk[f] = "absent" \/ f \in history.unseen
  /\ CleanupIsOwn

Inv == /\ TypeOK /\ EvidenceInv /\ CompletedIsVerified /\ OriginInv
       /\ RecordLinks /\ ChangesAreTracked /\ FailureIsAnnounced

\* A command that is recorded moves the counter.
LEMMA BashMovesVersion ==
  ASSUME TypeOK, NEW targets \in SUBSET Files, NEW ok \in BOOLEAN, RecordBashWrite(targets, ok)
  PROVE  version' \in Nat /\ version' > version
<1> DEFINE paths == BashPaths(targets, ok)
<1>1. paths \subseteq Files
  BY DEF BashPaths
<1>2. IsFiniteSet(paths)
  BY <1>1, FilesAssumption, FS_Subset
<1>3. Cardinality(paths) \in Nat /\ (paths # {} => Cardinality(paths) # 0)
  BY <1>2, FS_CardinalityType, FS_EmptySet
<1>4. version' = version + (IF paths = {} THEN 1 ELSE Cardinality(paths))
  BY DEF RecordBashWrite
<1> HIDE DEF paths
<1> QED BY <1>3, <1>4 DEF TypeOK

\* The helpers keep to their types.
LEMMA ChangedTypes ==
  ASSUME NEW record \in Record, NEW S \in SUBSET Files
  PROVE  Changed(record, S) \in Record /\ Created(record, S) \in Record
BY DEF Changed, Created, Record

LEMMA DeletedTypes ==
  ASSUME NEW record \in Record, NEW f \in Files
  PROVE  Forgotten(record, f) \in Record /\ Deleted(record, f) \in Record
BY DEF Forgotten, Deleted, Record

LEMMA TouchType ==
  ASSUME history \in History, NEW S \in SUBSET Files
  PROVE  Touch(S) \in History
BY DEF Touch, History

LEMMA HistoryTypes ==
  ASSUME NEW h \in History, NEW S \in SUBSET Files
  PROVE  /\ [h EXCEPT !.unseen = @ \cup S] \in History
         /\ [h EXCEPT !.cleaned = @ \cup S] \in History
         /\ [h EXCEPT !.dropped = @ \cup S] \in History
         /\ [h EXCEPT !.restored = @ \cup S] \in History
BY DEF History

-----------------------------------------------------------------------------
(* Every step keeps the invariant.                                         *)

\* Types.
LEMMA TypeStep ==
  ASSUME Inv, [Next]_vars
  PROVE  TypeOK'
<1> USE DEF Inv
<1>1. ASSUME NEW f \in Files, WriteNew(f)
      PROVE  TypeOK'
  <2>1. Touch({f}) \in History /\ {f} \in SUBSET Files
    BY <1>1, TouchType DEF TypeOK
  <2>2. history' \in History
    <3>1. CASE f \in Existing
      BY <1>1, <2>1, <3>1, HistoryTypes DEF WriteNew
    <3>2. CASE f \notin Existing
      BY <1>1, <2>1, <3>2 DEF WriteNew, History
    <3> QED BY <3>1, <3>2
  <2>3. session' \in Record /\ task' \in Record
    BY <1>1, <2>1, ChangedTypes, DeletedTypes DEF WriteNew, TypeOK
  <2>4. disk' \in [Files -> Content]
    BY <1>1 DEF WriteNew, Content, TypeOK
  <2>5. version' \in Nat /\ start' \in 0..version'
    BY <1>1 DEF WriteNew, Call, TypeOK
  <2> QED BY <1>1, <2>2, <2>3, <2>4, <2>5 DEF WriteNew, Call, TypeOK, InTask
<1>2. ASSUME NEW f \in Files, Rewrite(f)
      PROVE  TypeOK'
  <2>1. Touch({f}) \in History /\ {f} \in SUBSET Files
    BY <1>2, TouchType DEF TypeOK
  <2>2. history' \in History
    BY <1>2, <2>1, HistoryTypes DEF Rewrite
  <2>3. session' \in Record /\ task' \in Record
    BY <1>2, <2>1, ChangedTypes, DeletedTypes DEF Rewrite, TypeOK
  <2>4. disk' \in [Files -> Content]
    BY <1>2 DEF Rewrite, Content, TypeOK
  <2>5. version' \in Nat /\ start' \in 0..version'
    BY <1>2 DEF Rewrite, Call, TypeOK
  <2> QED BY <1>2, <2>2, <2>3, <2>4, <2>5 DEF Rewrite, Call, TypeOK, InTask
<1>3. ASSUME NEW f \in Files, WriteUnchanged(f)
      PROVE  TypeOK'
  BY <1>3 DEF WriteUnchanged, Call, TypeOK, InTask, Record, History, Content, Terminal
<1>4. ASSUME NEW f \in Files, DeleteFile(f)
      PROVE  TypeOK'
  <2>1. Touch({f}) \in History /\ {f} \in SUBSET Files
    BY <1>4, TouchType DEF TypeOK
  <2>2. history' \in History
    BY <1>4, <2>1, HistoryTypes DEF DeleteFile
  <2>3. session' \in Record /\ task' \in Record
    BY <1>4, <2>1, ChangedTypes, DeletedTypes DEF DeleteFile, SessionAfterDelete, TaskAfterDelete, TypeOK
  <2>4. disk' \in [Files -> Content]
    BY <1>4 DEF DeleteFile, Content, TypeOK
  <2>5. version' \in Nat /\ start' \in 0..version'
    BY <1>4 DEF DeleteFile, Call, VersionAfterDelete, TypeOK
  <2> QED BY <1>4, <2>2, <2>3, <2>4, <2>5 DEF DeleteFile, Call, TypeOK, InTask
<1>5. ASSUME NEW f \in Files, FailsHalfway(f)
      PROVE  TypeOK'
  BY <1>5
     DEF FailsHalfway, Call, Touch, TypeOK, InTask, Record, History, Content,
         Terminal
<1>6. ASSUME NEW f \in Files, NEW content \in {"absent", "new"}, UnseenWrite(f, content)
      PROVE  TypeOK'
  BY <1>6
     DEF UnseenWrite, Call, Touch, TypeOK, InTask, Record, History, Content, Terminal
<1>7. ASSUME NEW f \in Files, NEW content \in {"absent", "new"}, InterruptedCall(f, content)
      PROVE  TypeOK'
  BY <1>7
     DEF InterruptedCall, Touch, recorded, TypeOK, InTask, Record, History, Content,
         Terminal
<1>8. CASE MutationFails
  BY <1>8 DEF MutationFails, Call, TypeOK, InTask, Record, History, Content, Terminal
<1>9. ASSUME NEW targets \in SUBSET Files, NEW written \in SUBSET Files,
             NEW ok \in BOOLEAN, BashWrite(targets, written, ok)
      PROVE  TypeOK'
  <2>1. version' \in Nat /\ version' > version
    BY <1>9, BashMovesVersion DEF BashWrite
  <2>2. BashPaths(targets, ok) \in SUBSET Files
    BY DEF BashPaths
  <2>3. session' \in Record /\ task' \in Record
    <3>1. /\ session' = Changed(session, BashPaths(targets, ok))
          /\ task' = Changed(task, BashPaths(targets, ok))
      BY <1>9 DEF BashWrite, RecordBashWrite
    <3> QED BY <2>2, <3>1, ChangedTypes DEF TypeOK
  <2>4. Touch(written) \in History /\ written \ targets \in SUBSET Files
    BY TouchType DEF TypeOK
  <2>5. history' \in History
    BY <1>9, <2>4, HistoryTypes DEF BashWrite
  <2>6. disk' \in [Files -> Content]
    BY <1>9 DEF BashWrite, Content, TypeOK
  <2> QED BY <1>9, <2>1, <2>3, <2>5, <2>6 DEF BashWrite, Call, TypeOK, InTask
<1>10. ASSUME NEW targets \in SUBSET Files, RefusedBashWrite(targets)
      PROVE  TypeOK'
  <2>1. version' \in Nat /\ version' > version
    BY <1>10, BashMovesVersion DEF RefusedBashWrite
  <2>2. BashPaths(targets, FALSE) \in SUBSET Files
    BY DEF BashPaths
  <2>3. session' \in Record /\ task' \in Record
    <3>1. /\ session' = Changed(session, BashPaths(targets, FALSE))
          /\ task' = Changed(task, BashPaths(targets, FALSE))
      BY <1>10 DEF RefusedBashWrite, RecordBashWrite
    <3> QED BY <2>2, <3>1, ChangedTypes DEF TypeOK
  <2> QED BY <1>10, <2>1, <2>3 DEF RefusedBashWrite, Call, TypeOK, InTask
<1>11. ASSUME NEW ok \in BOOLEAN, Verify(ok)
      PROVE  TypeOK'
  BY <1>11 DEF Verify, Call, Test, TypeOK, InTask, Record, History, Content, Terminal
<1>12. CASE OtherCall
  BY <1>12 DEF OtherCall, Call, TypeOK, InTask, Record, History, Content, Terminal
<1>13. CASE EndBatch
  <2>1. test' \in Test
    BY <1>13 DEF EndBatch, ShouldInjectRetry, Test, TypeOK
  <2>2. repairs' \in 0..MaxRepairs
    BY <1>13, BoundsAssumption DEF EndBatch, ShouldInjectRetry, TypeOK
  <2> QED BY <1>13, <2>1, <2>2 DEF EndBatch, TypeOK, InTask
<1>14. CASE EndBatchForPlan
  BY <1>14
     DEF EndBatchForPlan, recorded, ShouldInjectRetry, Test, TypeOK, InTask, Record,
         History, Content, Terminal
<1>15. ASSUME NEW text \in BOOLEAN, Final(text)
      PROVE  TypeOK'
  BY <1>15 DEF Final, recorded, TypeOK, InTask, Record, History, Content, Terminal
<1>16. CASE Stop
  BY <1>16 DEF Stop, recorded, TypeOK, InTask, Record, History, Content, Terminal
<1>17. CASE BeginTask
  <2>1. history' \in History
    BY <1>17, FilesAssumption DEF BeginTask, FreshHistory, History, Present, TypeOK
  <2>2. task' \in Record /\ test' \in Test /\ repairs' \in 0..MaxRepairs /\ start' \in 0..version'
    BY <1>17, BoundsAssumption DEF BeginTask, ResetTaskState, EmptyRecord, Record, Test, TypeOK
  <2>3. tasks' \in Nat /\ session' \in Record /\ version' \in Nat
    BY <1>17 DEF BeginTask, TypeOK
  <2>4. failure' \in BOOLEAN /\ missed' \in BOOLEAN /\ batch' \in BOOLEAN /\ status' = "running"
    BY <1>17 DEF BeginTask, ResetTaskState, TypeOK
  <2> QED BY <1>17, <2>1, <2>2, <2>3, <2>4 DEF BeginTask, TypeOK
<1>18. CASE SessionOver
  BY <1>18
     DEF SessionOver, vars, recorded, TypeOK, InTask, Record, History, Content,
         Terminal
<1>19. CASE UNCHANGED vars
  BY <1>19 DEF TypeOK, vars, recorded, TypeOK, InTask
<1> QED
  BY <1>1, <1>2, <1>3, <1>4, <1>5, <1>6, <1>7, <1>8, <1>9, <1>10, <1>11, <1>12, <1>13,
     <1>14, <1>15, <1>16, <1>17, <1>18, <1>19 DEF Next

\* What a current verification means.
LEMMA EvidenceStep ==
  ASSUME Inv, [Next]_vars
  PROVE  EvidenceInv'
<1> USE DEF Inv
<1>1. ASSUME NEW f \in Files, WriteNew(f)
      PROVE  EvidenceInv'
  BY <1>1
     DEF WriteNew, Call, Touch, EvidenceInv, Quiet, HasTaskMutations, TypeOK, InTask,
         Test, History
<1>2. ASSUME NEW f \in Files, Rewrite(f)
      PROVE  EvidenceInv'
  BY <1>2
     DEF Rewrite, Call, Touch, EvidenceInv, Quiet, HasTaskMutations, TypeOK, InTask,
         Test, History
<1>3. ASSUME NEW f \in Files, WriteUnchanged(f)
      PROVE  EvidenceInv'
  BY <1>3
     DEF WriteUnchanged, Call, EvidenceInv, Quiet, HasTaskMutations, TypeOK, InTask,
         Test, History
<1>4. ASSUME NEW f \in Files, DeleteFile(f)
      PROVE  EvidenceInv'
  BY <1>4
     DEF DeleteFile, Call, Touch, VersionAfterDelete, EvidenceInv, Quiet,
         HasTaskMutations, TypeOK, InTask, Test, History
<1>5. ASSUME NEW f \in Files, FailsHalfway(f)
      PROVE  EvidenceInv'
  BY <1>5
     DEF FailsHalfway, Call, Touch, EvidenceInv, Quiet, HasTaskMutations, TypeOK,
         InTask, Test, History
<1>6. ASSUME NEW f \in Files, NEW content \in {"absent", "new"}, UnseenWrite(f, content)
      PROVE  EvidenceInv'
  BY <1>6
     DEF UnseenWrite, Call, Touch, EvidenceInv, Quiet, HasTaskMutations, TypeOK,
         InTask, Test, History
<1>7. ASSUME NEW f \in Files, NEW content \in {"absent", "new"}, InterruptedCall(f, content)
      PROVE  EvidenceInv'
  BY <1>7
     DEF InterruptedCall, Touch, recorded, EvidenceInv, Quiet, HasTaskMutations,
         TypeOK, InTask, Test, History
<1>8. CASE MutationFails
  BY <1>8
     DEF MutationFails, Call, EvidenceInv, Quiet, HasTaskMutations, TypeOK, InTask,
         Test, History
<1>9. ASSUME NEW targets \in SUBSET Files, NEW written \in SUBSET Files,
             NEW ok \in BOOLEAN, BashWrite(targets, written, ok)
      PROVE  EvidenceInv'
  <2>1. version' \in Nat /\ version' > version
    BY <1>9, BashMovesVersion DEF BashWrite
  <2>2. test' = test /\ start' = start
    BY <1>9 DEF BashWrite, Call
  <2> QED BY <2>1, <2>2 DEF EvidenceInv, HasTaskMutations, TypeOK, Test
<1>10. ASSUME NEW targets \in SUBSET Files, RefusedBashWrite(targets)
      PROVE  EvidenceInv'
  <2>1. version' \in Nat /\ version' > version
    BY <1>10, BashMovesVersion DEF RefusedBashWrite
  <2>2. test' = test /\ start' = start
    BY <1>10 DEF RefusedBashWrite, Call
  <2> QED BY <2>1, <2>2 DEF EvidenceInv, HasTaskMutations, TypeOK, Test
<1>11. ASSUME NEW ok \in BOOLEAN, Verify(ok)
      PROVE  EvidenceInv'
  BY <1>11
     DEF Verify, Call, EvidenceInv, Quiet, HasTaskMutations, TypeOK, InTask, Test,
         History
<1>12. CASE OtherCall
  BY <1>12
     DEF OtherCall, Call, EvidenceInv, Quiet, HasTaskMutations, TypeOK, InTask, Test,
         History
<1>13. CASE EndBatch
  BY <1>13
     DEF EndBatch, recorded, ShouldInjectRetry, EvidenceInv, Quiet, HasTaskMutations,
         TypeOK, InTask, Test, History
<1>14. CASE EndBatchForPlan
  BY <1>14
     DEF EndBatchForPlan, recorded, EvidenceInv, Quiet, HasTaskMutations, TypeOK,
         InTask, Test, History
<1>15. ASSUME NEW text \in BOOLEAN, Final(text)
      PROVE  EvidenceInv'
  BY <1>15
     DEF Final, recorded, EvidenceInv, Quiet, HasTaskMutations, TypeOK, InTask, Test,
         History
<1>16. CASE Stop
  BY <1>16
     DEF Stop, recorded, EvidenceInv, Quiet, HasTaskMutations, TypeOK, InTask, Test,
         History
<1>17. CASE BeginTask
  BY <1>17
     DEF BeginTask, recorded, ResetTaskState, FreshHistory, EvidenceInv, Quiet,
         HasTaskMutations, TypeOK, InTask, Test, History
<1>18. CASE SessionOver
  BY <1>18
     DEF SessionOver, vars, recorded, EvidenceInv, Quiet, HasTaskMutations, TypeOK,
         InTask, Test, History
<1>19. CASE UNCHANGED vars
  BY <1>19 DEF EvidenceInv, vars, recorded, Quiet, HasTaskMutations, TypeOK, InTask
<1> QED
  BY <1>1, <1>2, <1>3, <1>4, <1>5, <1>6, <1>7, <1>8, <1>9, <1>10, <1>11, <1>12, <1>13,
     <1>14, <1>15, <1>16, <1>17, <1>18, <1>19 DEF Next

\* The verdict.
LEMMA CompletedStep ==
  ASSUME Inv, [Next]_vars
  PROVE  CompletedIsVerified'
<1> USE DEF Inv
<1>1. ASSUME NEW f \in Files, WriteNew(f)
      PROVE  CompletedIsVerified'
  BY <1>1 DEF WriteNew, Call, CompletedIsVerified, InTask, HasTaskMutations
<1>2. ASSUME NEW f \in Files, Rewrite(f)
      PROVE  CompletedIsVerified'
  BY <1>2 DEF Rewrite, Call, CompletedIsVerified, InTask, HasTaskMutations
<1>3. ASSUME NEW f \in Files, WriteUnchanged(f)
      PROVE  CompletedIsVerified'
  BY <1>3 DEF WriteUnchanged, Call, CompletedIsVerified, InTask, HasTaskMutations
<1>4. ASSUME NEW f \in Files, DeleteFile(f)
      PROVE  CompletedIsVerified'
  BY <1>4 DEF DeleteFile, Call, CompletedIsVerified, InTask, HasTaskMutations
<1>5. ASSUME NEW f \in Files, FailsHalfway(f)
      PROVE  CompletedIsVerified'
  BY <1>5 DEF FailsHalfway, Call, CompletedIsVerified, InTask, HasTaskMutations
<1>6. ASSUME NEW f \in Files, NEW content \in {"absent", "new"}, UnseenWrite(f, content)
      PROVE  CompletedIsVerified'
  BY <1>6 DEF UnseenWrite, Call, CompletedIsVerified, InTask, HasTaskMutations
<1>7. ASSUME NEW f \in Files, NEW content \in {"absent", "new"}, InterruptedCall(f, content)
      PROVE  CompletedIsVerified'
  BY <1>7 DEF InterruptedCall, recorded, CompletedIsVerified, InTask, HasTaskMutations
<1>8. CASE MutationFails
  BY <1>8 DEF MutationFails, Call, CompletedIsVerified, InTask, HasTaskMutations
<1>9. ASSUME NEW targets \in SUBSET Files, NEW written \in SUBSET Files,
             NEW ok \in BOOLEAN, BashWrite(targets, written, ok)
      PROVE  CompletedIsVerified'
  BY <1>9 DEF BashWrite, Call, CompletedIsVerified, InTask, HasTaskMutations
<1>10. ASSUME NEW targets \in SUBSET Files, RefusedBashWrite(targets)
      PROVE  CompletedIsVerified'
  BY <1>10 DEF RefusedBashWrite, Call, CompletedIsVerified, InTask, HasTaskMutations
<1>11. ASSUME NEW ok \in BOOLEAN, Verify(ok)
      PROVE  CompletedIsVerified'
  BY <1>11 DEF Verify, Call, CompletedIsVerified, InTask, HasTaskMutations
<1>12. CASE OtherCall
  BY <1>12 DEF OtherCall, Call, CompletedIsVerified, InTask, HasTaskMutations
<1>13. CASE EndBatch
  BY <1>13 DEF EndBatch, recorded, CompletedIsVerified, InTask, HasTaskMutations
<1>14. CASE EndBatchForPlan
  BY <1>14 DEF EndBatchForPlan, recorded, CompletedIsVerified, InTask, HasTaskMutations
<1>15. ASSUME NEW text \in BOOLEAN, Final(text)
      PROVE  CompletedIsVerified'
  BY <1>15
     DEF Final, recorded, InferSuccess, EvidenceInv, Quiet, CompletedIsVerified,
         InTask, HasTaskMutations
<1>16. CASE Stop
  BY <1>16 DEF Stop, recorded, CompletedIsVerified, InTask, HasTaskMutations
<1>17. CASE BeginTask
  BY <1>17
     DEF BeginTask, recorded, ResetTaskState, CompletedIsVerified, InTask,
         HasTaskMutations
<1>18. CASE SessionOver
  BY <1>18
     DEF SessionOver, vars, recorded, Terminal, CompletedIsVerified, InTask,
         HasTaskMutations
<1>19. CASE UNCHANGED vars
  BY <1>19 DEF CompletedIsVerified, vars, recorded, InTask, HasTaskMutations
<1> QED
  BY <1>1, <1>2, <1>3, <1>4, <1>5, <1>6, <1>7, <1>8, <1>9, <1>10, <1>11, <1>12, <1>13,
     <1>14, <1>15, <1>16, <1>17, <1>18, <1>19 DEF Next

\* Where files come from.
LEMMA OriginStep ==
  ASSUME Inv, [Next]_vars
  PROVE  OriginInv'
<1> USE DEF Inv
<1>1. ASSUME NEW f \in Files, WriteNew(f)
      PROVE  OriginInv'
  BY <1>1
     DEF WriteNew, Call, Touch, Created, Changed, RecordLinks, CleanupIsOwn,
         OriginInv, TypeOK, InTask, Record, History
<1>2. ASSUME NEW f \in Files, Rewrite(f)
      PROVE  OriginInv'
  BY <1>2 DEF Rewrite, Call, Touch, Changed, OriginInv, TypeOK, InTask, Record, History
<1>3. ASSUME NEW f \in Files, WriteUnchanged(f)
      PROVE  OriginInv'
  BY <1>3 DEF WriteUnchanged, Call, OriginInv, TypeOK, InTask, Record, History
<1>4. ASSUME NEW f \in Files, DeleteFile(f)
      PROVE  OriginInv'
  BY <1>4
     DEF DeleteFile, Call, Touch, SessionAfterDelete, TaskAfterDelete, Forgotten,
         Deleted, RecordLinks, CleanupIsOwn, OriginInv, TypeOK, InTask, Record, History
<1>5. ASSUME NEW f \in Files, FailsHalfway(f)
      PROVE  OriginInv'
  BY <1>5 DEF FailsHalfway, Call, Touch, OriginInv, TypeOK, InTask, Record, History
<1>6. ASSUME NEW f \in Files, NEW content \in {"absent", "new"}, UnseenWrite(f, content)
      PROVE  OriginInv'
  BY <1>6 DEF UnseenWrite, Call, Touch, OriginInv, TypeOK, InTask, Record, History
<1>7. ASSUME NEW f \in Files, NEW content \in {"absent", "new"}, InterruptedCall(f, content)
      PROVE  OriginInv'
  BY <1>7
     DEF InterruptedCall, Touch, recorded, OriginInv, TypeOK, InTask, Record, History
<1>8. CASE MutationFails
  BY <1>8 DEF MutationFails, Call, OriginInv, TypeOK, InTask, Record, History
<1>9. ASSUME NEW targets \in SUBSET Files, NEW written \in SUBSET Files,
             NEW ok \in BOOLEAN, BashWrite(targets, written, ok)
      PROVE  OriginInv'
  BY <1>9
     DEF BashWrite, Call, Touch, RecordBashWrite, Changed, OriginInv, TypeOK, InTask,
         Record, History
<1>10. ASSUME NEW targets \in SUBSET Files, RefusedBashWrite(targets)
      PROVE  OriginInv'
  BY <1>10
     DEF RefusedBashWrite, Call, RecordBashWrite, Changed, OriginInv, TypeOK, InTask,
         Record, History
<1>11. ASSUME NEW ok \in BOOLEAN, Verify(ok)
      PROVE  OriginInv'
  BY <1>11 DEF Verify, Call, OriginInv, TypeOK, InTask, Record, History
<1>12. CASE OtherCall
  BY <1>12 DEF OtherCall, Call, OriginInv, TypeOK, InTask, Record, History
<1>13. CASE EndBatch
  BY <1>13 DEF EndBatch, recorded, OriginInv, TypeOK, InTask, Record, History
<1>14. CASE EndBatchForPlan
  BY <1>14 DEF EndBatchForPlan, recorded, OriginInv, TypeOK, InTask, Record, History
<1>15. ASSUME NEW text \in BOOLEAN, Final(text)
      PROVE  OriginInv'
  BY <1>15 DEF Final, recorded, OriginInv, TypeOK, InTask, Record, History
<1>16. CASE Stop
  BY <1>16 DEF Stop, recorded, OriginInv, TypeOK, InTask, Record, History
<1>17. CASE BeginTask
  BY <1>17
     DEF BeginTask, recorded, ResetTaskState, FreshHistory, EmptyRecord, Present,
         OriginInv, TypeOK, InTask, Record, History
<1>18. CASE SessionOver
  BY <1>18 DEF SessionOver, vars, recorded, OriginInv, TypeOK, InTask, Record, History
<1>19. CASE UNCHANGED vars
  BY <1>19 DEF OriginInv, vars, recorded, TypeOK, InTask
<1> QED
  BY <1>1, <1>2, <1>3, <1>4, <1>5, <1>6, <1>7, <1>8, <1>9, <1>10, <1>11, <1>12, <1>13,
     <1>14, <1>15, <1>16, <1>17, <1>18, <1>19 DEF Next

\* The records and the files.
LEMMA RecordsStep ==
  ASSUME Inv, [Next]_vars
  PROVE  RecordLinks'
<1> USE DEF Inv
<1>1. ASSUME NEW f \in Files, WriteNew(f)
      PROVE  RecordLinks'
  BY <1>1
     DEF WriteNew, Call, Touch, Created, Changed, OriginInv, RecordLinks,
         CleanupIsOwn, InTask, TypeOK, Record, History
<1>2. ASSUME NEW f \in Files, Rewrite(f)
      PROVE  RecordLinks'
  BY <1>2
     DEF Rewrite, Call, Touch, Changed, RecordLinks, CleanupIsOwn, InTask, TypeOK,
         Record, History
<1>3. ASSUME NEW f \in Files, WriteUnchanged(f)
      PROVE  RecordLinks'
  BY <1>3
     DEF WriteUnchanged, Call, RecordLinks, CleanupIsOwn, InTask, TypeOK, Record,
         History
<1>4. ASSUME NEW f \in Files, DeleteFile(f)
      PROVE  RecordLinks'
  <2>1. /\ disk' = [disk EXCEPT ![f] = "absent"]
        /\ history'.unseen = history.unseen /\ history'.present = history.present
        /\ history.dropped \subseteq history'.dropped
    BY <1>4 DEF DeleteFile, Touch, TypeOK, History
  <2>2. \A g \in Files : disk[g] = "absent" => disk'[g] = "absent"
    BY <2>1 DEF TypeOK
  <2>3. disk'[f] = "absent"
    BY <2>1 DEF TypeOK
  <2>4. CASE f \in task.created
    <3>1. session' = Forgotten(session, f) /\ task' = Forgotten(task, f)
      BY <1>4, <2>4 DEF DeleteFile, SessionAfterDelete, TaskAfterDelete
    <3> QED BY <2>1, <2>2, <2>4, <3>1
        DEF RecordLinks, OriginInv, CleanupIsOwn, Forgotten, TypeOK, Record
  <2>5. CASE f \in session.created \ task.created
    <3>1. session' = Forgotten(session, f) /\ task' = Deleted(task, f)
      BY <1>4, <2>5 DEF DeleteFile, SessionAfterDelete, TaskAfterDelete
    <3> QED BY <2>1, <2>2, <2>3, <2>5, <3>1
        DEF RecordLinks, CleanupIsOwn, Forgotten, Deleted, TypeOK, Record
  <2>6. CASE f \notin session.created \cup task.created
    <3>1. session' = Deleted(session, f) /\ task' = Deleted(task, f)
      BY <1>4, <2>6 DEF DeleteFile, SessionAfterDelete, TaskAfterDelete
    <3> QED BY <2>1, <2>2, <2>3, <2>6, <3>1
        DEF RecordLinks, CleanupIsOwn, Deleted, TypeOK, Record
  <2> QED BY <2>4, <2>5, <2>6
<1>5. ASSUME NEW f \in Files, FailsHalfway(f)
      PROVE  RecordLinks'
  BY <1>5
     DEF FailsHalfway, Call, Touch, RecordLinks, CleanupIsOwn, InTask, TypeOK,
         Record, History
<1>6. ASSUME NEW f \in Files, NEW content \in {"absent", "new"}, UnseenWrite(f, content)
      PROVE  RecordLinks'
  BY <1>6
     DEF UnseenWrite, Call, Touch, RecordLinks, CleanupIsOwn, InTask, TypeOK, Record,
         History
<1>7. ASSUME NEW f \in Files, NEW content \in {"absent", "new"}, InterruptedCall(f, content)
      PROVE  RecordLinks'
  BY <1>7
     DEF InterruptedCall, Touch, recorded, RecordLinks, CleanupIsOwn, InTask, TypeOK,
         Record, History
<1>8. CASE MutationFails
  BY <1>8
     DEF MutationFails, Call, RecordLinks, CleanupIsOwn, InTask, TypeOK, Record,
         History
<1>9. ASSUME NEW targets \in SUBSET Files, NEW written \in SUBSET Files,
             NEW ok \in BOOLEAN, BashWrite(targets, written, ok)
      PROVE  RecordLinks'
  BY <1>9
     DEF BashWrite, Call, Touch, RecordBashWrite, Changed, BashPaths, RecordLinks,
         CleanupIsOwn, InTask, TypeOK, Record, History
<1>10. ASSUME NEW targets \in SUBSET Files, RefusedBashWrite(targets)
      PROVE  RecordLinks'
  BY <1>10
     DEF RefusedBashWrite, Call, RecordBashWrite, Changed, RecordLinks, CleanupIsOwn,
         InTask, TypeOK, Record, History
<1>11. ASSUME NEW ok \in BOOLEAN, Verify(ok)
      PROVE  RecordLinks'
  BY <1>11 DEF Verify, Call, RecordLinks, CleanupIsOwn, InTask, TypeOK, Record, History
<1>12. CASE OtherCall
  BY <1>12
     DEF OtherCall, Call, RecordLinks, CleanupIsOwn, InTask, TypeOK, Record, History
<1>13. CASE EndBatch
  BY <1>13
     DEF EndBatch, recorded, RecordLinks, CleanupIsOwn, InTask, TypeOK, Record,
         History
<1>14. CASE EndBatchForPlan
  BY <1>14
     DEF EndBatchForPlan, recorded, RecordLinks, CleanupIsOwn, InTask, TypeOK,
         Record, History
<1>15. ASSUME NEW text \in BOOLEAN, Final(text)
      PROVE  RecordLinks'
  BY <1>15
     DEF Final, recorded, RecordLinks, CleanupIsOwn, InTask, TypeOK, Record, History
<1>16. CASE Stop
  BY <1>16
     DEF Stop, recorded, RecordLinks, CleanupIsOwn, InTask, TypeOK, Record, History
<1>17. CASE BeginTask
  BY <1>17
     DEF BeginTask, recorded, ResetTaskState, FreshHistory, EmptyRecord, RecordLinks,
         CleanupIsOwn, InTask, TypeOK, Record, History
<1>18. CASE SessionOver
  BY <1>18
     DEF SessionOver, vars, recorded, RecordLinks, CleanupIsOwn, InTask, TypeOK,
         Record, History
<1>19. CASE UNCHANGED vars
  BY <1>19 DEF RecordLinks, vars, recorded, CleanupIsOwn, InTask, TypeOK
<1> QED
  BY <1>1, <1>2, <1>3, <1>4, <1>5, <1>6, <1>7, <1>8, <1>9, <1>10, <1>11, <1>12, <1>13,
     <1>14, <1>15, <1>16, <1>17, <1>18, <1>19 DEF Next

\* What was changed is listed.
LEMMA TrackStep ==
  ASSUME Inv, [Next]_vars
  PROVE  ChangesAreTracked'
<1> USE DEF Inv
<1>1. ASSUME NEW f \in Files, WriteNew(f)
      PROVE  ChangesAreTracked'
  BY <1>1
     DEF WriteNew, Call, Touch, Created, Changed, ChangesAreTracked, TypeOK, Record,
         History, Base
<1>2. ASSUME NEW f \in Files, Rewrite(f)
      PROVE  ChangesAreTracked'
  BY <1>2
     DEF Rewrite, Call, Touch, Changed, ChangesAreTracked, TypeOK, Record, History,
         Base
<1>3. ASSUME NEW f \in Files, WriteUnchanged(f)
      PROVE  ChangesAreTracked'
  BY <1>3 DEF WriteUnchanged, Call, ChangesAreTracked, TypeOK, Record, History, Base
<1>4. ASSUME NEW f \in Files, DeleteFile(f)
      PROVE  ChangesAreTracked'
  BY <1>4
     DEF DeleteFile, Call, Touch, SessionAfterDelete, Forgotten, Deleted, OriginInv,
         RecordLinks, ChangesAreTracked, TypeOK, Record, History, Base
<1>5. ASSUME NEW f \in Files, FailsHalfway(f)
      PROVE  ChangesAreTracked'
  BY <1>5
     DEF FailsHalfway, Call, Touch, ChangesAreTracked, TypeOK, Record, History, Base
<1>6. ASSUME NEW f \in Files, NEW content \in {"absent", "new"}, UnseenWrite(f, content)
      PROVE  ChangesAreTracked'
  BY <1>6 DEF UnseenWrite, Call, Touch, ChangesAreTracked, TypeOK, Record, History, Base
<1>7. ASSUME NEW f \in Files, NEW content \in {"absent", "new"}, InterruptedCall(f, content)
      PROVE  ChangesAreTracked'
  BY <1>7
     DEF InterruptedCall, Touch, recorded, ChangesAreTracked, TypeOK, Record,
         History, Base
<1>8. CASE MutationFails
  BY <1>8 DEF MutationFails, Call, ChangesAreTracked, TypeOK, Record, History, Base
<1>9. ASSUME NEW targets \in SUBSET Files, NEW written \in SUBSET Files,
             NEW ok \in BOOLEAN, BashWrite(targets, written, ok)
      PROVE  ChangesAreTracked'
  BY <1>9
     DEF BashWrite, Call, Touch, RecordBashWrite, Changed, BashPaths,
         ChangesAreTracked, TypeOK, Record, History, Base
<1>10. ASSUME NEW targets \in SUBSET Files, RefusedBashWrite(targets)
      PROVE  ChangesAreTracked'
  BY <1>10
     DEF RefusedBashWrite, Call, RecordBashWrite, Changed, ChangesAreTracked, TypeOK,
         Record, History, Base
<1>11. ASSUME NEW ok \in BOOLEAN, Verify(ok)
      PROVE  ChangesAreTracked'
  BY <1>11 DEF Verify, Call, ChangesAreTracked, TypeOK, Record, History, Base
<1>12. CASE OtherCall
  BY <1>12 DEF OtherCall, Call, ChangesAreTracked, TypeOK, Record, History, Base
<1>13. CASE EndBatch
  BY <1>13 DEF EndBatch, recorded, ChangesAreTracked, TypeOK, Record, History, Base
<1>14. CASE EndBatchForPlan
  BY <1>14
     DEF EndBatchForPlan, recorded, ChangesAreTracked, TypeOK, Record, History, Base
<1>15. ASSUME NEW text \in BOOLEAN, Final(text)
      PROVE  ChangesAreTracked'
  BY <1>15 DEF Final, recorded, ChangesAreTracked, TypeOK, Record, History, Base
<1>16. CASE Stop
  BY <1>16 DEF Stop, recorded, ChangesAreTracked, TypeOK, Record, History, Base
<1>17. CASE BeginTask
  BY <1>17
     DEF BeginTask, recorded, ResetTaskState, FreshHistory, EmptyRecord,
         ChangesAreTracked, TypeOK, Record, History, Base
<1>18. CASE SessionOver
  BY <1>18
     DEF SessionOver, vars, recorded, ChangesAreTracked, TypeOK, Record, History,
         Base
<1>19. CASE UNCHANGED vars
  BY <1>19 DEF ChangesAreTracked, vars, recorded, TypeOK
<1> QED
  BY <1>1, <1>2, <1>3, <1>4, <1>5, <1>6, <1>7, <1>8, <1>9, <1>10, <1>11, <1>12, <1>13,
     <1>14, <1>15, <1>16, <1>17, <1>18, <1>19 DEF Next

\* A failed verification is announced.
LEMMA AnnounceStep ==
  ASSUME Inv, [Next]_vars
  PROVE  FailureIsAnnounced'
<1> USE DEF Inv
<1>1. ASSUME NEW f \in Files, WriteNew(f)
      PROVE  FailureIsAnnounced'
  BY <1>1 DEF WriteNew, Call, FailureIsAnnounced, InTask, TypeOK
<1>2. ASSUME NEW f \in Files, Rewrite(f)
      PROVE  FailureIsAnnounced'
  BY <1>2 DEF Rewrite, Call, FailureIsAnnounced, InTask, TypeOK
<1>3. ASSUME NEW f \in Files, WriteUnchanged(f)
      PROVE  FailureIsAnnounced'
  BY <1>3 DEF WriteUnchanged, Call, FailureIsAnnounced, InTask, TypeOK
<1>4. ASSUME NEW f \in Files, DeleteFile(f)
      PROVE  FailureIsAnnounced'
  BY <1>4 DEF DeleteFile, Call, FailureIsAnnounced, InTask, TypeOK
<1>5. ASSUME NEW f \in Files, FailsHalfway(f)
      PROVE  FailureIsAnnounced'
  BY <1>5 DEF FailsHalfway, Call, FailureIsAnnounced, InTask, TypeOK
<1>6. ASSUME NEW f \in Files, NEW content \in {"absent", "new"}, UnseenWrite(f, content)
      PROVE  FailureIsAnnounced'
  BY <1>6 DEF UnseenWrite, Call, FailureIsAnnounced, InTask, TypeOK
<1>7. ASSUME NEW f \in Files, NEW content \in {"absent", "new"}, InterruptedCall(f, content)
      PROVE  FailureIsAnnounced'
  BY <1>7 DEF InterruptedCall, recorded, FailureIsAnnounced, InTask, TypeOK
<1>8. CASE MutationFails
  BY <1>8 DEF MutationFails, Call, FailureIsAnnounced, InTask, TypeOK
<1>9. ASSUME NEW targets \in SUBSET Files, NEW written \in SUBSET Files,
             NEW ok \in BOOLEAN, BashWrite(targets, written, ok)
      PROVE  FailureIsAnnounced'
  BY <1>9 DEF BashWrite, Call, FailureIsAnnounced, InTask, TypeOK
<1>10. ASSUME NEW targets \in SUBSET Files, RefusedBashWrite(targets)
      PROVE  FailureIsAnnounced'
  BY <1>10 DEF RefusedBashWrite, Call, FailureIsAnnounced, InTask, TypeOK
<1>11. ASSUME NEW ok \in BOOLEAN, Verify(ok)
      PROVE  FailureIsAnnounced'
  BY <1>11 DEF Verify, Call, FailureIsAnnounced, InTask, TypeOK
<1>12. CASE OtherCall
  BY <1>12 DEF OtherCall, Call, FailureIsAnnounced, InTask, TypeOK
<1>13. CASE EndBatch
  <2>1. CASE ShouldInjectRetry
    <3>1. test \in [ok : BOOLEAN, version : Nat, injected : BOOLEAN]
      BY <2>1 DEF ShouldInjectRetry, TypeOK, Test
    <3>2. test'.injected
      BY <1>13, <2>1, <3>1 DEF EndBatch
    <3> QED BY <3>2 DEF FailureIsAnnounced
  <2>2. CASE ~ShouldInjectRetry
    <3>1. test' = test /\ repairs' = repairs
      BY <1>13, <2>2 DEF EndBatch
    <3>2. test # NoTest => test.ok \/ test.injected \/ ~(repairs < MaxRepairs)
      BY <2>2 DEF ShouldInjectRetry
    <3>3. ~(repairs < MaxRepairs) => repairs = MaxRepairs
      BY BoundsAssumption DEF TypeOK
    <3> QED BY <3>1, <3>2, <3>3 DEF FailureIsAnnounced
  <2> QED BY <2>1, <2>2
<1>14. CASE EndBatchForPlan
  <2>1. ~missed' => ~ShouldInjectRetry
    BY <1>14 DEF EndBatchForPlan
  <2>2. test' = test /\ repairs' = repairs
    BY <1>14 DEF EndBatchForPlan, recorded
  <2>3. ~ShouldInjectRetry /\ test # NoTest =>
          test.ok \/ test.injected \/ ~(repairs < MaxRepairs)
    BY DEF ShouldInjectRetry
  <2>4. ~(repairs < MaxRepairs) => repairs = MaxRepairs
    BY BoundsAssumption DEF TypeOK
  <2> QED BY <2>1, <2>2, <2>3, <2>4 DEF FailureIsAnnounced
<1>15. ASSUME NEW text \in BOOLEAN, Final(text)
      PROVE  FailureIsAnnounced'
  BY <1>15 DEF Final, recorded, FailureIsAnnounced, InTask, TypeOK
<1>16. CASE Stop
  BY <1>16 DEF Stop, recorded, FailureIsAnnounced, InTask, TypeOK
<1>17. CASE BeginTask
  BY <1>17 DEF BeginTask, recorded, ResetTaskState, FailureIsAnnounced, InTask, TypeOK
<1>18. CASE SessionOver
  BY <1>18 DEF SessionOver, vars, recorded, FailureIsAnnounced, InTask, TypeOK
<1>19. CASE UNCHANGED vars
  BY <1>19 DEF FailureIsAnnounced, vars, recorded, InTask, TypeOK
<1> QED
  BY <1>1, <1>2, <1>3, <1>4, <1>5, <1>6, <1>7, <1>8, <1>9, <1>10, <1>11, <1>12, <1>13,
     <1>14, <1>15, <1>16, <1>17, <1>18, <1>19 DEF Next

-----------------------------------------------------------------------------
(* The theorems.                                                           *)

LEMMA Invariant == Spec => []Inv
<1>1. Init => Inv
  <2> SUFFICES ASSUME Init PROVE Inv
    OBVIOUS
  <2>1. session \in Record /\ task \in Record /\ history \in History
    BY FilesAssumption DEF Init, EmptyRecord, FreshHistory, Record, History
  <2>2. disk \in [Files -> Content] /\ disk = Base
    BY DEF Init, Base, Content
  <2>3. TypeOK
    <3>1. version \in Nat /\ start \in 0..version /\ repairs \in 0..MaxRepairs /\ tasks \in Nat
      BY BoundsAssumption DEF Init
    <3>2. test \in Test /\ failure \in BOOLEAN /\ missed \in BOOLEAN /\ batch \in BOOLEAN
      BY DEF Init, Test
    <3> QED BY <2>1, <2>2, <3>1, <3>2 DEF Init, TypeOK
  <2>4. EvidenceInv /\ CompletedIsVerified /\ OriginInv /\ FailureIsAnnounced
    BY DEF Init, EvidenceInv, CompletedIsVerified, OriginInv, FailureIsAnnounced, InTask,
           EmptyRecord
  <2>5. RecordLinks
    BY DEF Init, RecordLinks, CleanupIsOwn, EmptyRecord
  <2>6. ChangesAreTracked
    BY <2>2 DEF ChangesAreTracked
  <2> QED BY <2>3, <2>4, <2>5, <2>6 DEF Inv
<1>2. Inv /\ [Next]_vars => Inv'
  BY TypeStep, EvidenceStep, CompletedStep, OriginStep, RecordsStep, TrackStep,
     AnnounceStep DEF Inv
<1> QED BY <1>1, <1>2, PTL DEF Spec

\* A completed task was verified after its last known change.
THEOREM VerdictIsBacked == Spec => []CompletedIsVerified
<1>1. Inv => CompletedIsVerified
  BY DEF Inv
<1> QED BY <1>1, Invariant, PTL

\* What differs from the start of the session is listed as changed.
THEOREM TrackingIsComplete == Spec => []ChangesAreTracked
<1>1. Inv => ChangesAreTracked
  BY DEF Inv
<1> QED BY <1>1, Invariant, PTL

\* The records agree with each other and with the files.
THEOREM RecordsAreSound == Spec => []RecordsAgree
<1>1. Inv => RecordsAgree
  BY DEF Inv, RecordLinks, RecordsAgree
<1> QED BY <1>1, Invariant, PTL

\* A verification that fails is put before the model while attempts remain.
THEOREM FailuresAreAnnounced == Spec => []FailureIsAnnounced
<1>1. Inv => FailureIsAnnounced
  BY DEF Inv
<1> QED BY <1>1, Invariant, PTL

-----------------------------------------------------------------------------
(* The failures of a batch.                                                *)

Failing == Calls \X {"contract"}

\* What the failures of a batch may be.
Failures == UNION {[1..n -> Failing] : n \in 1..MaxBatch}

\* The failures among the first n calls.
Among(calls, f, n) ==
  IF n = 0 THEN <<>>
  ELSE IF IsDeterministic(calls[n]) THEN Append(f[n - 1], calls[n]) ELSE f[n - 1]

Selects(calls, f, k) ==
  /\ f \in [0..k -> Seq(Failing)]
  /\ \A n \in 0..k : f[n] = Among(calls, f, n) /\ Len(f[n]) <= n

\* Every set of numbers has a least one.
LEMMA LeastNumber ==
  ASSUME NEW S \in SUBSET Nat, S # {}
  PROVE  \E i \in S : \A j \in S : i <= j
<1> DEFINE R == OpToRel(<, Nat)
<1>1. IsWellFoundedOn(R, Nat)
  BY NatLessThanWellFounded
<1>2. \A p \in Nat \X Nat : p[1] < p[2] => p \in R
  BY DEF OpToRel
<1> HIDE DEF R
<1>3. PICK i \in S : \A j \in S : ~(<<j, i>> \in R)
  BY <1>1, WFMin
<1>4. \A j \in S : ~(j < i)
  BY <1>2, <1>3
<1> QED BY <1>3, <1>4

\* One call more.
LEMMA AmongOne ==
  ASSUME NEW calls \in Batch, NEW f, NEW n \in DOMAIN calls,
         f[n - 1] \in Seq(Failing), Len(f[n - 1]) <= n - 1
  PROVE  Among(calls, f, n) \in Seq(Failing) /\ Len(Among(calls, f, n)) <= n
<1>1. n \in Nat \ {0} /\ calls[n] \in Calls \X Outcome
  BY BatchAssumption DEF Batch
<1>2. IsDeterministic(calls[n]) => calls[n] \in Failing
  BY <1>1 DEF IsDeterministic, Failing
<1> QED BY <1>1, <1>2 DEF Among

LEMMA SelectionExists ==
  ASSUME NEW calls \in Batch, NEW k \in Nat, k <= Len(calls)
  PROVE  \E f : Selects(calls, f, k)
<1>0. Len(calls) \in Nat /\ DOMAIN calls = 1..Len(calls)
  BY BatchAssumption DEF Batch
<1>1. \E f : Selects(calls, f, 0)
  <2>1. Selects(calls, [n \in 0..0 |-> <<>>], 0)
    BY DEF Selects, Among
  <2> QED BY <2>1
<1>2. ASSUME NEW l \in Nat, l + 1 <= Len(calls), NEW f, Selects(calls, f, l)
      PROVE  \E g : Selects(calls, g, l + 1)
  <2> DEFINE v == Among(calls, f, l + 1)
             g == [n \in 0..(l + 1) |-> IF n = l + 1 THEN v ELSE f[n]]
  <2>1. f[l] \in Seq(Failing) /\ Len(f[l]) <= l /\ l + 1 \in DOMAIN calls /\ (l + 1) - 1 = l
    BY <1>0, <1>2 DEF Selects
  <2>2. v \in Seq(Failing) /\ Len(v) <= l + 1
    BY <2>1, AmongOne
  <2>3. \A n \in 0..(l + 1) : Among(calls, g, n) = Among(calls, f, n)
    <3> SUFFICES ASSUME NEW n \in 0..(l + 1), n # 0
                 PROVE  g[n - 1] = f[n - 1]
      BY DEF Among
    <3> QED OBVIOUS
  <2> HIDE DEF v
  <2>4. \A n \in 0..(l + 1) : n # l + 1 => n \in 0..l
    OBVIOUS
  <2>5. g \in [0..(l + 1) -> Seq(Failing)]
    BY <1>2, <2>2, <2>4 DEF Selects
  <2>6. ASSUME NEW n \in 0..(l + 1)
        PROVE  g[n] = Among(calls, f, n) /\ Len(g[n]) <= n
    <3>1. CASE n = l + 1
      BY <2>2, <3>1 DEF v
    <3>2. CASE n # l + 1
      BY <1>2, <2>4, <3>2 DEF Selects
    <3> QED BY <3>1, <3>2
  <2>7. Selects(calls, g, l + 1)
    <3> HIDE DEF g
    <3> QED BY <2>3, <2>5, <2>6 DEF Selects
  <2> HIDE DEF g
  <2> QED BY <2>7
<1> DEFINE Bad == {l \in 0..k : ~\E f : Selects(calls, f, l)}
<1>3. SUFFICES ASSUME Bad # {} PROVE FALSE
  <2>1. k \in 0..k
    OBVIOUS
  <2> QED BY <1>3, <2>1
<1>4. PICK l \in Bad : \A j \in Bad : l <= j
  <2>1. Bad \in SUBSET Nat
    OBVIOUS
  <2> HIDE DEF Bad
  <2> QED BY <1>3, <2>1, LeastNumber
<1>5. l # 0
  BY <1>1
<1>6. l - 1 \in Nat /\ l - 1 \notin Bad /\ l - 1 \in 0..k /\ (l - 1) + 1 = l
  BY <1>4, <1>5
<1>7. PICK f : Selects(calls, f, l - 1)
  BY <1>6
<1> QED BY <1>2, <1>4, <1>6, <1>7

\* The failures of a batch are calls that failed, no more than the batch has.
LEMMA FailuresTyped ==
  ASSUME NEW calls \in Batch
  PROVE  DeterministicFailures(calls) \in Failures \cup {<<>>}
<1> DEFINE L == Len(calls)
           Eq(f) == f = [n \in 0..L |-> Among(calls, f, n)]
           a == CHOOSE f : Eq(f)
<1>1. L \in Nat /\ L <= MaxBatch /\ DOMAIN calls = 1..L
  BY BatchAssumption DEF Batch
<1>2. DeterministicFailures(calls) = a[L]
  BY DEF DeterministicFailures, Among
<1>3. PICK f : Selects(calls, f, L)
  BY <1>1, SelectionExists
<1> HIDE DEF L
<1>4. Eq(f)
  BY <1>3 DEF Selects
<1>5. Eq(a)
  <2> HIDE DEF Eq
  <2> QED BY <1>4
<1> HIDE DEF a
<1>6. \A n \in 0..L : a[n] = Among(calls, a, n)
  BY <1>5
<1> HIDE DEF Eq
<1> DEFINE Good(n) == a[n] \in Seq(Failing) /\ Len(a[n]) <= n
           Bad == {n \in 0..L : ~Good(n)}
<1>7. Bad = {}
  <2>1. SUFFICES ASSUME Bad # {} PROVE FALSE
    OBVIOUS
  <2>2. PICK n \in Bad : \A j \in Bad : n <= j
    <3>1. Bad \in SUBSET Nat
      OBVIOUS
    <3> HIDE DEF Bad
    <3> QED BY <2>1, <3>1, LeastNumber
  <2>3. n # 0
    <3>1. a[0] = <<>>
      BY <1>1, <1>6 DEF Among
    <3>2. Good(0)
      BY <3>1
    <3> QED BY <2>2, <3>2
  <2>4. n - 1 \in 0..L /\ Good(n - 1) /\ n \in 1..L
    BY <1>1, <2>2, <2>3
  <2>5. Good(n)
    BY <1>1, <1>6, <2>4, AmongOne
  <2> QED BY <2>2, <2>5
<1>8. Good(L)
  BY <1>1, <1>7
<1>9. a[L] # <<>> => a[L] \in [1..Len(a[L]) -> Failing] /\ Len(a[L]) \in 1..MaxBatch
  BY <1>1, <1>8, BatchAssumption
<1> QED BY <1>2, <1>9 DEF Failures

-----------------------------------------------------------------------------
(* The counters against the streak.                                        *)

Saturated(s) == {i \in DOMAIN s : s[i].saturated}

\* repeats is the length of the run of equal failures at the end of the
\* streak, saturations the number of full budgets in it, and the answer of
\* the policy is its decision on them.
CountInv ==
  /\ streak \in Seq([failures : Failures, saturated : BOOLEAN])
  /\ repeats <= Len(streak) /\ (streak = <<>> <=> repeats = 0)
  /\ \A i \in (Len(streak) - repeats + 1)..Len(streak) : streak[i].failures = fingerprint
  /\ Len(streak) > repeats => streak[Len(streak) - repeats].failures # fingerprint
  /\ IsFiniteSet(Saturated(streak)) /\ saturations = Cardinality(Saturated(streak))
  /\ action = IF streak = <<>> THEN "continue"
              ELSE Decision(repeats, streak[Len(streak)].saturated, saturations)

\* The first repetition and the first full budget are answered with a warning.
WarnInv == action # "stop" /\ (repeats >= 2 \/ saturations >= 1) => warned

StallInv == CountersTyped /\ CountInv /\ WarnInv /\ StopFollowsWarning

LEMMA StallInvInit ==
  ASSUME StallInit
  PROVE  StallInv
<1>1. Saturated(<<>>) = {}
  BY DEF Saturated
<1>2. IsFiniteSet({}) /\ Cardinality({}) = 0
  BY FS_EmptySet
<1>3. CountersTyped
  <2>1. fingerprint = None /\ repeats = 0 /\ saturations = 0
    BY DEF StallInit
  <2>2. action = "continue" /\ warned = FALSE
    BY DEF StallInit
  <2>3. fingerprint \in {None} \cup UNION {[1..n -> Calls \X {"contract"}] : n \in 1..MaxBatch}
    BY <2>1
  <2>4. repeats \in 0..3 /\ saturations \in 0..3
    BY <2>1
  <2>5. action \in {"continue", "retry", "stop"} /\ warned \in BOOLEAN
    BY <2>2
  <2> QED BY Zenon, <2>1, <2>3, <2>4, <2>5 DEF CountersTyped
<1>4. CountInv
  <2>1. <<>> \in Seq([failures : Failures, saturated : BOOLEAN]) /\ Len(<<>>) = 0
    OBVIOUS
  <2>2. fingerprint = None /\ repeats = 0 /\ saturations = 0
    BY DEF StallInit
  <2>3. action = "continue" /\ streak = <<>>
    BY DEF StallInit
  <2>4. \A i \in (Len(streak) - repeats + 1)..Len(streak) : FALSE
    BY <2>1, <2>2, <2>3
  <2>5. Len(streak) = 0
    BY <2>1, <2>3
  <2>6. IsFiniteSet(Saturated(streak)) /\ Cardinality(Saturated(streak)) = 0
    BY <1>1, <1>2, <2>3
  <2> QED BY <2>1, <2>2, <2>3, <2>4, <2>5, <2>6 DEF CountInv
<1> QED BY <1>3, <1>4 DEF StallInit, StallInv, WarnInv, StopFollowsWarning

\* The next task begins as the session began.
LEMMA ResetKeepsStallInv ==
  ASSUME ResetFailures
  PROVE  StallInv'
<1>1. Saturated(<<>>) = {}
  BY DEF Saturated
<1>2. IsFiniteSet({}) /\ Cardinality({}) = 0
  BY FS_EmptySet
<1>3. CountersTyped'
  <2>1. fingerprint' = None /\ repeats' = 0 /\ saturations' = 0
    BY DEF ResetFailures
  <2>2. action' = "continue" /\ warned' = FALSE
    BY DEF ResetFailures
  <2>3. fingerprint' \in {None} \cup UNION {[1..n -> Calls \X {"contract"}] : n \in 1..MaxBatch}
    BY <2>1
  <2>4. repeats' \in 0..3 /\ saturations' \in 0..3
    BY <2>1
  <2>5. action' \in {"continue", "retry", "stop"} /\ warned' \in BOOLEAN
    BY <2>2
  <2> QED BY Zenon, <2>1, <2>3, <2>4, <2>5 DEF CountersTyped
<1>4. CountInv'
  <2>1. <<>> \in Seq([failures : Failures, saturated : BOOLEAN]) /\ Len(<<>>) = 0
    OBVIOUS
  <2>2. fingerprint' = None /\ repeats' = 0 /\ saturations' = 0
    BY DEF ResetFailures
  <2>3. action' = "continue" /\ streak' = <<>>
    BY DEF ResetFailures
  <2>4. \A i \in (Len(streak') - repeats' + 1)..Len(streak') : FALSE
    BY <2>1, <2>2, <2>3
  <2>5. Len(streak') = 0
    BY <2>1, <2>3
  <2>6. IsFiniteSet(Saturated(streak')) /\ Cardinality(Saturated(streak')) = 0
    BY <1>1, <1>2, <2>3
  <2> QED BY <2>1, <2>2, <2>3, <2>4, <2>5, <2>6 DEF CountInv
<1> QED BY <1>3, <1>4 DEF ResetFailures, StallInv, WarnInv, StopFollowsWarning

\* A batch with failures.
LEMMA FailKeepsStallInv ==
  ASSUME StallInv, action # "stop", NEW F \in Failures, NEW full \in BOOLEAN, Fail(F, full)
  PROVE  StallInv'
<1> DEFINE L == Len(streak)
           count == CountRepeats(F)
           total == saturations + (IF full THEN 1 ELSE 0)
           item == [failures |-> F, saturated |-> full]
<1>0. /\ streak \in Seq([failures : Failures, saturated : BOOLEAN]) /\ L \in Nat
      /\ item \in [failures : Failures, saturated : BOOLEAN]
      /\ F # None /\ repeats \in 0..3 /\ saturations \in 0..3
  <2>1. F \in Seq(Calls \X {"contract"})
    BY BatchAssumption DEF Failures, Failing
  <2> QED BY <2>1, NoneAssumption DEF StallInv, CountInv, CountersTyped
<1>1. /\ fingerprint' = F /\ repeats' = count /\ saturations' = total
      /\ action' = Decision(count, full, total)
      /\ warned' = (warned \/ action' = "retry") /\ streak' = Append(streak, item)
  BY DEF Fail
<1>2. repeats <= 2 /\ saturations <= 2
  <2>1. CASE streak = <<>>
    <3>1. repeats = 0 /\ Saturated(streak) = {}
      BY <2>1 DEF StallInv, CountInv, Saturated
    <3> QED BY <3>1, FS_EmptySet DEF StallInv, CountInv
  <2>2. CASE streak # <<>>
    <3>1. action = Decision(repeats, streak[L].saturated, saturations)
      BY <2>2 DEF StallInv, CountInv
    <3> QED BY <1>0, <3>1 DEF Decision
  <2> QED BY <2>1, <2>2
<1>3. count \in 1..3 /\ total \in 0..3
  BY <1>0, <1>2 DEF CountRepeats
<1>4. /\ Len(streak') = L + 1 /\ streak'[L + 1] = item
      /\ \A i \in 1..L : streak'[i] = streak[i]
      /\ streak' \in Seq([failures : Failures, saturated : BOOLEAN])
  BY <1>0, <1>1
<1>5. CountersTyped'
  <2>1. action' \in {"continue", "retry", "stop"} /\ warned' \in BOOLEAN
    BY <1>1 DEF Decision, StallInv, CountersTyped
  <2>2. fingerprint' \in {None} \cup UNION {[1..n -> Calls \X {"contract"}] : n \in 1..MaxBatch}
    BY <1>1 DEF Failures, Failing
  <2>3. repeats' \in 0..3 /\ saturations' \in 0..3 /\ (fingerprint' = None <=> repeats' = 0)
    <3> HIDE DEF count, total
    <3> QED BY <1>0, <1>1, <1>3
  <2> QED BY <2>1, <2>2, <2>3 DEF CountersTyped
<1>6. IsFiniteSet(Saturated(streak')) /\ Cardinality(Saturated(streak')) = total
  <2> DEFINE S == Saturated(streak)
  <2>1. Saturated(streak') = S \cup (IF full THEN {L + 1} ELSE {})
    <3>1. DOMAIN streak' = 1..(L + 1) /\ DOMAIN streak = 1..L
      BY <1>0, <1>4
    <3>2. item.saturated = full
      OBVIOUS
    <3> HIDE DEF item
    <3> QED BY <1>0, <1>4, <3>1, <3>2 DEF Saturated
  <2>2. IsFiniteSet(S) /\ Cardinality(S) = saturations /\ L + 1 \notin S
    BY <1>0 DEF StallInv, CountInv, Saturated
  <2> HIDE DEF S
  <2>3. CASE full
    <3>1. IsFiniteSet(S \cup {L + 1}) /\ Cardinality(S \cup {L + 1}) = Cardinality(S) + 1
      BY <2>2, FS_AddElement
    <3> QED BY <2>1, <2>2, <2>3, <3>1
  <2>4. CASE ~full
    <3>1. Saturated(streak') = S
      BY <2>1, <2>4
    <3>2. total = saturations
      BY <1>0, <2>4
    <3> QED BY <2>2, <3>1, <3>2
  <2> QED BY <2>3, <2>4
<1>7. /\ count <= L + 1
      /\ \A i \in (L + 1 - count + 1)..(L + 1) : streak'[i].failures = F
      /\ L + 1 > count => streak'[L + 1 - count].failures # F
  <2>1. streak'[L + 1].failures = F
    BY <1>4
  <2>2. /\ repeats <= L
        /\ \A i \in (L - repeats + 1)..L : streak[i].failures = fingerprint
        /\ L > repeats => streak[L - repeats].failures # fingerprint
        /\ repeats = 0 <=> L = 0
    BY <1>0 DEF StallInv, CountInv
  <2> HIDE DEF L, count
  <2>3. CASE F = fingerprint
    <3>1. count = repeats + 1
      BY <2>3 DEF count, CountRepeats
    <3> QED BY <1>0, <1>4, <2>1, <2>2, <2>3, <3>1
  <2>4. CASE F # fingerprint
    <3>1. count = 1
      BY <2>4 DEF count, CountRepeats
    <3>2. L > 0 => streak[L].failures = fingerprint
      BY <1>0, <2>2
    <3> QED BY <1>0, <1>4, <2>1, <2>4, <3>1, <3>2
  <2> QED BY <2>3, <2>4
<1>8. CountInv'
  <2>1. streak' # <<>> /\ streak'[Len(streak')].saturated = full
    BY <1>0, <1>4
  <2> HIDE DEF L, count, total, item
  <2> QED BY <1>0, <1>1, <1>3, <1>4, <1>6, <1>7, <2>1 DEF CountInv
<1>9. WarnInv' /\ StopFollowsWarning'
  <2>1. streak'[Len(streak')].saturated = full
    BY <1>0, <1>4
  <2>2. /\ repeats >= 2 \/ saturations >= 1 => warned
        /\ count >= 3 => repeats >= 2
    BY <1>0 DEF StallInv, WarnInv, CountRepeats
  <2> HIDE DEF count
  <2>3. /\ action' # "stop" /\ (count >= 2 \/ total >= 1) => warned'
        /\ action' = "stop" => warned' \/ (count = 2 /\ full)
    <3>1. warned \in BOOLEAN /\ (total >= 1 => full \/ saturations >= 1)
      BY <1>0 DEF StallInv, CountersTyped
    <3>2. total >= 3 => saturations >= 1
      BY <1>0
    <3>3. full \/ count = 2 => action' \in {"retry", "stop"}
      BY <1>1 DEF Decision
    <3>4. action' = "stop" => count >= 3 \/ total >= 3 \/ (full /\ count >= 2)
      BY <1>1 DEF Decision
    <3>5. action' # "stop" => count < 3
      BY <1>1, <1>3 DEF Decision
    <3> HIDE DEF total
    <3>6. action' = "retry" => warned'
      BY <1>1
    <3>7. warned => warned'
      BY <1>1
    <3> QED BY <1>3, <2>2, <3>1, <3>2, <3>3, <3>4, <3>5, <3>6, <3>7
  <2>4. WarnInv' /\ StopFollowsWarning'
    <3> HIDE DEF total
    <3> QED BY <1>1, <2>1, <2>3 DEF WarnInv, StopFollowsWarning
  <2> QED BY <2>4
<1> QED BY <1>5, <1>8, <1>9 DEF StallInv

LEMMA StallInvNext ==
  ASSUME StallInv, [StallNext]_stallVars
  PROVE  StallInv'
<1>1. CASE UNCHANGED stallVars
  BY <1>1 DEF stallVars, StallInv, CountersTyped, CountInv, Saturated, WarnInv, StopFollowsWarning
<1>2. ASSUME NEW calls \in Batch, NEW saturated \in BOOLEAN, Evaluate(calls, saturated)
      PROVE  StallInv'
  <2>1. CASE DeterministicFailures(calls) = <<>>
    BY <1>2, <2>1, ResetKeepsStallInv DEF Evaluate
  <2>2. CASE DeterministicFailures(calls) # <<>>
    <3>1. DeterministicFailures(calls) \in Failures
      BY <2>2, FailuresTyped
    <3> QED BY <1>2, <2>2, <3>1, FailKeepsStallInv DEF Evaluate
  <2> QED BY <2>1, <2>2
<1>3. CASE NextTask
  BY <1>3, ResetKeepsStallInv DEF NextTask
<1> QED BY <1>1, <1>2, <1>3 DEF StallNext

\* What the counters say is what the batches show.
LEMMA StallInvShown ==
  ASSUME StallInv
  PROVE  action = "stop" <=> Stalled
<1> DEFINE L == Len(streak)
           S == {i \in DOMAIN streak : streak[i].saturated}
<1>1. L \in Nat /\ repeats \in 0..3 /\ saturations \in 0..3 /\ repeats <= L
  BY DEF StallInv, CountInv, CountersTyped
<1>2. Cardinality(S) = saturations
  BY DEF StallInv, CountInv, Saturated
<1>3. CASE streak = <<>>
  <2>1. L = 0 /\ Saturated(streak) = {}
    BY <1>3 DEF Saturated
  <2>2. saturations = 0
    BY <2>1, FS_EmptySet DEF StallInv, CountInv
  <2> QED BY <1>2, <1>3, <2>1, <2>2 DEF StallInv, CountInv, Stalled, LastAreSame
<1>4. CASE streak # <<>>
  <2>1. /\ L > 0 /\ repeats > 0
        /\ \A i \in (L - repeats + 1)..L : streak[i].failures = fingerprint
        /\ L > repeats => streak[L - repeats].failures # fingerprint
        /\ action = Decision(repeats, streak[L].saturated, saturations)
    BY <1>1, <1>4 DEF StallInv, CountInv
  <2>2. streak[L].failures = fingerprint
    BY <1>1, <2>1
  <2> HIDE DEF S
  <2>3. \A n \in 1..3 : LastAreSame(n) <=> repeats >= n
    <3> SUFFICES ASSUME NEW n \in 1..3 PROVE LastAreSame(n) <=> repeats >= n
      OBVIOUS
    <3>1. ASSUME repeats >= n PROVE LastAreSame(n)
      BY <1>1, <2>1, <2>2, <3>1 DEF LastAreSame
    <3>2. ASSUME LastAreSame(n), repeats < n PROVE FALSE
      <4>1. L - repeats \in (L - n + 1)..L /\ L > repeats
        BY <1>1, <3>2 DEF LastAreSame
      <4>2. streak[L - repeats].failures = streak[L].failures
        BY <3>2, <4>1 DEF LastAreSame
      <4> QED BY <2>1, <2>2, <4>1, <4>2
    <3> QED BY <1>1, <3>1, <3>2
  <2>4. action = "stop" <=>
          repeats >= 3 \/ saturations >= 3 \/ (streak[L].saturated /\ repeats >= 2)
    BY <2>1 DEF Decision
  <2>5. Stalled <=>
          \/ LastAreSame(3)
          \/ LastAreSame(2) /\ streak[L].saturated
          \/ Cardinality(S) >= 3
    BY DEF Stalled, S
  <2> QED BY <1>2, <2>3, <2>4, <2>5
<1> QED BY <1>3, <1>4

LEMMA StallInvAlways == StallSpec => []StallInv
BY StallInvInit, StallInvNext, PTL DEF StallSpec

\* ToolProgressPolicy.evaluate stops a task exactly when its batches repeat
\* themselves or fill their budget, and its counters stay within their bounds.
THEOREM StopsWhenStalled == StallSpec => []StopsExactlyWhenStalled
<1>1. StallInv => StopsExactlyWhenStalled
  BY StallInvShown DEF StallInv, StopsExactlyWhenStalled
<1> QED BY <1>1, StallInvAlways, PTL

\* The model is told before its task is stopped, but for one case.
THEOREM StopsAfterWarning == StallSpec => []StopFollowsWarning
<1>1. StallInv => StopFollowsWarning
  BY DEF StallInv
<1> QED BY <1>1, StallInvAlways, PTL
===============================================================================
