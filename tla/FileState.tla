------------------------------ MODULE FileState ------------------------------
(***************************************************************************)
(* What the session knows of one file: the snapshot that edit_file,        *)
(* write_file and delete_file compare with the disk, and the lines that    *)
(* read_file takes for available in the conversation.  Every table is      *)
(* keyed by path and no operation touches two, so one file is enough.      *)
(*                                                                         *)
(* A call is taken apart where another process can come in between: the    *)
(* check, the reading of the bytes, the write, and the stat.  A content is *)
(* a model value, its own hash; lines are numbered from 1.  unseen,        *)
(* handled, settled and paged are not the program's: see below.            *)
(***************************************************************************)
EXTENDS SourceRanges, FiniteSets

CONSTANTS
  Contents,      \* what the file may hold
  LineCount,     \* the number of lines of a content
  Size,          \* the size of a content
  LongLines,     \* of a content, the lines longer than a result may be
  BroadReadMin,  \* lower and upper bound of _broad_read_threshold
  BroadReadMax,
  Absent,        \* there is no file
  None,          \* there is no entry
  Worlds         \* what surrounds the session, see world

ASSUME ContentsAssumption ==
  /\ Absent \notin Contents /\ None \notin Contents
  /\ \A c \in Contents :
       LineCount[c] \in Nat /\ Size[c] \in Nat /\ LongLines[c] \subseteq 1..LineCount[c]
Snapshots == [mtime : Nat, size : Nat, sha : Contents, partial : BOOLEAN]
ASSUME NoneAssumption ==
  None \notin Snapshots /\ None \notin {"read", "replace", "edit", "create", "delete"}
ASSUME BroadReadAssumption == BroadReadMin \in Nat /\ BroadReadMax \in Nat
ASSUME WorldsAssumption ==
  \A w \in Worlds : w.races \in BOOLEAN /\ w.coarse \in BOOLEAN /\ w.contents \subseteq Contents
                      /\ w.pages \subseteq Nat \X (Nat \ {0})
                      /\ w.maxTime \in Nat /\ w.maxReads \in Nat

VARIABLES
  world,     \* races: do others write while a call is in progress?  coarse: may two
             \* writes get one modification time?  contents: what the file may hold
             \* here; pages: the offsets and limits read_file is called with;
             \* maxTime, maxReads: bounds of the model
  disk,      \* the file's content and st_mtime_ns, or Absent
  now,       \* the latest modification time
  snapshot,  \* read_file_state of the file, or None
  segments,  \* read_file_segments of the file, or None
  results,   \* the source slices read_file returned
  held,      \* those of the current tool round, which are not in messages yet
  resident,  \* those that are in messages, in full or as a stub
  stubs,     \* those that are there as a stub, without their lines
  call,      \* the tool call in progress
  unseen,    \* is the disk's content one no call has completed on?
  handled,   \* the contents a call has read or written
  settled,   \* has it been the same since before the last complete read began?
  paged      \* was the snapshot taken when a page was returned?

conversation == <<results, held, resident, stubs>>
session == <<snapshot, segments, conversation>>
ghosts == <<unseen, handled, settled, paged>>
vars == <<world, disk, now, session, call, ghosts>>

NoCall == [tool |-> None]
Idle == call = NoCall
At(tool, pc) == call.tool = tool /\ call.pc = pc

Lines(c) == 1..LineCount[c]

-----------------------------------------------------------------------------
(* The disk.                                                               *)

Stamp(t) == t = now + 1 \/ (world.coarse /\ t = now)

\* A write: the content and its time.
Put(content) ==
  /\ now < world.maxTime
  /\ \E t \in {now, now + 1} :
       /\ Stamp(t) /\ now' = t
       /\ disk' = [content |-> content, mtime |-> t]
  /\ settled' = FALSE

\* A write of a tool that succeeds.
PutByTool(content) ==
  /\ Put(content)
  /\ unseen' = FALSE /\ handled' = handled \cup {content}

RemoveFile ==
  /\ disk' = Absent /\ now' = now
  /\ unseen' = FALSE /\ settled' = FALSE
  /\ UNCHANGED handled

Holds(content) == disk # Absent /\ disk.content = content

\* An editor, another program, or a command of the bash tool.
OthersWrite ==
  /\ Idle \/ world.races
  /\ \E content \in world.contents :
       /\ ~Holds(content)
       /\ Put(content)
  /\ unseen' = (Idle \/ unseen)
  /\ UNCHANGED <<session, call, handled, paged>>

OthersDelete ==
  /\ Idle \/ world.races
  /\ disk # Absent /\ RemoveFile
  /\ UNCHANGED <<session, call, paged>>

-----------------------------------------------------------------------------
(* read_file.                                                              *)

\* Between the bytes and the stat of record_file_snapshot the file may change.
ReadFile ==
  /\ Idle /\ disk # Absent
  /\ \E page \in world.pages :
       LET from == page[1]
           limit == page[2]
           total == LineCount[disk.content]
       IN call' = [tool |-> "read", pc |-> "bytes", raw |-> disk.content, from |-> from,
                   to |-> IF from + limit < total THEN from + limit
                          ELSE IF from < total THEN total ELSE from]
  /\ unseen' = FALSE /\ settled' = TRUE /\ handled' = handled \cup {disk.content}
  /\ UNCHANGED <<disk, now, session, paged>>

\* Mutated: the size is enough to reuse it.
ReusedBySize ==
  IF snapshot # None /\ snapshot.size = Size[disk.content]
  THEN snapshot.sha ELSE call.raw

\* record_file_snapshot with reuse_hash: the hash of the previous snapshot is
\* trusted when time and size are the same.
ReusedHash ==
  IF snapshot # None /\ snapshot.mtime = disk.mtime /\ snapshot.size = Size[disk.content]
  THEN snapshot.sha ELSE call.raw

SnapshotOf(sha, partial) ==
  [mtime |-> disk.mtime, size |-> Size[disk.content], sha |-> sha, partial |-> partial]

NewReadState(sha, total) ==
  [sha |-> sha, total |-> total, covered |-> <<>>, observed |-> {}, projected |-> {}]

\* The state of the snapshot's hash; another one is dropped.
SourceReadState(sha) ==
  IF segments # None /\ segments.sha = sha /\ segments.total = LineCount[call.raw]
  THEN segments ELSE NewReadState(sha, LineCount[call.raw])

\* The offsets from..to - 1 as line numbers.
LinesBetween(from, to) == (from + 1)..to

\* Mutated: a stub counts like the lines it stands for.
ResidentOverlapWithStubs(state) ==
  LET available == {i \in state.observed \cap resident : results[i].sha = state.sha}
  IN OverlapLength(MergeRanges({<<results[i].from, results[i].to>> : i \in available}),
                   call.from, call.to)

\* source_resident_overlap: how much of the request the results in the
\* conversation hold, those known to be stubs or removed left out.
ResidentOverlap(state) ==
  LET available == {i \in (state.observed \cap resident) \ state.projected :
                      results[i].sha = state.sha}
  IN OverlapLength(MergeRanges({<<results[i].from, results[i].to>> : i \in available}),
                   call.from, call.to)

FullyScanned(state) == CoversAll(state.covered, state.total)

\* Fifteen lines of a hundred, between the bounds.
BroadReadThreshold(total) ==
  LET share == (15 * total + 99) \div 100
      capped == IF share < BroadReadMax THEN share ELSE BroadReadMax
  IN IF total = 0 THEN BroadReadMax ELSE IF capped > BroadReadMin THEN capped ELSE BroadReadMin

Requested == LinesBetween(call.from, call.to)
RequestedLines == call.to - call.from

\* Mutated: a range that was read is taken for available.
RedundantWhenRead(state) ==
  /\ RequestedLines >= BroadReadThreshold(LineCount[call.raw])
  /\ 10 * OverlapLength(state.covered, call.from, call.to) >= 8 * RequestedLines
  /\ RequestedLines > 0

\* A broad range that was read before and is still in the conversation.
Redundant(state) ==
  /\ RequestedLines >= BroadReadThreshold(LineCount[call.raw])
  /\ 10 * OverlapLength(state.covered, call.from, call.to) >= 8 * RequestedLines
  /\ RequestedLines > 0 /\ ResidentOverlap(state) >= RequestedLines

\* The notice takes the place of the lines, and the snapshot is complete.
ReturnNotice ==
  /\ At("read", "bytes") /\ disk # Absent
  /\ LET state == SourceReadState(ReusedHash)
     IN /\ Redundant(state)
        /\ segments' = state
        /\ snapshot' = SnapshotOf(ReusedHash, FALSE)
  /\ paged' = FALSE /\ call' = NoCall
  /\ UNCHANGED <<disk, now, conversation, unseen, handled, settled>>

\* The first line is longer than a result may be.
Cut == call.from + 1 \in LongLines[call.raw]

\* A page ends at the limit, before a line that does not fit, or after its cut
\* first line.
Page(to) ==
  IF Cut THEN to = call.from + 1
  ELSE /\ LinesBetween(call.from, to) \cap LongLines[call.raw] = {}
       /\ to = call.from => call.from = call.to

\* The page is recorded as read and its result as an observation; the lines
\* enter the conversation when the tool round ends.
ReturnPage ==
  /\ At("read", "bytes") /\ disk # Absent
  /\ Len(results) < world.maxReads
  /\ \E to \in call.from..call.to :
       LET state == SourceReadState(ReusedHash)
           id == Len(results) + 1
           read == [state EXCEPT
             !.covered = MergeRanges(ToSet(@) \cup {<<call.from, IF Cut THEN call.from ELSE to>>}),
             !.observed = @ \cup {id}]
       IN /\ ~Redundant(state) /\ Page(to)
          /\ segments' = read
          /\ snapshot' = SnapshotOf(ReusedHash, ~FullyScanned(read))
          /\ results' = Append(results, [sha |-> ReusedHash, content |-> call.raw,
                                         from |-> call.from, to |-> to])
          /\ held' = held \cup {id}
  /\ paged' = TRUE /\ call' = NoCall
  /\ UNCHANGED <<disk, now, resident, stubs, unseen, handled, settled>>

-----------------------------------------------------------------------------
(* The tools that write.                                                   *)

Writing(tool, pc, new) == [tool |-> tool, pc |-> pc, raw |-> new]

\* Mutated: the hash is not compared.
UnchangedByTime ==
  snapshot.mtime = disk.mtime /\ snapshot.size = Size[disk.content]

\* The check of write_file and delete_file.
UnchangedSinceSnapshot ==
  /\ snapshot.mtime = disk.mtime /\ snapshot.size = Size[disk.content]
  /\ snapshot.sha = disk.content

CheckReplace ==
  /\ Idle /\ disk # Absent
  /\ snapshot # None /\ ~snapshot.partial /\ UnchangedSinceSnapshot
  /\ \E new \in world.contents \ {disk.content} : call' = Writing("replace", "checked", new)
  /\ UNCHANGED <<disk, now, session, ghosts>>

\* os.replace of a temporary file: all of it or nothing.
Replace ==
  /\ At("replace", "checked") /\ disk # Absent
  /\ PutByTool(call.raw)
  /\ call' = [call EXCEPT !.pc = "written"]
  /\ UNCHANGED <<session, paged>>

\* Mutated: an edit needs a snapshot only.
CheckEditUnchecked ==
  /\ Idle /\ disk # Absent
  /\ snapshot # None
  /\ call' = Writing("edit", "checked", None)
  /\ UNCHANGED <<disk, now, session, ghosts>>

\* The check of edit_file looks at the time alone.
CheckEdit ==
  /\ Idle /\ disk # Absent
  /\ snapshot # None /\ snapshot.mtime = disk.mtime
  /\ call' = Writing("edit", "checked", None)
  /\ UNCHANGED <<disk, now, session, ghosts>>

\* The text is read, and the edits are applied to it in memory.
LoadEdit ==
  /\ At("edit", "checked") /\ disk # Absent
  /\ call' = Writing("edit", "loaded", disk.content)
  /\ UNCHANGED <<disk, now, session, ghosts>>

\* The new text is written over the file, which creates it if need be.
StoreEdit ==
  /\ At("edit", "loaded")
  /\ \E new \in world.contents \ {call.raw} :
       /\ PutByTool(new)
       /\ call' = Writing("edit", "written", new)
  /\ UNCHANGED <<session, paged>>

\* write_file of a path that does not exist opens it exclusively.
Create ==
  /\ Idle /\ disk = Absent
  /\ \E new \in world.contents :
       /\ PutByTool(new)
       /\ call' = Writing("create", "written", new)
  /\ UNCHANGED <<session, paged>>

\* The write stops halfway: the disk is full, or Ctrl+C.  The call ends.
Torn ==
  /\ (Idle /\ disk = Absent) \/ At("edit", "loaded")
  /\ \E new \in world.contents : Put(new)
  /\ unseen' = TRUE /\ call' = NoCall
  /\ UNCHANGED <<session, handled, paged>>

\* The bytes of the new snapshot.
LoadWritten ==
  /\ call.tool \in {"replace", "edit", "create"} /\ call.pc = "written"
  /\ disk # Absent
  /\ call' = Writing(call.tool, "bytes", disk.content)
  /\ UNCHANGED <<disk, now, session, ghosts>>

\* record_file_snapshot and record_changed_file: the snapshot is complete,
\* whatever was read before.
RecordWritten ==
  /\ call.tool \in {"replace", "edit", "create"} /\ call.pc = "bytes"
  /\ disk # Absent
  /\ snapshot' = SnapshotOf(call.raw, FALSE)
  /\ segments' = None
  /\ paged' = FALSE /\ call' = NoCall
  /\ UNCHANGED <<disk, now, conversation, unseen, handled, settled>>

CheckDelete ==
  /\ Idle /\ disk # Absent
  /\ snapshot # None /\ UnchangedSinceSnapshot
  /\ call' = Writing("delete", "checked", None)
  /\ UNCHANGED <<disk, now, session, ghosts>>

\* Mutated: the segments stay when the file is deleted.
DeleteSnapshotOnly ==
  /\ At("delete", "checked") /\ disk # Absent
  /\ RemoveFile
  /\ snapshot' = None
  /\ paged' = FALSE /\ call' = NoCall
  /\ UNCHANGED <<segments, conversation>>

Delete ==
  /\ At("delete", "checked") /\ disk # Absent
  /\ RemoveFile
  /\ snapshot' = None /\ segments' = None
  /\ paged' = FALSE /\ call' = NoCall
  /\ UNCHANGED conversation

-----------------------------------------------------------------------------
(* The rest of the session.                                                *)

\* A call raises, because the file is gone or for Ctrl+C.
Abandon ==
  /\ ~Idle /\ call' = NoCall
  /\ settled' = (settled /\ call.tool # "read")
  /\ UNCHANGED <<disk, now, session, unseen, handled, paged>>

\* A shell command whose target is known counts as a change of the file.
RecordBashWrite ==
  /\ Idle /\ segments' = None
  /\ UNCHANGED <<disk, now, snapshot, conversation, call, ghosts>>

\* mark_source_observation_projected, for each of the results.
MarkedProjected(ids) ==
  IF segments = None THEN None ELSE [segments EXCEPT !.projected = @ \cup ids]

\* The tool round ends: its results enter the conversation, those that are over
\* the round's budget as stubs.
AdmitToolRound ==
  /\ Idle /\ held # {}
  /\ \E stubbed \in SUBSET held :
       stubs' = stubs \cup stubbed /\ segments' = MarkedProjected(stubbed)
  /\ resident' = resident \cup held /\ held' = {}
  /\ UNCHANGED <<disk, now, snapshot, results, call, ghosts>>

\* Between two rounds a rebase removes results from the conversation.
Rebase ==
  /\ Idle /\ held = {}
  /\ \E oldest \in resident :
       LET removed == {i \in resident : i <= oldest}
       IN /\ resident' = resident \ removed /\ stubs' = stubs \ removed
          /\ segments' = MarkedProjected(removed)
  /\ UNCHANGED <<disk, now, snapshot, results, held, call, ghosts>>

\* A new task keeps the snapshots and forgets the segments.  A round that was
\* refused or interrupted, which ended the last task, never enters messages.
ResetTaskState ==
  /\ Idle /\ (segments # None \/ held # {})
  /\ segments' = None /\ held' = {}
  /\ UNCHANGED <<disk, now, snapshot, results, resident, stubs, call, ghosts>>

Init ==
  /\ world \in Worlds
  /\ \E c \in world.contents : disk = [content |-> c, mtime |-> 0]
  /\ now = 0
  /\ snapshot = None /\ segments = None
  /\ results = <<>> /\ held = {} /\ resident = {} /\ stubs = {}
  /\ call = NoCall
  /\ unseen = TRUE /\ handled = {} /\ settled = FALSE /\ paged = FALSE

Next ==
  /\ UNCHANGED world
  /\ \/ OthersWrite \/ OthersDelete
     \/ ReadFile \/ ReturnNotice \/ ReturnPage
     \/ CheckReplace \/ Replace \/ CheckEdit \/ LoadEdit \/ StoreEdit
     \/ Create \/ Torn \/ LoadWritten \/ RecordWritten \/ CheckDelete \/ Delete
     \/ Abandon \/ RecordBashWrite \/ AdmitToolRound \/ Rebase \/ ResetTaskState

Spec == Init /\ [][Next]_vars

-----------------------------------------------------------------------------
(* Properties.                                                             *)

\* Types, and segments exist only for the version of the snapshot.
TypeOK ==
  /\ world \in Worlds
  /\ disk # Absent => disk.content \in world.contents /\ disk.mtime \in 0..now
  /\ now \in 0..world.maxTime
  /\ snapshot # None => snapshot.mtime \in 0..now /\ snapshot.sha \in world.contents
  /\ segments # None =>
       /\ snapshot # None /\ segments.sha = snapshot.sha
       /\ segments.projected \cup segments.observed \subseteq DOMAIN results
  /\ resident \cup held \subseteq DOMAIN results /\ stubs \subseteq resident
  /\ call.tool \in {None, "read", "replace", "edit", "create", "delete"}
  /\ paged => snapshot # None

\* The lines of a version that were returned in full.
Returned(state) ==
  UNION {LinesOf(<<results[i].from, results[i].to>>) :
           i \in {j \in state.observed : results[j].from + 1 \notin LongLines[results[j].content]}}

\* Whatever the order of the pages, the covered ranges stand for exactly the
\* lines that were returned, in order, and never touch.
MergedIsExact ==
  segments # None =>
    LET covered == segments.covered
    IN /\ UNION {LinesOf(covered[i]) : i \in DOMAIN covered} = Returned(segments)
       /\ \A i \in DOMAIN covered : covered[i][1] < covered[i][2]
       /\ \A i, j \in DOMAIN covered : i < j => covered[i][2] < covered[j][1]

\* The overlap a request is judged by is the number of its lines seen before.
OverlapIsExact ==
  segments # None =>
    \A start, end \in 0..segments.total :
      OverlapLength(segments.covered, start, end)
        = Cardinality(Returned(segments) \cap LinesOf(<<start, end>>))

\* A file counts as fully scanned when every line was returned.
FullScanIsExact ==
  segments # None => (FullyScanned(segments) <=> Returned(segments) = 0..(segments.total - 1))

\* The step that puts a tool's bytes on the disk, or takes the file away.
Overwrites(tools) ==
  /\ call.tool \in tools /\ disk # Absent /\ disk' # disk
  /\ \/ call.tool = "replace" /\ call'.tool = "replace" /\ call'.pc = "written"
     \/ call.tool = "edit" /\ (call' = NoCall \/ call'.pc = "written")
     \/ call.tool = "delete" /\ call' = NoCall

\* What another process, or a write that was cut short, left in the file
\* between two calls is not edited, replaced or deleted before read_file has
\* read the file.  The times of writes differ.
OthersWorkSurvives ==
  [][~world.coarse /\ Overwrites({"replace", "edit", "delete"}) => ~unseen]_vars

\* Even where two writes share a time and a hash is reused for it, write_file
\* and delete_file touch only a content that some call has read or written,
\* unless it changes during the call.
HashProtects ==
  [][~world.races /\ Overwrites({"replace", "delete"}) => disk.content \in handled]_vars

\* When read_file answers that a range is still available, its lines, cut ones
\* included, are in the conversation as they are on the disk: a result that is
\* still held, was removed, or is there as a stub only does not count.  Nobody
\* writes during a call, and the times of writes differ.
NoticeIsTrue ==
  [][~world.races /\ ~world.coarse /\ ReturnNotice =>
       Requested \subseteq UNION {LinesBetween(results[i].from, results[i].to) :
                        i \in {j \in resident \ stubs : results[j].content = disk.content}}]_vars

\* The lines of a content that were ever returned in full.
Shown(content) ==
  UNION {LinesBetween(results[i].from, results[i].to) :
           i \in {j \in DOMAIN results : /\ results[j].content = content
                                         /\ results[j].from + 1 \notin LongLines[content]}}

\* What write_file asks for: a file whose pages were read is replaced only when
\* all of its lines were, whatever happened between the pages.  (A notice or a
\* write makes the snapshot complete without them.)  Nobody writes during a
\* call, and the times of writes differ.
ReplacedWasRead ==
  [][~world.races /\ ~world.coarse /\ paged /\ Overwrites({"replace"}) =>
       Lines(disk.content) \subseteq Shown(disk.content)]_vars

\* What a refusal promises: after a read_file, and as long as the file is not
\* changed, write_file does not call it changed.  Nobody writes during a call,
\* and the times of writes differ.
ReadingAgainHelps ==
  Idle /\ settled /\ snapshot # None /\ ~world.races /\ ~world.coarse => UnchangedSinceSnapshot

\* What read_file keeps of the file is exact: types, the covered ranges, the
\* overlap and the full scan that are derived from them, and the snapshot that
\* a later call compares with the disk.
ReadStateIsExact ==
  TypeOK /\ MergedIsExact /\ OverlapIsExact /\ FullScanIsExact /\ ReadingAgainHelps
=============================================================================
