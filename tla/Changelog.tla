------------------------------ MODULE Changelog ------------------------------
(***************************************************************************)
(* The Raft log of a Keeper replica on disk (src/Coordination/Changelog.cpp*)
(* behind KeeperLogStore.cpp), as operators on a record with the fields    *)
(*                                                                         *)
(*   existing_changelogs   first index -> [from, to]                       *)
(*   current_writer        [file, start], or None                          *)
(*   buffer                records appended since the last flush           *)
(*   logs                  index -> term, the log in memory                *)
(*   min_log_id, max_log_id                                                *)
(*   files                 first index -> [to, records, torn], the disk    *)
(*   to_delete             files in log_files_to_delete_queue              *)
(*                                                                         *)
(* A path is its from_log_index: to_log_index follows from it.  An entry   *)
(* is its term; a record is the index and the term.  A file is torn when   *)
(* it ends in the middle of a record.                                      *)
(***************************************************************************)
EXTENDS Maps, Integers, Sequences, FiniteSetsExt

CONSTANTS
    rotate_interval,     \* records in a file
    QueueSize,           \* capacity of log_files_to_delete_queue
    None

ASSUME ChangelogAssumption ==
    /\ rotate_interval \in Nat \ {0}
    /\ QueueSize \in Nat

Below(f, index) == [i \in {j \in DOMAIN f : j < index} |-> f[i]]
Above(f, index) == [i \in {j \in DOMAIN f : j > index} |-> f[i]]
DropAll(f, keys) == [x \in DOMAIN f \ keys |-> f[x]]

Description(from) == [from |-> from, to |-> from + rotate_interval - 1]

\* What existing_changelogs[...] inserts for a missing key.
NoDescription == [from |-> 0, to |-> 0]

expectedEntriesCountInLog(description) ==
    description.to - description.from + 1

EmptyFile(from) ==
    [to |-> Description(from).to, records |-> <<>>, torn |-> FALSE]

-----------------------------------------------------------------------------
\* The records reach the file, if it has not been removed under the writer.
flush(c) ==
    IF c.current_writer = None
    THEN c
    ELSE LET file == c.current_writer.file
         IN  [c EXCEPT !.buffer = <<>>,
                       !.files = IF file \in DOMAIN @
                                 THEN [@ EXCEPT ![file].records =
                                                    @ \o c.buffer]
                                 ELSE @]

\* A new file, truncated if there is one.
rotate(c, new_start_log_index) ==
    [flush(c) EXCEPT
        !.existing_changelogs =
            Put(@, new_start_log_index, Description(new_start_log_index)),
        !.files = Put(@, new_start_log_index, EmptyFile(new_start_log_index)),
        !.current_writer = [file |-> new_start_log_index,
                            start |-> new_start_log_index]]

\* The file is full one record later.
fillOneMore(c, index, term) ==
    LET start == c.current_writer.start
        described ==
            IF start \in DOMAIN c.existing_changelogs
            THEN c
            ELSE [c EXCEPT !.existing_changelogs = Put(@, start, NoDescription)]
        log_is_complete ==
            index - start
                > expectedEntriesCountInLog(
                      described.existing_changelogs[start])
    IN  [(IF log_is_complete THEN rotate(described, index) ELSE described)
            EXCEPT !.buffer = Append(@, [index |-> index, term |-> term]),
                   !.logs = Put(@, index, term),
                   !.min_log_id = IF c.logs = <<>> THEN index ELSE @,
                   !.max_log_id = index]

appendEntry(c, index, term) ==
    LET start == c.current_writer.start
        described ==
            IF start \in DOMAIN c.existing_changelogs
            THEN c
            ELSE [c EXCEPT !.existing_changelogs = Put(@, start, NoDescription)]
        log_is_complete ==
            index - start
                = expectedEntriesCountInLog(
                      described.existing_changelogs[start])
    IN  [(IF log_is_complete THEN rotate(described, index) ELSE described)
            EXCEPT !.buffer = Append(@, [index |-> index, term |-> term]),
                   !.logs = Put(@, index, term),
                   !.min_log_id = IF c.logs = <<>> THEN index ELSE @,
                   !.max_log_id = index]

-----------------------------------------------------------------------------
(***************************************************************************)
(* Overwriting.                                                            *)
(***************************************************************************)

\* lower_bound(index), and whether it is the file to write to.
LowerBound(c, index) ==
    Min({start \in DOMAIN c.existing_changelogs : start >= index})

StartsAt(c, index) == index \in DOMAIN c.existing_changelogs

\* The description writeAt opens when it leaves the current file.
FileToReopen(c, index) ==
    c.existing_changelogs[
        IF StartsAt(c, index)
        THEN index
        ELSE Max({start \in DOMAIN c.existing_changelogs : start < index})]

LeavesFile(c, index) == index < c.current_writer.start

\* The calls below that the library or the language leaves undefined, or
\* that throw: no file before index, or a description without a path.
CanWriteAt(c, index) ==
    LeavesFile(c, index) =>
        /\ \E start \in DOMAIN c.existing_changelogs : start <= index
        /\ \E start \in DOMAIN c.existing_changelogs : start >= index
        /\ FileToReopen(c, index).from # 0

\* The old writer is closed and the file of index opened for appending.
\* The writer gets the first index of the file after it, unless the file
\* begins with index.
Reopen(c, index) ==
    LET file == FileToReopen(c, index).from
        opened == IF file \in DOMAIN c.files
                  THEN c.files
                  ELSE Put(c.files, file, EmptyFile(file))
    IN  [flush([c EXCEPT !.files = opened]) EXCEPT
            !.current_writer = [file |-> file,
                                start |-> LowerBound(c, index)]]

LaterFiles(c, index) ==
    {start \in DOMAIN c.existing_changelogs : start > index}

\* The first n of the later files have been removed, in ascending order.
RemoveLater(c, index, n) ==
    LET later == LaterFiles(c, index)
        first == {start \in later :
                      Cardinality({s \in later : s < start}) < n}
    IN  [c EXCEPT
            !.files = DropAll(@, {c.existing_changelogs[start].from :
                                      start \in first}),
            !.existing_changelogs = DropAll(@, first)]

\* The entries after index stay in memory.
overwriteOne(c, index, term) ==
    LET moved == IF LeavesFile(c, index)
                 THEN RemoveLater(Reopen(c, index), index,
                                  Cardinality(LaterFiles(c, index)))
                 ELSE c
    IN  [appendEntry(moved, index, term) EXCEPT !.max_log_id = c.max_log_id]

writeAt(c, index, term) ==
    LET moved == IF LeavesFile(c, index)
                 THEN RemoveLater(Reopen(c, index), index,
                                  Cardinality(LaterFiles(c, index)))
                 ELSE c
    IN  appendEntry([moved EXCEPT !.logs = Below(@, index)], index, term)

\* A pack of entries of a term.  Only the first may overwrite one.
applyEntriesFromBuffer(c, index, num_logs, term) ==
    LET applied[i \in 1 .. num_logs] ==
            IF i > 1
            THEN appendEntry(applied[i - 1], index + i - 1, term)
            ELSE IF index \in DOMAIN c.logs
            THEN writeAt(c, index, term)
            ELSE appendEntry(c, index, term)
    IN  applied[num_logs]

-----------------------------------------------------------------------------
(***************************************************************************)
(* Compaction.                                                             *)
(***************************************************************************)

\* The files at the beginning that are out of date, all of them after a
\* snapshot of the leader.  The queue takes what it can, the others are
\* removed at once.
CompactFiles(c, up_to_log_index, outdated) ==
    LET removed == {start \in DOMAIN c.existing_changelogs :
                        \A s \in DOMAIN c.existing_changelogs :
                            s <= start => outdated[s]}
        need_rotate == \E start \in removed :
                           /\ c.current_writer # None
                           /\ c.existing_changelogs[start].from
                                  = c.current_writer.start
        room == QueueSize - Cardinality(c.to_delete)
        pushed == {start \in removed :
                       Cardinality({s \in removed : s < start}) < room}
        PathsOf(starts) == {c.existing_changelogs[s].from : s \in starts}
        closed == IF need_rotate
                  THEN [flush(c) EXCEPT !.current_writer = None]
                  ELSE c
        compacted ==
            [closed EXCEPT
                !.to_delete = (@ \cup PathsOf(pushed)) \ {0},
                !.files = DropAll(@, PathsOf(removed \ pushed)),
                !.existing_changelogs = DropAll(@, removed),
                !.min_log_id = Max({@, up_to_log_index + 1}),
                !.max_log_id = Max({@, up_to_log_index}),
                !.logs = Above(@, up_to_log_index)]
    IN  IF need_rotate
        THEN rotate(compacted, up_to_log_index + 1)
        ELSE compacted

\* The writer is closed and not replaced.
compactAndClose(c, up_to_log_index) ==
    [CompactFiles(c, up_to_log_index,
                  [start \in DOMAIN c.existing_changelogs |->
                      \/ up_to_log_index > c.max_log_id
                      \/ c.existing_changelogs[start].to <= up_to_log_index])
        EXCEPT !.current_writer = None]

\* The entries stay in memory.
compactFilesOnly(c, up_to_log_index) ==
    [CompactFiles(c, up_to_log_index,
                  [start \in DOMAIN c.existing_changelogs |->
                      \/ up_to_log_index > c.max_log_id
                      \/ c.existing_changelogs[start].to <= up_to_log_index])
        EXCEPT !.logs = c.logs]

\* A file goes that begins before the index.
compactBegun(c, up_to_log_index) ==
    CompactFiles(c, up_to_log_index,
                 [start \in DOMAIN c.existing_changelogs |->
                     \/ up_to_log_index > c.max_log_id
                     \/ start <= up_to_log_index])

compact(c, up_to_log_index) ==
    CompactFiles(c, up_to_log_index,
                 [start \in DOMAIN c.existing_changelogs |->
                     \/ up_to_log_index > c.max_log_id
                     \/ c.existing_changelogs[start].to <= up_to_log_index])

\* One turn of cleanLogThread.
cleanLog(c) ==
    LET path == Min(c.to_delete)
    IN  [c EXCEPT !.to_delete = @ \ {path}, !.files = DropAll(@, {path})]

-----------------------------------------------------------------------------
(***************************************************************************)
(* Starting from what is on disk.                                          *)
(***************************************************************************)

\* The records of a file are added to the log.  One that is there already
\* ends the log in front of it; one below start_log_index only counts.
readChangelog(file, logs, start_log_index) ==
    LET Wanted == {n \in 1 .. Len(file.records) :
                       file.records[n].index >= start_log_index}
        read[n \in 0 .. Len(file.records)] ==
            IF n = 0 THEN logs
            ELSE LET index == file.records[n].index
                     known == IF index \in DOMAIN read[n - 1]
                              THEN Below(read[n - 1], index)
                              ELSE read[n - 1]
                 IN  IF n \in Wanted
                     THEN Put(known, index, file.records[n].term)
                     ELSE known
    IN  [logs |-> read[Len(file.records)],
         total |-> Len(file.records),
         first |-> IF Wanted = {} THEN 0 ELSE file.records[Min(Wanted)].index,
         last |-> IF Wanted = {} THEN 0 ELSE file.records[Max(Wanted)].index,
         error |-> file.torn]

\* The object the constructor makes of a directory.
NewChangelog(files) ==
    [existing_changelogs |-> [from \in DOMAIN files |->
                                 [from |-> from, to |-> files[from].to]],
     current_writer |-> None, buffer |-> <<>>, logs |-> <<>>,
     min_log_id |-> 0, max_log_id |-> 0, files |-> files, to_delete |-> {}]

\* One file of the loop below: r is what the loop has found so far, result
\* what the file holds.  The loop stops where records are missing in front of
\* the first file, at a file with an error and at one with fewer records than
\* its name says.
ReadFile(r, from, result, expected, last_commited_log_index) ==
    IF ~r.read_any /\ from > last_commited_log_index + 1
    THEN [r EXCEPT !.lost = TRUE, !.stop = TRUE]
    ELSE [r EXCEPT
             !.logs = result.logs,
             !.read_any = TRUE,
             !.last_read = result.last,
             !.error = result.error,
             !.log_start_index = from,
             !.min = IF @ = 0 /\ ~result.error THEN result.first ELSE @,
             !.max = IF result.last # 0 /\ ~result.error
                     THEN result.last
                     ELSE @,
             !.stop = result.error \/ result.total < expected]

\* The loop over the files from start_to_read_from on.
ReadFiles(c, last_commited_log_index, start_to_read_from) ==
    LET init == [logs |-> <<>>, min |-> 0, max |-> 0, read_any |-> FALSE,
                 stop |-> FALSE, lost |-> FALSE, last_read |-> 0,
                 error |-> FALSE, log_start_index |-> 0]
        after[i \in 0 .. Max({0} \cup DOMAIN c.files)] ==
            IF i = 0 THEN init
            ELSE IF /\ i \in DOMAIN c.files
                    /\ ~after[i - 1].stop
                    /\ c.existing_changelogs[i].to >= start_to_read_from
            THEN ReadFile(after[i - 1], i,
                          readChangelog(c.files[i], after[i - 1].logs,
                                        start_to_read_from),
                          expectedEntriesCountInLog(c.existing_changelogs[i]),
                          last_commited_log_index)
            ELSE after[i - 1]
    IN  after[Max({0} \cup DOMAIN c.files)]

\* Nothing of the log is used: it starts anew after the snapshot.
StartAnew(c, last_commited_log_index) ==
    rotate([NewChangelog(<<>>) EXCEPT !.min_log_id = last_commited_log_index,
                                      !.max_log_id = last_commited_log_index - 1],
           last_commited_log_index)

StartToReadFrom(last_commited_log_index, logs_to_keep) ==
    IF last_commited_log_index > logs_to_keep
    THEN last_commited_log_index - logs_to_keep
    ELSE 1

\* What the loop has found, r, in memory.
Loaded(c, r) ==
    [c EXCEPT !.logs = r.logs, !.min_log_id = r.min, !.max_log_id = r.max]

\* The files after the last one read go, and their entries.
Truncated(c, r, later) ==
    RemoveLater([Loaded(c, r) EXCEPT !.logs =
                     IF later = {} THEN @ ELSE Below(@, Min(later))],
                r.log_start_index, Cardinality(later))

\* The rest of the constructor, after the loop.
InitWriter(c, r, last_commited_log_index) ==
    IF \/ r.lost \/ ~r.read_any \/ r.min = 0
       \/ r.max < last_commited_log_index - 1
    THEN StartAnew(c, last_commited_log_index)
    ELSE IF ~r.stop
    THEN rotate(Loaded(c, r), r.max + 1)
    ELSE IF r.last_read = 0 \/ r.error
    THEN rotate([Truncated(c, r, LaterFiles(c, r.log_start_index)) EXCEPT
                    !.files = Drop(@, r.log_start_index),
                    !.existing_changelogs = Drop(@, r.log_start_index),
                    !.logs = Below(@, r.log_start_index)],
                r.max + 1)
    ELSE [Truncated(c, r, LaterFiles(c, r.log_start_index)) EXCEPT
             !.current_writer = [file |-> r.log_start_index,
                                 start |-> r.log_start_index]]

\* KeeperServer passes the index after the snapshot, never 0.
readChangelogAndInitWriter(c, last_commited_log_index, logs_to_keep) ==
    InitWriter(c,
               ReadFiles(c, last_commited_log_index,
                         StartToReadFrom(last_commited_log_index,
                                         logs_to_keep)),
               last_commited_log_index)
=============================================================================
