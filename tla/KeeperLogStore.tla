--------------------------- MODULE KeeperLogStore ---------------------------
(***************************************************************************)
(* The log store of a replica as NuRaft uses it, with crashes and restarts *)
(* (src/Coordination/KeeperLogStore.cpp over Changelog.cpp).  Every call   *)
(* holds changelog_lock and is one step; cleanLogThread removes compacted  *)
(* files without it.                                                       *)
(*                                                                         *)
(* NuRaft appends entries of the current term and flushes them at the end  *)
(* of a batch; only then are they acknowledged.  A new leader overwrites   *)
(* entries that are not in a snapshot, with a higher term.                 *)
(***************************************************************************)
EXTENDS Changelog

CONSTANTS
    reserved_log_items,  \* kept by compaction and read at the start
    Faults,              \* the circumstances of Fault that may happen
    MaxIndex,            \* bound: log index
    MaxTerm,             \* bound: term
    MaxCrashes,          \* bound: crashes
    MaxFaults            \* bound: different faults in a behaviour

\* Four circumstances the log does not survive unharmed.
\*   overwrite   an entry inside an older file is overwritten
\*   halfway     a crash while writeAt removes the later files
\*   torn        a crash in the middle of a record
\*   uncleaned   a crash before cleanLogThread has removed the files that a
\*               snapshot of the leader made superfluous
Fault == {"overwrite", "halfway", "torn", "uncleaned"}

ASSUME LogStoreAssumption ==
    /\ reserved_log_items \in Nat
    /\ Faults \subseteq Fault

VARIABLES
    changelog,
    snapshot_idx,        \* of the newest snapshot on disk
    term,                \* of the leader
    acked,               \* index -> term, entries NuRaft has acknowledged
    happened,            \* faults so far
    crashes

vars == <<changelog, snapshot_idx, term, acked, happened, crashes>>

\* KeeperServer::startup.
Started(files, idx) ==
    readChangelogAndInitWriter(NewChangelog(files), idx + 1,
                               reserved_log_items)

Init ==
    /\ changelog = Started(<<>>, 0)
    /\ snapshot_idx = 0
    /\ term = 1
    /\ acked = <<>>
    /\ happened = {}
    /\ crashes = 0

-----------------------------------------------------------------------------
next_slot == changelog.max_log_id + 1

append ==
    /\ next_slot <= MaxIndex
    /\ changelog' = appendEntry(changelog, next_slot, term)
    /\ UNCHANGED <<snapshot_idx, term, acked, happened, crashes>>

\* The faults happen if the instance allows them.
Happen(faults) ==
    /\ faults \subseteq Faults
    /\ Cardinality(happened \cup faults) <= MaxFaults
    /\ happened' = happened \cup faults

OverwriteFault(index) ==
    IF LeavesFile(changelog, index) /\ ~StartsAt(changelog, index)
    THEN {"overwrite"}
    ELSE {}

Overwritable == {i \in DOMAIN changelog.logs : i > snapshot_idx}

\* A conflict with the new leader.
write_at ==
    /\ term < MaxTerm
    /\ \E index \in Overwritable :
           /\ CanWriteAt(changelog, index)
           /\ Happen(OverwriteFault(index))
           /\ changelog' = writeAt(changelog, index, term + 1)
           /\ acked' = Below(acked, index)
    /\ term' = term + 1
    /\ UNCHANGED <<snapshot_idx, crashes>>

\* A pack of two entries of a new leader.
apply_pack ==
    /\ term < MaxTerm
    /\ \E index \in Overwritable \cup {next_slot} :
           /\ index < MaxIndex
           /\ CanWriteAt(changelog, index)
           /\ Happen(OverwriteFault(index))
           /\ changelog' =
                  applyEntriesFromBuffer(changelog, index, 2, term + 1)
           /\ acked' = Below(acked, index)
    /\ term' = term + 1
    /\ UNCHANGED <<snapshot_idx, crashes>>

\* The end of a batch is not flushed.
ackUnflushed ==
    /\ changelog.buffer # <<>>
    /\ acked' = changelog.logs
    /\ UNCHANGED <<changelog, snapshot_idx, term, happened, crashes>>

end_of_append_batch ==
    /\ changelog.buffer # <<>>
    /\ changelog' = flush(changelog)
    /\ acked' = changelog.logs
    /\ UNCHANGED <<snapshot_idx, term, happened, crashes>>

\* A snapshot of committed entries is on disk.
Snapshot ==
    /\ \E index \in DOMAIN acked \cap DOMAIN changelog.logs :
           /\ index > snapshot_idx
           /\ snapshot_idx' = index
    /\ UNCHANGED <<changelog, term, acked, happened, crashes>>

\* After a snapshot NuRaft keeps reserved_log_items entries.
CompactReserved ==
    /\ snapshot_idx > reserved_log_items
    /\ changelog' = compact(changelog, snapshot_idx - reserved_log_items)
    /\ acked' = Above(acked, snapshot_idx - reserved_log_items)
    /\ UNCHANGED <<snapshot_idx, term, happened, crashes>>

\* A snapshot of the leader that is ahead of the log has been saved.
CompactForLeader ==
    /\ \E index \in changelog.max_log_id + 1 .. MaxIndex :
           /\ snapshot_idx' = index
           /\ changelog' = compact(changelog, index)
    /\ acked' = <<>>
    /\ UNCHANGED <<term, happened, crashes>>

cleanLogThread ==
    /\ changelog.to_delete # {}
    /\ changelog' = cleanLog(changelog)
    /\ UNCHANGED <<snapshot_idx, term, acked, happened, crashes>>

-----------------------------------------------------------------------------
(***************************************************************************)
(* Crashes.  Of the records that were not flushed a prefix is on disk, and *)
(* perhaps a part of the next one.                                         *)
(***************************************************************************)

FilesAfterCrash(c, n, torn) ==
    LET written == [c EXCEPT !.buffer = SubSeq(@, 1, n)]
        file == c.current_writer.file
    IN  IF file \in DOMAIN c.files
        THEN [flush(written).files EXCEPT ![file].torn = torn]
        ELSE c.files

\* A file that waits for its removal and will be read.
Uncleaned ==
    \E file \in changelog.to_delete \cap DOMAIN changelog.files :
        changelog.files[file].to
            >= StartToReadFrom(snapshot_idx + 1, reserved_log_items)

Crash ==
    /\ crashes < MaxCrashes
    /\ crashes' = crashes + 1
    /\ \E n \in 0 .. Len(changelog.buffer), torn \in BOOLEAN :
           /\ torn => n < Len(changelog.buffer)
           /\ Happen((IF torn THEN {"torn"} ELSE {})
                         \cup (IF Uncleaned THEN {"uncleaned"} ELSE {}))
           /\ changelog' = Started(FilesAfterCrash(changelog, n, torn),
                                   snapshot_idx)
    /\ UNCHANGED <<snapshot_idx, term, acked>>

\* A crash in writeAt when it has removed n of the later files.
CrashInWriteAt ==
    /\ crashes < MaxCrashes
    /\ crashes' = crashes + 1
    /\ term < MaxTerm
    /\ ~Uncleaned
    /\ \E index \in Overwritable :
           /\ LeavesFile(changelog, index)
           /\ CanWriteAt(changelog, index)
           /\ \E n \in 0 .. Cardinality(LaterFiles(changelog, index)) :
                  /\ Happen(IF n \in {0, Cardinality(LaterFiles(changelog,
                                                               index))}
                            THEN {}
                            ELSE {"halfway"})
                  /\ changelog' =
                         Started(RemoveLater(Reopen(changelog, index), index,
                                             n).files, snapshot_idx)
           /\ acked' = Below(acked, index)
    /\ UNCHANGED <<snapshot_idx, term>>

-----------------------------------------------------------------------------
Next ==
    \/ append \/ write_at \/ apply_pack \/ end_of_append_batch
    \/ Snapshot \/ CompactReserved \/ CompactForLeader
    \/ cleanLogThread
    \/ Crash \/ CrashInWriteAt

Spec == Init /\ [][Next]_vars

-----------------------------------------------------------------------------
(***************************************************************************)
(* Properties.                                                             *)
(***************************************************************************)

Entry == [index : 1 .. MaxIndex, term : 1 .. MaxTerm]

TermsAt(f) ==
    /\ DOMAIN f \subseteq 1 .. MaxIndex
    /\ \A i \in DOMAIN f : f[i] \in 1 .. MaxTerm

\* The log in memory, the writer, the files on disk and the ghosts have their
\* types.  Between two calls there is a writer, and the queue of files to
\* remove is within its capacity.
TypeOK ==
    /\ TermsAt(changelog.logs)
    /\ changelog.min_log_id \in 1 .. MaxIndex + 1
    /\ changelog.max_log_id \in 0 .. MaxIndex
    /\ changelog.current_writer \in [file : 1 .. MaxIndex + 1,
                                     start : 1 .. MaxIndex + 1]
    /\ changelog.buffer \in Seq(Entry)
    /\ DOMAIN changelog.existing_changelogs \subseteq 1 .. MaxIndex + 1
    /\ \A from \in DOMAIN changelog.existing_changelogs :
           changelog.existing_changelogs[from]
               \in {Description(from), NoDescription}
    /\ DOMAIN changelog.files \subseteq 1 .. MaxIndex + 1
    /\ \A from \in DOMAIN changelog.files :
           /\ changelog.files[from].to = Description(from).to
           /\ changelog.files[from].records \in Seq(Entry)
           /\ changelog.files[from].torn \in BOOLEAN
    /\ changelog.to_delete \subseteq 1 .. MaxIndex + 1
    /\ Cardinality(changelog.to_delete) <= QueueSize
    /\ snapshot_idx \in 0 .. MaxIndex
    /\ term \in 1 .. MaxTerm
    /\ TermsAt(acked)
    /\ happened \subseteq Fault /\ Cardinality(happened) <= MaxFaults
    /\ crashes \in 0 .. MaxCrashes

\* The log in memory has no gap: next_slot() and start_index(), which NuRaft
\* goes by, delimit exactly the entries entryAt() finds.
LogContiguous ==
    DOMAIN changelog.logs = changelog.min_log_id .. changelog.max_log_id

\* LogContiguous through appends, overwriting, packs, compaction and crashes,
\* unless one interrupted writeAt between two removals of files, or tore a
\* record.
LogContiguousUnharmed ==
    happened \cap {"halfway", "torn"} = {} => LogContiguous

\* Terms never decrease along the log: no entry that writeAt replaced comes
\* back behind one that replaced it, whatever readChangelogAndInitWriter
\* finds on disk.
TermsMonotone ==
    \A i, j \in DOMAIN changelog.logs :
        i < j => changelog.logs[i] <= changelog.logs[j]

\* Entries that were acknowledged after end_of_append_batch and that no
\* snapshot covers survive rotation, compaction, overwriting of others, and
\* crashes.
AckedSurvive ==
    \A i \in DOMAIN acked :
        i > snapshot_idx =>
            i \in DOMAIN changelog.logs /\ changelog.logs[i] = acked[i]

\* AckedSurvive without the faults that readChangelogAndInitWriter answers
\* by giving up a file or all of them.
AckedSurviveUnharmed == happened \subseteq {"halfway"} => AckedSurvive

\* The name of a file tells which records are in it, and compact may go by
\* the name, as long as writeAt only overwrites the current file or the
\* beginning of an older one.
FilesHoldTheirRange ==
    "overwrite" \notin happened =>
        \A from \in DOMAIN changelog.files :
            \A n \in 1 .. Len(changelog.files[from].records) :
                changelog.files[from].records[n].index
                    \in from .. changelog.files[from].to

\* ~Changelog() followed by readChangelogAndInitWriter gives the log that was
\* in memory, from the first reserved entry on.
CleanRestart ==
    happened \subseteq {"halfway"} =>
        LET stopped == DropAll(flush(changelog).files, changelog.to_delete)
            first == StartToReadFrom(snapshot_idx + 1, reserved_log_items)
            started == Started(stopped, snapshot_idx)
        IN  /\ started.logs = Above(changelog.logs, first - 1)
            /\ started.max_log_id = changelog.max_log_id
=============================================================================
