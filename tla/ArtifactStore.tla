---------------------------- MODULE ArtifactStore ----------------------------
(***************************************************************************)
(* The bounded store in which the MCP server keeps the results of its      *)
(* operations (ale_bench_mcp/store.py), under the calls that Service makes *)
(* of it (ale_bench_mcp/service.py).                                       *)
(*                                                                         *)
(* A call of the server is serial: nothing else happens in the store while *)
(* a benchmark operation runs, but its time passes.  An artifact is its    *)
(* place in the order of access, its times and the sizes of its files.     *)
(***************************************************************************)
EXTENDS Naturals, Sequences, SequencesExt, FiniteSetsExt

CONSTANTS
    MaxBytes,       \* max_bytes
    MaxRecords,     \* max_records
    Retention,      \* retention_seconds
    SummaryBytes,   \* SUMMARY_BYTES
    EntryBytes,     \* FILE_ENTRY_BYTES
    Sizes,          \* the sizes a file of details can have
    MaxFiles,       \* bound: files of one artifact
    MaxIds,         \* bound: operations begun
    MaxNow          \* bound: the clock

\* ServerConfig refuses a quota below four summaries.
ASSUME ArtifactStoreAssumption ==
    /\ {MaxRecords, Retention, SummaryBytes, EntryBytes, MaxFiles, MaxIds} \subseteq Nat \ {0}
    /\ {MaxBytes, MaxNow} \cup Sizes \subseteq Nat
    /\ MaxBytes >= 4 * SummaryBytes

VARIABLES
    now,        \* time.monotonic()
    records,    \* the artifacts, the least recently accessed first
    removed,    \* the reasons of those forgotten, the oldest first
    begun,      \* how many identifiers were given out; they are 1..begun
    work        \* the call in progress, between two calls of the store

storeVars == <<now, records, removed, begun, work>>

Reasons == {"none", "evicted", "storage_limit", "storage_io_error"}
Causes == {"expired", "capacity", "failed"}
FileLists == SeqOf(Sizes, MaxFiles)

\* given and done are history: the files the operation produced, and when.
Artifact == [id : 1..begun, created : 0..now,
             files : FileLists, reason : Reasons, given : FileLists, done : 0..now]

Idle == [op |-> "none", id |-> 0, pending |-> <<>>]

StoreTypeOK ==
    /\ now \in 0..MaxNow
    /\ begun \in 0..MaxIds
    /\ records \in Seq(Artifact)
    /\ removed \in Seq([id : 1..begun, cause : Causes])
    /\ work \in [op : {"none", "run", "store", "draw"}, id : 0..begun, pending : FileLists]

StoreInit ==
    /\ now = 0
    /\ records = <<>>
    /\ removed = <<>>
    /\ begun = 0
    /\ work = Idle

-----------------------------------------------------------------------------
(* The private operations of the store, as functions of its records.       *)

Total(bytes) ==
    LET sum[n \in 0..Len(bytes)] == IF n = 0 THEN 0 ELSE sum[n - 1] + bytes[n]
    IN  sum[Len(bytes)]
Size(r) == SummaryBytes + Total([i \in DOMAIN r.files |-> r.files[i] + EntryBytes])
Used(rs) == Total([i \in DOMAIN rs |-> Size(rs[i])])
Room(rs, size) == Used(rs) + size <= MaxBytes

Drop(r, reason) == [r EXCEPT !.files = <<>>, !.reason = reason]

\* Mutant: the most recently accessed go first.
EvictFirst_Newest(rs, k, exclude) ==
    [i \in DOMAIN rs |->
        IF i > Len(rs) - k /\ rs[i].id # exclude /\ rs[i].files # <<>>
        THEN Drop(rs[i], "evicted")
        ELSE rs[i]]

\* The first k records lose their details, except the one that needs the room.
EvictFirst(rs, k, exclude) ==
    [i \in DOMAIN rs |->
        IF i <= k /\ rs[i].id # exclude /\ rs[i].files # <<>>
        THEN Drop(rs[i], "evicted")
        ELSE rs[i]]

\* Mutant: the loop drops before it looks.
MakeRoom_DropsThenChecks(rs, size, exclude) ==
    LET enough == {k \in 1..Len(rs) : Room(EvictFirst(rs, k, exclude), size)}
    IN  EvictFirst(rs, Min(enough \cup {Len(rs)}), exclude)

\* _make_room: as few of them as it takes, or all.
MakeRoom(rs, size, exclude) ==
    LET enough == {k \in 0..Len(rs) : Room(EvictFirst(rs, k, exclude), size)}
    IN  EvictFirst(rs, Min(enough \cup {Len(rs)}), exclude)

\* The records in S, in the order of rs.
Those(rs, S) ==
    LET kept[n \in 0..Len(rs)] ==
            IF n = 0 THEN <<>>
            ELSE IF rs[n] \in S THEN Append(kept[n - 1], rs[n]) ELSE kept[n - 1]
    IN  kept[Len(rs)]

Expired(r) == now - r.created >= Retention
Prune(rs) == Those(rs, {r \in ToSet(rs) : ~Expired(r)})

\* _forget writes the reason down, and keeps the latest MaxRecords of them.
Latest(rs) == SubSeq(rs, 1 + (IF Len(rs) > MaxRecords THEN Len(rs) - MaxRecords ELSE 0), Len(rs))
ReasonsOf(rs, cause) == [i \in DOMAIN rs |-> [id |-> rs[i].id, cause |-> cause]]
PruneReasons(rs) == ReasonsOf(Those(rs, {r \in ToSet(rs) : Expired(r)}), "expired")

\* Mutant: whole artifacts go before the details of others.
Reserve_SummariesFirst(rs) ==
    LET full == IF Len(rs) >= MaxRecords THEN Len(rs) - MaxRecords + 1 ELSE 0
        After(n) == SubSeq(rs, n + 1, Len(rs))
    IN  After(Min({n \in full..Len(rs) : Room(After(n), SummaryBytes)}))

\* The loop of begin: the oldest records go while the index is full, or while
\* the quota has no room for a summary though no record has details left.
Reserve(rs) ==
    LET full == IF Len(rs) >= MaxRecords THEN Len(rs) - MaxRecords + 1 ELSE 0
        After(n) == SubSeq(rs, n + 1, Len(rs))
        Bare(n) == EvictFirst(After(n), Len(rs), 0)
        n == Min({m \in full..Len(rs) : Room(Bare(m), SummaryBytes)})
    IN  IF n = full THEN MakeRoom(After(n), SummaryBytes, 0) ELSE Bare(n)

Live(id) == \E i \in DOMAIN records : records[i].id = id
TheRecord(id) == records[CHOOSE i \in DOMAIN records : records[i].id = id]
With(rs, r) == [i \in DOMAIN rs |-> IF rs[i].id = r.id THEN r ELSE rs[i]]
Without(rs, id) == Those(rs, {r \in ToSet(rs) : r.id # id})

-----------------------------------------------------------------------------
(* An operation: begin, the benchmark's own work, then discard or finish.  *)

Begin ==
    /\ work = Idle
    /\ begun < MaxIds
    /\ begun' = begun + 1
    /\ LET kept == Prune(records)
           room == Reserve(kept)
           oldest == SubSeq(kept, 1, Len(kept) - Len(room))
       IN  /\ records' = Append(room, [id |-> begun + 1, created |-> now, done |-> now,
                                       files |-> <<>>, given |-> <<>>, reason |-> "none"])
           /\ removed' = Latest(removed \o PruneReasons(records) \o ReasonsOf(oldest, "capacity"))
    /\ work' = [op |-> "run", id |-> begun + 1, pending |-> <<>>]
    /\ UNCHANGED now

\* discard
Fails ==
    /\ work.op = "run"
    /\ records' = Without(records, work.id)
    /\ removed' = Latest(Append(removed, [id |-> work.id, cause |-> "failed"]))
    /\ work' = Idle
    /\ UNCHANGED <<now, begun>>

\* Mutant: the lifetime starts with the operation.
Completed_LifetimeFromBegin(files) == [TheRecord(work.id) EXCEPT !.done = now, !.given = files]

\* finish, up to the first file: the lifetime of the artifact starts here.
Completed(files) ==
    [TheRecord(work.id) EXCEPT !.created = now, !.done = now, !.given = files]

Finish(files) ==
    /\ work.op = "run"
    /\ records' = With(records, Completed(files))
    /\ work' = [work EXCEPT !.op = "store", !.pending = files]
    /\ UNCHANGED <<now, removed, begun>>

\* The summary itself cannot be written; it is still kept in memory.
SummaryIOError(files) ==
    /\ work.op = "run"
    /\ records' = With(records, Drop(Completed(files), "storage_io_error"))
    /\ work' = Idle
    /\ UNCHANGED <<now, removed, begun>>

\* Mutant: no room for the file's entry in the index.
Needed_DataOnly == Head(work.pending)

Needed == Head(work.pending) + EntryBytes
Made == MakeRoom(records, Needed, work.id)

\* Mutant: records what was reserved instead of what was written.
StoreFile_Reservation ==
    /\ work.op = "store"
    /\ work.pending # <<>>
    /\ Room(Made, Needed)
    /\ records' = With(Made, [TheRecord(work.id) EXCEPT !.files = Append(@, Needed)])
    /\ work' = [work EXCEPT !.pending = Tail(@)]
    /\ UNCHANGED <<now, removed, begun>>

StoreFile ==
    /\ work.op = "store"
    /\ work.pending # <<>>
    /\ Room(Made, Needed)
    /\ records' = With(Made, [TheRecord(work.id) EXCEPT !.files = Append(@, Head(work.pending))])
    /\ work' = [work EXCEPT !.pending = Tail(@)]
    /\ UNCHANGED <<now, removed, begun>>

\* Mutant: stops at the file that does not fit.
StorageLimit_KeepsTheFirst ==
    /\ work.op = "store"
    /\ work.pending # <<>>
    /\ ~Room(Made, Needed)
    /\ records' = Made
    /\ work' = [work EXCEPT !.pending = <<>>]
    /\ UNCHANGED <<now, removed, begun>>

\* A result too large for the store loses all its details.
StorageLimit ==
    /\ work.op = "store"
    /\ work.pending # <<>>
    /\ ~Room(Made, Needed)
    /\ records' = With(Made, Drop(TheRecord(work.id), "storage_limit"))
    /\ work' = [work EXCEPT !.pending = <<>>]
    /\ UNCHANGED <<now, removed, begun>>

\* The file cannot be written: the same.
FileIOError ==
    /\ work.op = "store"
    /\ work.pending # <<>>
    /\ Room(Made, Needed)
    /\ records' = With(Made, Drop(TheRecord(work.id), "storage_io_error"))
    /\ work' = [work EXCEPT !.pending = <<>>]
    /\ UNCHANGED <<now, removed, begun>>

Finished ==
    /\ work.op = "store"
    /\ work.pending = <<>>
    /\ work' = Idle
    /\ UNCHANGED <<now, records, removed, begun>>

-----------------------------------------------------------------------------
(* get, and what its callers do with the artifact.                         *)

\* The records after get, which returns an artifact that is there to the session
\* that made it, asking for its kind.
Found(id) == Live(id) /\ ~Expired(TheRecord(id))

Accessed(id, own) ==
    IF own /\ Found(id)
    THEN Append(Without(Prune(records), id), TheRecord(id))
    ELSE Prune(records)

\* A resource is read, or an error says why it cannot be.
Read(id, own) ==
    /\ work = Idle
    /\ records' = Accessed(id, own)
    /\ removed' = Latest(removed \o PruneReasons(records))
    /\ UNCHANGED <<now, begun, work>>

\* visualize reads the input and the output of a case, then draws.
Draw(id) ==
    /\ work = Idle
    /\ Found(id)
    /\ TheRecord(id).reason = "none"
    /\ TheRecord(id).files # <<>>
    /\ Len(TheRecord(id).files) < MaxFiles
    /\ records' = Accessed(id, TRUE)
    /\ removed' = Latest(removed \o PruneReasons(records))
    /\ work' = [op |-> "draw", id |-> id, pending |-> <<>>]
    /\ UNCHANGED <<now, begun>>

DrawFails ==
    /\ work.op = "draw"
    /\ work' = Idle
    /\ UNCHANGED <<now, records, removed, begun>>

\* add_image: without room, or when the write fails, the image is not kept, but
\* the details evicted for it are gone.
AddImage(size) ==
    /\ work.op = "draw"
    /\ LET made == MakeRoom(records, size + EntryBytes, work.id)
           r == TheRecord(work.id)
       IN  \/ records' = made
           \/ /\ Room(made, size + EntryBytes)
              /\ records' = With(made, [r EXCEPT !.files = Append(@, size),
                                                !.given = Append(@, size)])
    /\ work' = Idle
    /\ UNCHANGED <<now, removed, begun>>

-----------------------------------------------------------------------------
Tick ==
    /\ now < MaxNow
    /\ now' = now + 1
    /\ UNCHANGED <<records, removed, begun, work>>

StoreNext ==
    \/ Begin
    \/ \E id \in 1..begun : Draw(id) \/ \E own \in BOOLEAN : Read(id, own)
    \/ Fails
    \/ \E files \in FileLists : Finish(files) \/ SummaryIOError(files)
    \/ StoreFile
    \/ StorageLimit
    \/ FileIOError
    \/ Finished
    \/ DrawFails
    \/ \E size \in Sizes : AddImage(size)
    \/ Tick

StoreSpec == StoreInit /\ [][StoreNext]_storeVars

-----------------------------------------------------------------------------
(* Properties.                                                             *)

\* The accounted bytes never exceed the quota, nor the index and the reasons
\* their number, the operation that is running included.
WithinQuota ==
    /\ Used(records) <= MaxBytes
    /\ Len(records) <= MaxRecords
    /\ Len(removed) <= MaxRecords

\* An artifact that says its details are available has every file its operation
\* produced, and one that says they are not has none and takes no room for them:
\* no failure halfway leaves a part.
WholeOrNoDetails ==
    \A i \in DOMAIN records :
        /\ records[i].reason # "none" => records[i].files = <<>>
        /\ records[i].reason = "none" /\ records[i].id # work.id =>
              records[i].files = records[i].given

Ids(rs) == {rs[i].id : i \in DOMAIN rs}
LosesDetails(r) ==
    /\ r.files # <<>>
    /\ \E i \in DOMAIN records' : records'[i].id = r.id /\ records'[i].reason = "evicted"

\* Details are evicted in the order of access: when an artifact loses them, none
\* accessed before it has any left, but the one the room is made for.
EvictsOldestFirst ==
    [][\A j \in DOMAIN records : LosesDetails(records[j]) =>
          \A i \in 1..(j - 1) : records[i].id # work.id =>
              \A k \in DOMAIN records' : records'[k].id = records[i].id =>
                  records'[k].files = <<>>]_storeVars

\* No more is evicted than a new artifact or a new file needs: with the details of the
\* last artifact that lost them, the store would be over its quota.
NewOrGrown(r) ==
    \A i \in DOMAIN records : records[i].id = r.id => Len(r.files) > Len(records[i].files)
EvictsOnlyWhenNeeded ==
    [][/\ Ids(records) \subseteq Ids(records')
       /\ \E i \in DOMAIN records' : NewOrGrown(records'[i])
       => \A j \in DOMAIN records :
              LosesDetails(records[j])
                /\ (\A k \in DOMAIN records : k > j => ~LosesDetails(records[k]))
              => Used(records') + Size(records[j]) - SummaryBytes > MaxBytes]_storeVars

\* A summary outlives the details of every artifact: before its lifetime is over
\* it goes only with its own operation's failure, or to make room for a new one
\* in an index that is full, of number or, with no details left, of bytes.
ForgetsOnlyWhenNeeded ==
    [][\A i \in DOMAIN records :
          \/ records[i].id \in Ids(records')
          \/ records[i].id = work.id
          \/ Expired(records[i])
          \/ Len(records') = MaxRecords
          \/ /\ Used(records') + SummaryBytes > MaxBytes
             /\ \A k \in DOMAIN records' : records'[k].files = <<>>]_storeVars

\* The lifetime runs from the completion of the operation, however long that
\* took and however often the artifact was read since: none expires before its
\* end, and past it no access finds one.
LifetimeFromCompletion ==
    [][/\ \A i \in DOMAIN removed' :
             removed'[i].cause = "expired" /\ removed'[i].id \in Ids(records) =>
                 now - TheRecord(removed'[i].id).done >= Retention
       /\ Begin \/ (\E id \in 1..begun, own \in BOOLEAN : Read(id, own)) =>
             \A k \in DOMAIN records' : now - records'[k].done < Retention]_storeVars

-----------------------------------------------------------------------------
(* What makes the invariants above inductive.                              *)

\* An artifact is in the store once, its lifetime is that of its completion, and
\* what was forgotten does not come back.
Indexed ==
    /\ \A i, j \in DOMAIN records : records[i].id = records[j].id => i = j
    /\ \A i \in DOMAIN records : records[i].created = records[i].done
    /\ \A i \in DOMAIN removed, j \in DOMAIN records : removed[i].id # records[j].id

\* The artifact of the call in progress: empty while its operation runs, then what
\* is stored and what is still to be stored are all its operation produced, or it has
\* lost its details and nothing more is to be stored.
InProgress(r) ==
    /\ work.op = "run" => r.files = <<>> /\ r.given = <<>> /\ r.reason = "none"
    /\ work.op = "store" /\ r.reason = "none" => r.given = r.files \o work.pending
    /\ work.op = "store" /\ r.reason # "none" => work.pending = <<>>
    /\ work.op = "draw" => r.reason = "none" /\ r.files = r.given /\ Len(r.files) < MaxFiles

Working ==
    IF work.op = "none" THEN work = Idle
    ELSE /\ Live(work.id)
         /\ \A i \in DOMAIN records : records[i].id = work.id => InProgress(records[i])

StoreInv == StoreTypeOK /\ WithinQuota /\ WholeOrNoDetails /\ Indexed /\ Working

=============================================================================
