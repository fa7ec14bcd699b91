---------------------------- MODULE ArchiveWriter -----------------------------
(***************************************************************************)
(* The archive of answered requests: archive_successful_response under the *)
(* mutex of archive_writers, ArchiveWriter (write_conversation,            *)
(* close_segment) and the files below the archive's root.  Every request   *)
(* appends one record to the open segment and seals it.                    *)
(*                                                                         *)
(* Each call of tokio::fs hands one operation to the blocking pool.  The   *)
(* request awaits it, except that a write to an open file is awaited by    *)
(* the next operation on the same handle, which also gets its error.  A    *)
(* caller that leaves drops the handler at any await: the mutex is         *)
(* released, the segment stays if it was not taken, and the operation in   *)
(* the pool still takes place.  A restarted process begins a new archive   *)
(* in a directory of its own.                                              *)
(*                                                                         *)
(* Abstracted: what a record says and how long it is (a file is a sequence *)
(* of pieces, written at offsets), compression (a file has the bytes it    *)
(* was made from), checksums (they stand for the content), the change of   *)
(* the month and of the capture mode, which only select another writer.    *)
(* Of two writes that fill a file at once the later one is taken whole.    *)
(***************************************************************************)
EXTENDS Integers, Sequences, FiniteSets, SequencesExt

CONSTANTS
  Requests,   \* requests whose answers are archived
  None,
  MaxFaults   \* bound of the model: failing operations, callers leaving, crashes

\* The pieces of a file: records (named by their requests), line ends, other bytes.
Newline == "newline"
Scrap == "scrap"

ASSUME ArchiveAssumption ==
  /\ MaxFaults \in Nat
  /\ Requests # {} /\ Requests \cap {None, Newline, Scrap} = {}

Archives == 1 .. MaxFaults + 1

VARIABLES
  pc,
  local,     \* what a request has taken: the segment, then its sealed file
  lock,      \* holder of the mutex around the writers
  archive,   \* the archive of the running process
  segment,   \* current_segment and its handle, or NoSegment
  manifest,  \* the writer's manifest: the entries of sealed files
  pending,   \* the operation of each request in the blocking pool, or Idle
  temp,      \* the .tmp file of the next index, or NoFile
  final,     \* content of the sealed files, by archive and index
  listed,    \* manifest.json by archive: is it whole, and its entries
  indexed,   \* table archive_files
  cut,       \* history: files with a record whose line was never ended
  spoilt,    \* history: files a failed or left operation may have spoilt
  faults     \* history: faults so far

disk == <<temp, final, listed>>
vars == <<pc, local, lock, archive, segment, manifest, pending, disk, indexed,
          cut, spoilt, faults>>

\* A file is known by the request that made it, a handle by its file and its offset.
NoFile == [made |-> None, pieces |-> <<>>]
NoSegment == [index |-> 0, made |-> None, at |-> 0, count |-> 0]
Idle == [do |-> "nothing", index |-> 0, value |-> <<>>, begun |-> FALSE]

Init ==
  /\ pc = [r \in Requests |-> "new"]
  /\ local = [r \in Requests |-> None]
  /\ lock = None /\ archive = 1 /\ segment = NoSegment /\ manifest = <<>>
  /\ pending = [r \in Requests |-> Idle]
  /\ temp = NoFile /\ final = <<>> /\ listed = <<>>
  /\ indexed = {} /\ cut = {} /\ spoilt = {} /\ faults = 0

-----------------------------------------------------------------------------
Goto(r, here, there) == pc[r] = here /\ pc' = [pc EXCEPT ![r] = there]
Fault == faults < MaxFaults /\ faults' = faults + 1
NoFault == UNCHANGED <<archive, faults>>

With(f, x, value) == [y \in DOMAIN f \cup {x} |-> IF y = x THEN value ELSE f[y]]

\* Mutant: the sealed files are not counted.
NextIndexFirst == 1

\* start_new_segment: manifest.files.len() + 1.  manifest.json has the index 0.
NextIndex == Len(manifest) + 1
FileOf(index) == <<archive, index>>

Submit(r, do, index, value) ==
  pending' = [pending EXCEPT ![r] =
                [do |-> do, index |-> index, value |-> value, begun |-> FALSE]]
Doing(r, do) == pending[r].do = do
Done(r) == Doing(r, "nothing")
UnderWay(index) == \E q \in Requests : ~Done(q) /\ pending[q].index = index

\* A file begun while an operation on it was left in the pool may be spoilt by it.
Mark(index) ==
  spoilt' = IF UnderWay(index) THEN spoilt \cup {FileOf(index)} ELSE spoilt \ {FileOf(index)}

\* The next write to a handle waits for the record a request that left gave it.
HandleFree == \A q \in Requests : ~Doing(q, "record")

Enter(r) ==
  /\ pc[r] = "new" /\ lock = None /\ lock' = r
  /\ IF segment = NoSegment
     THEN /\ Goto(r, "new", "open")
          /\ Submit(r, "create", NextIndex, <<>>)
          /\ Mark(NextIndex) /\ cut' = cut \ {FileOf(NextIndex)}
     ELSE Goto(r, "new", "json") /\ UNCHANGED <<pending, cut, spoilt>>
  /\ NoFault
  /\ UNCHANGED <<local, segment, manifest, disk, indexed>>

\* Mutant: a record counts when it is handed over, not when its line is ended.
WriteRecordCounted(r) ==
  /\ \/ Goto(r, "open", "record") /\ Done(r)
     \/ Goto(r, "json", "record") /\ HandleFree
  /\ segment' = [segment EXCEPT !.at = segment.at + 1, !.count = segment.count + 1]
  /\ Submit(r, "record", segment.index, <<>>)
  /\ NoFault
  /\ UNCHANGED <<local, lock, manifest, disk, indexed, cut, spoilt>>

WriteRecord(r) ==
  /\ \/ Goto(r, "open", "record") /\ Done(r)
     \/ Goto(r, "json", "record") /\ HandleFree
  /\ segment' = [segment EXCEPT !.at = @ + 1]
  /\ Submit(r, "record", segment.index, <<>>)
  /\ NoFault
  /\ UNCHANGED <<local, lock, manifest, disk, indexed, cut, spoilt>>

\* The newline is handed over, the record counted and the segment taken by
\* close_segment with no await between.
WriteNewline(r) ==
  /\ Goto(r, "record", "flush") /\ Done(r)
  /\ local' = [local EXCEPT ![r] = [segment EXCEPT !.at = segment.at + 1,
                                                   !.count = segment.count + 1]]
  /\ segment' = NoSegment
  /\ Submit(r, "newline", segment.index, <<>>)
  /\ NoFault
  /\ UNCHANGED <<lock, manifest, disk, indexed, cut, spoilt>>

\* fs::read opens the path anew.
ReadAndSeal(r) ==
  /\ Goto(r, "flush", "final") /\ Done(r) /\ temp.made # None
  /\ local' = [local EXCEPT ![r] = [index |-> @.index, count |-> @.count,
                                    content |-> temp.pieces]]
  /\ Submit(r, "final", local[r].index, temp.pieces)
  /\ NoFault
  /\ UNCHANGED <<lock, segment, manifest, disk, indexed, cut, spoilt>>

RemoveTemp(r) ==
  /\ Goto(r, "final", "remove") /\ Done(r)
  /\ Submit(r, "remove", local[r].index, <<>>)
  /\ NoFault
  /\ UNCHANGED <<local, lock, segment, manifest, disk, indexed, cut, spoilt>>

\* The next index has no .tmp file yet.
WriteManifest(r) ==
  /\ Goto(r, "remove", "manifest") /\ Done(r)
  /\ manifest' = Append(manifest, local[r])
  /\ temp' = NoFile
  /\ Submit(r, "manifest", 0, manifest') /\ Mark(0)
  /\ NoFault
  /\ UNCHANGED <<local, lock, segment, final, listed, indexed, cut>>

\* The guard is dropped on every way out.
Release(r) == lock' = (IF lock = r THEN None ELSE lock) /\ local' = [local EXCEPT ![r] = None]

\* upsert_archive_file.
Index(r) ==
  /\ Goto(r, "manifest", "archived") /\ Done(r)
  /\ indexed' = indexed \cup {[by |-> r, archive |-> archive, entry |-> local[r]]}
  /\ Release(r) /\ NoFault
  /\ UNCHANGED <<segment, manifest, pending, disk, cut, spoilt>>

\* The .tmp file was removed meanwhile.
NothingToRead(r) ==
  /\ Goto(r, "flush", "failed") /\ Done(r) /\ temp.made = None
  /\ Release(r) /\ NoFault
  /\ UNCHANGED <<segment, manifest, pending, disk, indexed, cut, spoilt>>

-----------------------------------------------------------------------------
(* External: the blocking pool and the file system, whether or not anyone   *)
(* still waits.                                                             *)

\* A piece written at an offset; past the end of the file the gap is filled.
Put(pieces, at, piece) ==
  [k \in 1 .. (IF at > Len(pieces) THEN at ELSE Len(pieces)) |->
     IF k = at THEN piece ELSE IF k <= Len(pieces) THEN pieces[k] ELSE Scrap]

\* What a handle writes goes to the file it opened, which may have lost its name.
WriteTo(handle, piece) ==
  temp' = IF temp.made = handle.made
          THEN [temp EXCEPT !.pieces = Put(@, handle.at, piece)] ELSE temp

\* File::create truncates a file that is there.  The request gets its handle, if it
\* is still there.
Created(r) ==
  /\ Doing(r, "create")
  /\ IF pending[r].index = NextIndex
     THEN /\ temp' = [made |-> IF temp.made = None THEN r ELSE temp.made, pieces |-> <<>>]
          /\ segment' = IF pc[r] = "open"
                        THEN [index |-> NextIndex, made |-> temp'.made, at |-> 0, count |-> 0]
                        ELSE segment
     ELSE UNCHANGED <<temp, segment>>
  /\ UNCHANGED <<final, listed>>

\* The newline of a dropped handle lands at its old offset, wherever that is now in
\* the file that has been begun anew.
Stray ==
  \/ UNCHANGED temp
  \/ /\ temp.made # None
     /\ \E at \in 1 .. Len(temp.pieces) + 2 :
          temp' = [temp EXCEPT !.pieces = Put(@, at, Newline)]

LineWritten(r) ==
  /\ \/ Doing(r, "record") /\ WriteTo(segment, r)
     \/ Doing(r, "newline") /\ pc[r] = "flush" /\ WriteTo(local[r], Newline)
     \/ Doing(r, "newline") /\ pc[r] # "flush"
        /\ IF pending[r].index = NextIndex THEN Stray ELSE UNCHANGED temp
  /\ UNCHANGED <<segment, final, listed>>

\* The result of remove_file is ignored.
Removed(r) ==
  /\ Doing(r, "remove")
  /\ \/ UNCHANGED temp
     \/ pending[r].index = NextIndex /\ temp' = NoFile
  /\ UNCHANGED <<segment, final, listed>>

FinalWritten(r) ==
  /\ Doing(r, "final")
  /\ final' = With(final, FileOf(pending[r].index), pending[r].value)
  /\ UNCHANGED <<segment, temp, listed>>

ManifestWritten(r) ==
  /\ Doing(r, "manifest")
  /\ listed' = With(listed, archive, [whole |-> TRUE, files |-> pending[r].value])
  /\ UNCHANGED <<segment, temp, final>>

Land(r) ==
  /\ Created(r) \/ LineWritten(r) \/ Removed(r) \/ FinalWritten(r) \/ ManifestWritten(r)
  /\ pending' = [pending EXCEPT ![r] = Idle]
  /\ NoFault
  /\ UNCHANGED <<pc, local, lock, manifest, indexed, cut, spoilt>>

\* Writing is not atomic, and fs::write begins by truncating the file in place.
Begin(r) ==
  /\ ~pending[r].begun
  /\ pending' = [pending EXCEPT ![r].begun = TRUE]
  /\ \/ Doing(r, "record") /\ WriteTo(segment, Scrap) /\ UNCHANGED <<final, listed>>
     \/ /\ Doing(r, "final")
        /\ final' = With(final, FileOf(pending[r].index), <<>>)
        /\ UNCHANGED <<temp, listed>>
     \/ /\ Doing(r, "manifest")
        /\ listed' = With(listed, archive, [whole |-> FALSE, files |-> <<>>])
        /\ UNCHANGED <<temp, final>>
  /\ NoFault
  /\ UNCHANGED <<pc, local, lock, segment, manifest, indexed, cut, spoilt>>

-----------------------------------------------------------------------------
Working == {"open", "json", "record", "flush", "final", "remove", "manifest"}

\* An operation fails, begun or not: what it leaves of its file.
OperationFails(q) ==
  /\ ~Done(q) /\ pending' = [pending EXCEPT ![q] = Idle]
  /\ IF Doing(q, "record")
     THEN /\ cut' = cut \cup {FileOf(segment.index)}
          /\ segment' = IF pending[q].begun THEN segment ELSE [segment EXCEPT !.at = @ - 1]
     ELSE UNCHANGED <<cut, segment>>
  /\ spoilt' = IF Doing(q, "manifest") THEN spoilt \cup {FileOf(0)} ELSE spoilt

\* An error of the operation it waits for, of reading the file or of the table: the
\* request goes on without its record.
Fails(r) ==
  /\ pc[r] \in Working /\ pc' = [pc EXCEPT ![r] = "failed"]
  /\ \/ pc[r] # "remove" /\ OperationFails(r)
     \/ pc[r] = "json" /\ \E q \in Requests : Doing(q, "record") /\ OperationFails(q)
     \/ pc[r] \in {"flush", "manifest"} /\ Done(r) /\ UNCHANGED <<pending, segment, cut, spoilt>>
  /\ Fault /\ Release(r)
  /\ UNCHANGED <<archive, manifest, disk, indexed>>

\* Mutant: the mutex is given back by the code at the end, not by its guard.
LeavesHolding(r) ==
  /\ pc[r] \in Working /\ pc' = [pc EXCEPT ![r] = "left"]
  /\ segment' = IF pc[r] = "open" THEN NoSegment ELSE segment
  /\ cut' = IF pc[r] = "record" THEN cut \cup {FileOf(segment.index)} ELSE cut
  /\ Fault
  /\ UNCHANGED <<local, lock, archive, manifest, pending, disk, indexed, spoilt>>

\* The caller is gone: the future is dropped, with a handle it was not yet told of.
Leaves(r) ==
  /\ pc[r] \in Working /\ pc' = [pc EXCEPT ![r] = "left"]
  /\ segment' = IF pc[r] = "open" THEN NoSegment ELSE segment
  /\ cut' = IF pc[r] = "record" THEN cut \cup {FileOf(segment.index)} ELSE cut
  /\ Fault /\ Release(r)
  /\ UNCHANGED <<archive, manifest, pending, disk, indexed, spoilt>>

\* Nobody hears of the error, unless it is the handle's.
FailsUnheard(r) ==
  /\ pc[r] = "left" /\ ~Doing(r, "record") /\ OperationFails(r)
  /\ Fault
  /\ UNCHANGED <<pc, local, lock, archive, manifest, disk, indexed>>

Crash ==
  /\ Fault
  /\ archive' = archive + 1 /\ segment' = NoSegment /\ manifest' = <<>> /\ lock' = None
  /\ pc' = [r \in Requests |-> IF pc[r] \in Working THEN "left" ELSE pc[r]]
  /\ local' = [r \in Requests |-> None]
  /\ pending' = [r \in Requests |-> Idle]
  /\ temp' = NoFile
  /\ spoilt' = IF UnderWay(0) THEN spoilt \cup {FileOf(0)} ELSE spoilt
  /\ UNCHANGED <<final, listed, indexed, cut>>

Step(r) ==
  \/ Enter(r) \/ WriteRecord(r) \/ WriteNewline(r) \/ ReadAndSeal(r) \/ NothingToRead(r)
  \/ RemoveTemp(r) \/ WriteManifest(r) \/ Index(r)

Next == \/ \E r \in Requests : Step(r) \/ Begin(r) \/ Land(r)
        \/ \E r \in Requests : Fails(r) \/ Leaves(r) \/ FailsUnheard(r)
        \/ Crash

Spec == Init /\ [][Next]_vars

\* The mutex is fair, tokio polls what is ready and the pool runs what it is given.
FairSpec ==
  Spec /\ \A r \in Requests : SF_vars(Enter(r)) /\ WF_vars(Step(r)) /\ WF_vars(Land(r))

-----------------------------------------------------------------------------
TypeOK ==
  /\ pc \in [Requests -> Working \cup {"new", "archived", "failed", "left"}]
  /\ lock \in Requests \cup {None}
  /\ archive \in Archives /\ faults \in 0 .. MaxFaults
  /\ \A r \in Requests : pc[r] \in Working => lock = r

Readable(content, r) ==
  \E k \in DOMAIN content :
    /\ content[k] = r /\ k + 1 \in DOMAIN content /\ content[k + 1] = Newline
    /\ k = 1 \/ content[k - 1] = Newline

CountIsLines(entry) ==
  LET content == entry.content IN
  /\ content # <<>> /\ content[Len(content)] = Newline
  /\ entry.count = Cardinality({k \in DOMAIN content : content[k] = Newline})

\* What a listed file must be for its checksum to match.
Matches(a, entry) ==
  <<a, entry.index>> \in DOMAIN final /\ final[<<a, entry.index>>] = entry.content

\* rebuild_archive_index_from_files reads every manifest.json below the root and
\* gives up at the first that is torn or empty, or whose file is missing or another.
Rebuilds ==
  \A a \in DOMAIN listed :
    /\ listed[a].whole /\ listed[a].files # <<>>
    /\ \A e \in ToSet(listed[a].files) : Matches(a, e)

\* No manifest.json is being written, and its last write was the only one and went
\* well.
Settled(a) == <<a, 0>> \notin spoilt /\ (a = archive => ~UnderWay(0))

\* A record that was archived is found again: its entry is in manifest.json, the file
\* has the content the checksum was computed from, and the record is on a line of its
\* own.  Each part may fail only for a fault in that very file: an operation left in
\* the pool when the file was begun, a failed or cut-off write of the manifest, a
\* record whose line was never ended.  And the index rebuilds as a whole unless a
\* file it lists has such a fault (writer.rs:112-192, manifest.rs:165).
ArchivedIsFound ==
  /\ \A i \in indexed :
       LET file == <<i.archive, i.entry.index>> IN
       /\ Settled(i.archive) =>
            i.archive \in DOMAIN listed /\ i.entry \in ToSet(listed[i.archive].files)
       /\ file \notin spoilt => Matches(i.archive, i.entry)
       /\ file \notin spoilt \cup cut => Readable(i.entry.content, i.by)
  /\ (\A a \in DOMAIN listed :
        Settled(a) /\ \A e \in ToSet(listed[a].files) : <<a, e.index>> \notin spoilt) => Rebuilds

\* conversation_count is the number of lines of its file and the last one is ended,
\* whoever left or failed while records were appended, unless an operation on the
\* file was left in the pool when it was begun (writer.rs:112-122, 138).
CountsAreLines ==
  \A i \in indexed : <<i.archive, i.entry.index>> \notin spoilt => CountIsLines(i.entry)

\* Every answered request gets through the archive, or leaves: the mutex is never
\* left locked (relay.rs:5115).
NobodyBlocked == \A r \in Requests : <>(pc[r] \in {"archived", "failed", "left"})

\* "The implementation must be able to rebuild any optional archive index from the
\* archive files." (docs/modelwire-implementation-plan.md:2022)
IndexCanBeRebuilt == (\A r \in Requests : Done(r)) => Rebuilds
=============================================================================
