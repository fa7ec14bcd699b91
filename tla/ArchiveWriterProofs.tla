------------------------- MODULE ArchiveWriterProofs --------------------------
(***************************************************************************)
(* Proofs about ArchiveWriter, for every set of requests and every number  *)
(* of failing operations, callers that leave and crashes.                  *)
(***************************************************************************)
EXTENDS ArchiveWriter, FiniteSetTheorems, TLAPS

-----------------------------------------------------------------------------
(* The inductive invariant.                                                 *)

Pieces == Requests \cup {Newline, Scrap}
Handle == [index : Nat, made : Requests \cup {None}, at : Nat, count : Nat]
File == [made : Requests \cup {None}, pieces : Seq(Pieces)]
Entry == [index : Nat, count : Nat, content : Seq(Pieces)]
Operation ==
  [do : {"nothing", "create", "record", "newline", "remove", "final", "manifest"},
   index : Nat, value : Seq(Pieces) \cup Seq(Entry), begun : BOOLEAN]

\* The safety half of NobodyBlocked: the mutex is held by a request that works on,
\* so whoever waits for it waits for steps that can be taken.
HeldByWorker == lock # None => lock \in Requests /\ pc[lock] \in Working

Types ==
  /\ TypeOK /\ archive <= faults + 1 /\ HeldByWorker
  /\ segment \in Handle /\ temp \in File
  /\ manifest \in Seq(Entry)
  /\ local \in [Requests -> Handle \cup Entry \cup {None}]
  /\ \A r \in Requests : pc[r] = "flush" => local[r] \in Handle
  /\ \A r \in Requests : pc[r] \in {"final", "remove", "manifest"} => local[r] \in Entry
  /\ pending \in [Requests -> Operation]
  /\ \A q \in Requests : Doing(q, "final") => pending[q].value \in Seq(Pieces)
  /\ \A q \in Requests : Doing(q, "manifest") => pending[q].value \in Seq(Entry)

\* What a request has in the pool at each await; a request that left may have
\* anything there.
AwaitsOp(r) ==
  \/ pc[r] = "open" /\ Doing(r, "create")
  \/ pc[r] = "record" /\ Doing(r, "record")
  \/ pc[r] = "flush" /\ Doing(r, "newline")
  \/ pc[r] = "final" /\ Doing(r, "final")
  \/ pc[r] = "remove" /\ Doing(r, "remove")
  \/ pc[r] = "manifest" /\ Doing(r, "manifest")

OwnOp(r) ==
  /\ pc[r] # "left" /\ ~Done(r) =>
       /\ AwaitsOp(r)
       /\ ~Doing(r, "manifest") => pending[r].index = NextIndex
       /\ Doing(r, "final") => pending[r].value = local[r].content
  /\ Doing(r, "manifest") => pending[r].index = 0 /\ manifest # <<>>
  /\ ~Done(r) /\ ~Doing(r, "manifest") => pending[r].index \in 1 .. NextIndex
  /\ Doing(r, "record") => segment # NoSegment /\ segment.at >= 1
  /\ pending[r].begun => pending[r].do \in {"record", "final", "manifest"}

\* One record is in the pool at a time, and none of another request once this one has
\* begun or written to the segment.
OneRecord ==
  \A p, q \in Requests :
    Doing(q, "record") /\ (Doing(p, "record") \/ pc[p] \in {"open", "record"}) => p = q

\* A file is begun from the create on.  What was left in the pool before is marked.
Using == {"open", "json", "record", "flush", "final", "remove"}
FileBegun(index) ==
  index <= Len(manifest) \/ segment # NoSegment \/ \E r \in Requests : pc[r] \in Using

StraysMarked ==
  \A q \in Requests :
    /\ pc[q] = "left" /\ pending[q].do \in {"create", "newline", "remove", "final"}
    /\ FileBegun(pending[q].index)
    => FileOf(pending[q].index) \in spoilt

Pool == (\A r \in Requests : OwnOp(r)) /\ OneRecord /\ StraysMarked

\* No stray operation can reach the file in progress; no record was left in it.
Clean == FileOf(NextIndex) \notin spoilt
Uncut == FileOf(NextIndex) \notin cut
NoNewline(n) == \A k \in 1 .. n : temp.pieces[k] # Newline

SegmentOK ==
  segment # NoSegment =>
    /\ segment.index = NextIndex /\ segment.count = 0 /\ segment.made \in Requests
    /\ \A r \in Requests : pc[r] \notin {"flush", "final", "remove", "manifest"}
    /\ Clean =>
         /\ temp.made = segment.made /\ NoNewline(Len(temp.pieces))
         /\ Len(temp.pieces) =
              IF \E q \in Requests : Doing(q, "record") /\ ~pending[q].begun
              THEN segment.at - 1 ELSE segment.at
    /\ Uncut => \E r \in Requests : \/ pc[r] = "open" /\ segment.at = 0
                                    \/ pc[r] = "record" /\ segment.at = 1

FillingOK(r) ==
  /\ pc[r] = "open" => (Done(r) <=> segment # NoSegment) /\ segment.at = 0
  /\ pc[r] \in {"json", "record"} => segment # NoSegment
  /\ pc[r] = "record" /\ Done(r) /\ Clean /\ Uncut => temp.pieces[1] = r

TakenOK(r) ==
  pc[r] = "flush" =>
    /\ local[r].index = NextIndex /\ local[r].count = 1 /\ local[r].made \in Requests
    /\ Clean =>
         /\ temp.made = local[r].made /\ local[r].at >= 1 /\ NoNewline(local[r].at - 1)
         /\ ~Done(r) => Len(temp.pieces) = local[r].at - 1
         /\ Done(r) => Len(temp.pieces) = local[r].at /\ temp.pieces[local[r].at] = Newline
         /\ Uncut => local[r].at = 2 /\ temp.pieces[1] = r

Filling == SegmentOK /\ \A r \in Requests : FillingOK(r) /\ TakenOK(r)

\* A sealed file is as good as the faults in it allow.
Sound(file, entry, r) ==
  file \notin spoilt => CountIsLines(entry) /\ (file \notin cut => Readable(entry.content, r))

SealedOK(r) ==
  /\ pc[r] \in {"final", "remove"} =>
       /\ local[r].index = NextIndex /\ Sound(FileOf(NextIndex), local[r], r)
       /\ Clean /\ (Done(r) \/ pc[r] = "remove") => Matches(archive, local[r])
  /\ pc[r] = "manifest" =>
       /\ manifest # <<>> /\ manifest[Len(manifest)] = local[r]
       /\ Sound(FileOf(Len(manifest)), local[r], r)

\* Every file of the manifest is there; what is listed is the manifest, unless it is
\* being written or its last write was not the only one or went wrong.
SealedThere ==
  \A k \in DOMAIN manifest :
    manifest[k].index = k /\ (FileOf(k) \notin spoilt => Matches(archive, manifest[k]))

OneList ==
  FileOf(0) \notin spoilt =>
    \A p, q \in Requests :
      Doing(p, "manifest") => /\ pending[p].value = manifest
                              /\ Doing(q, "manifest") => p = q

ListIsCurrent ==
  /\ archive \in DOMAIN listed => manifest # <<>>
  /\ FileOf(0) \notin spoilt /\ (\A q \in Requests : ~Doing(q, "manifest")) /\ manifest # <<>> =>
       archive \in DOMAIN listed /\ listed[archive] = [whole |-> TRUE, files |-> manifest]

Sealing == (\A r \in Requests : SealedOK(r)) /\ SealedThere /\ OneList /\ ListIsCurrent

\* The archives of earlier processes, and what the table names.
ListedBefore ==
  \A a \in DOMAIN listed :
    /\ a \in 1 .. archive
    /\ a # archive /\ <<a, 0>> \notin spoilt =>
         /\ listed[a].whole /\ listed[a].files # <<>>
         /\ \A e \in ToSet(listed[a].files) : <<a, e.index>> \notin spoilt => Matches(a, e)

IndexedOK(i) ==
  /\ i.archive \in 1 .. archive
  /\ Sound(<<i.archive, i.entry.index>>, i.entry, i.by)
  /\ i.archive = archive => i.entry \in ToSet(manifest)
  /\ i.archive # archive =>
       /\ <<i.archive, 0>> \notin spoilt =>
            i.archive \in DOMAIN listed /\ i.entry \in ToSet(listed[i.archive].files)
       /\ <<i.archive, i.entry.index>> \notin spoilt => Matches(i.archive, i.entry)

Past == ListedBefore /\ \A i \in indexed : IndexedOK(i)

IInv == Types /\ Pool /\ Filling /\ Sealing /\ Past

-----------------------------------------------------------------------------
(* Lemmas about files and their parts.                                      *)

\* What Append adds.
LEMMA Appended ==
  ASSUME NEW S, NEW s \in Seq(S), NEW e \in S
  PROVE  /\ Append(s, e) \in Seq(S) /\ Len(Append(s, e)) = Len(s) + 1
         /\ DOMAIN Append(s, e) = DOMAIN s \cup {Len(s) + 1}
         /\ \A i \in DOMAIN s : Append(s, e)[i] = s[i]
         /\ Append(s, e)[Len(s) + 1] = e
         /\ DOMAIN s = 1 .. Len(s) /\ Len(s) \in Nat
         /\ Append(s, e) # <<>>
  OBVIOUS

\* A piece put into a file leaves a file.
LEMMA PutType ==
  ASSUME NEW s \in Seq(Pieces), NEW at \in Nat, NEW p \in Pieces
  PROVE  /\ Put(s, at, p) \in Seq(Pieces)
         /\ Len(Put(s, at, p)) = IF at > Len(s) THEN at ELSE Len(s)
         /\ at >= 1 => Put(s, at, p)[at] = p
         /\ \A k \in 1 .. Len(s) : k # at => Put(s, at, p)[k] = s[k]
<1> DEFINE n == IF at > Len(s) THEN at ELSE Len(s)
           v(k) == IF k = at THEN p ELSE IF k <= Len(s) THEN s[k] ELSE Scrap
<1>1. Len(s) \in Nat /\ DOMAIN s = 1 .. Len(s) /\ \A k \in 1 .. Len(s) : s[k] \in Pieces
  OBVIOUS
<1>2. n \in Nat /\ n >= Len(s) /\ n >= at
  BY <1>1
<1>3. \A k \in 1 .. n : v(k) \in Pieces
  BY <1>1 DEF Pieces
<1>4. Put(s, at, p) = [k \in 1 .. n |-> v(k)]
  BY DEF Put
<1> HIDE DEF n, v
<1>5. Put(s, at, p) \in Seq(Pieces) /\ Len(Put(s, at, p)) = n
  BY <1>2, <1>3, <1>4
<1>6. \A k \in 1 .. n : Put(s, at, p)[k] = v(k)
  BY <1>4
<1> QED BY <1>1, <1>2, <1>5, <1>6 DEF n, v

\* A handle after what was written with it.
LEMMA Moved ==
  ASSUME NEW h \in Handle, NEW at \in Nat, NEW count \in Nat
  PROVE  /\ [h EXCEPT !.at = at] \in Handle /\ [h EXCEPT !.at = at].at = at
         /\ [h EXCEPT !.at = at].index = h.index /\ [h EXCEPT !.at = at].made = h.made
         /\ [h EXCEPT !.at = at].count = h.count
         /\ [h EXCEPT !.at = at, !.count = count] \in Handle
         /\ [h EXCEPT !.at = at, !.count = count].at = at
         /\ [h EXCEPT !.at = at, !.count = count].count = count
         /\ [h EXCEPT !.at = at, !.count = count].index = h.index
         /\ [h EXCEPT !.at = at, !.count = count].made = h.made
  BY DEF Handle

\* A file that ends with its only newline counts one line.
LEMMA OneLine ==
  ASSUME NEW entry \in Entry, entry.count = 1, entry.content # <<>>,
         entry.content[Len(entry.content)] = Newline,
         \A k \in 1 .. Len(entry.content) - 1 : entry.content[k] # Newline
  PROVE  CountIsLines(entry)
<1> DEFINE n == Len(entry.content)
<1>1. n \in Nat \ {0} /\ DOMAIN entry.content = 1 .. n
  BY DEF Entry
<1>2. {k \in DOMAIN entry.content : entry.content[k] = Newline} = {n}
  BY <1>1
<1> HIDE DEF n
<1>3. Cardinality({n}) = 1
  BY FS_Singleton
<1> QED BY <1>2, <1>3 DEF CountIsLines, n

\* The mutex: while a request works, or enters, no other does.
LEMMA Alone ==
  ASSUME TypeOK, NEW r \in Requests, pc[r] \in Working \/ lock = None
  PROVE  \A q \in Requests : q # r => pc[q] \notin Working
  BY ArchiveAssumption DEF TypeOK

\* What a handle writes lands in its own file, if that still has its name.
LEMMA WriteToType ==
  ASSUME temp \in File, NEW handle \in Handle, NEW piece \in Pieces, WriteTo(handle, piece)
  PROVE  /\ temp' \in File /\ temp'.made = temp.made
         /\ temp.made = handle.made => temp'.pieces = Put(temp.pieces, handle.at, piece)
<1>1. temp.pieces \in Seq(Pieces) /\ handle.at \in Nat
  BY DEF File, Handle
<1>2. Put(temp.pieces, handle.at, piece) \in Seq(Pieces)
  BY <1>1, PutType
<1> QED BY <1>2 DEF WriteTo, File

-----------------------------------------------------------------------------
(* Types.                                                                   *)

\* The mutex is held by whoever works, also after a request entered, moved on or
\* gave it back.
LEMMA MutexKept ==
  ASSUME TypeOK, HeldByWorker, NEW r \in Requests,
         NEW there \in Working \cup {"archived", "failed", "left"},
         pc' = [pc EXCEPT ![r] = there],
         \/ pc[r] \in Working /\ there \in Working /\ lock' = lock
         \/ lock = None /\ lock' = r /\ there \in Working
         \/ there \notin Working /\ lock' = (IF lock = r THEN None ELSE lock)
  PROVE  /\ pc' \in [Requests -> Working \cup {"new", "archived", "failed", "left"}]
         /\ lock' \in Requests \cup {None}
         /\ \A q \in Requests : pc'[q] \in Working => lock' = q
         /\ HeldByWorker'
  BY ArchiveAssumption DEF TypeOK, HeldByWorker

\* An operation handed to the pool is one.
LEMMA Submitted ==
  ASSUME pending \in [Requests -> Operation], NEW r \in Requests,
         NEW do \in {"create", "record", "newline", "remove", "final", "manifest"},
         NEW index \in Nat, NEW value \in Seq(Pieces) \cup Seq(Entry),
         Submit(r, do, index, value)
  PROVE  /\ pending' \in [Requests -> Operation]
         /\ pending'[r] = [do |-> do, index |-> index, value |-> value, begun |-> FALSE]
         /\ \A q \in Requests : q # r => pending'[q] = pending[q]
  BY DEF Submit, Operation

\* The steps of the code: what they hand over, and the rest.
LEMMA TypesCode ==
  ASSUME Types, NEW r \in Requests, Step(r)
  PROVE  Types'
<1>0. /\ archive' = archive /\ faults' = faults /\ archive \in Nat
      /\ Len(manifest) \in Nat /\ NextIndex \in Nat
      /\ <<>> \in Seq(Pieces) /\ 0 \in Nat
      /\ segment \in Handle /\ temp \in File /\ manifest \in Seq(Entry)
  BY ArchiveAssumption
  DEF Types, TypeOK, Archives, NextIndex, Step, Enter, WriteRecord, WriteNewline, ReadAndSeal,
      NothingToRead, RemoveTemp, WriteManifest, Index, NoFault
<1>1. /\ pc' \in [Requests -> Working \cup {"new", "archived", "failed", "left"}]
      /\ lock' \in Requests \cup {None}
      /\ \A q \in Requests : pc'[q] \in Working => lock' = q
      /\ HeldByWorker'
      /\ pc'[r] \in Working \cup {"archived", "failed"}
      /\ \A q \in Requests : q # r => pc'[q] = pc[q]
  <2>1. TypeOK /\ HeldByWorker
    BY DEF Types
  <2>2. CASE Enter(r)
    BY <2>1, <2>2, MutexKept DEF Enter, Goto, Working, TypeOK
  <2>3. CASE WriteRecord(r) \/ WriteNewline(r) \/ ReadAndSeal(r) \/ RemoveTemp(r)
             \/ WriteManifest(r)
    BY <2>1, <2>3, MutexKept DEF WriteRecord, WriteNewline, ReadAndSeal, RemoveTemp,
                                 WriteManifest, Goto, Working, TypeOK
  <2>4. CASE NothingToRead(r) \/ Index(r)
    BY <2>1, <2>4, MutexKept DEF NothingToRead, Index, Release, Goto, Working, TypeOK
  <2> QED BY <2>2, <2>3, <2>4 DEF Step
<1>2. TypeOK'
  BY <1>0, <1>1 DEF Types, TypeOK
<1>3. ASSUME /\ segment' \in Handle /\ temp' \in File /\ manifest' \in Seq(Entry)
             /\ local' = [local EXCEPT ![r] = local'[r]]
             /\ local'[r] \in Handle \cup Entry \cup {None}
             /\ pc'[r] = "flush" => local'[r] \in Handle
             /\ pc'[r] \in {"final", "remove", "manifest"} => local'[r] \in Entry
             /\ \/ pending' = pending
                \/ \E do \in {"create", "record", "newline", "remove", "final", "manifest"},
                      index \in Nat, value \in Seq(Pieces) \cup Seq(Entry) :
                     /\ Submit(r, do, index, value)
                     /\ do = "final" => value \in Seq(Pieces)
                     /\ do = "manifest" => value \in Seq(Entry)
      PROVE  Types'
  <2>1. local' \in [Requests -> Handle \cup Entry \cup {None}]
        /\ \A q \in Requests : q # r => local'[q] = local[q]
    BY <1>3 DEF Types
  <2>2. /\ pending' \in [Requests -> Operation]
        /\ \A q \in Requests : Doing(q, "final")' => pending'[q].value \in Seq(Pieces)
        /\ \A q \in Requests : Doing(q, "manifest")' => pending'[q].value \in Seq(Entry)
    <3>1. CASE pending' = pending
      BY <3>1 DEF Types, Doing
    <3>2. ASSUME NEW do \in {"create", "record", "newline", "remove", "final", "manifest"},
                 NEW index \in Nat, NEW value \in Seq(Pieces) \cup Seq(Entry),
                 Submit(r, do, index, value), do = "final" => value \in Seq(Pieces),
                 do = "manifest" => value \in Seq(Entry)
          PROVE  /\ pending' \in [Requests -> Operation]
                 /\ \A q \in Requests : Doing(q, "final")' => pending'[q].value \in Seq(Pieces)
                 /\ \A q \in Requests : Doing(q, "manifest")' => pending'[q].value \in Seq(Entry)
      <4>1. /\ pending' \in [Requests -> Operation]
            /\ pending'[r] = [do |-> do, index |-> index, value |-> value, begun |-> FALSE]
            /\ \A q \in Requests : q # r => pending'[q] = pending[q]
        BY <3>2, Submitted DEF Types
      <4> QED BY <3>2, <4>1 DEF Types, Doing
    <3> QED BY <1>3, <3>1, <3>2
  <2> QED BY <1>0, <1>1, <1>2, <1>3, <2>1, <2>2 DEF Types
<1>4. local \in [Requests -> Handle \cup Entry \cup {None}]
  BY DEF Types
<1>5. CASE Enter(r)
  BY <1>0, <1>3, <1>4, <1>5 DEF Enter, Goto, disk, Types, TypeOK
<1>6. CASE WriteRecord(r)
  <2>1. segment.at + 1 \in Nat /\ segment.index \in Nat
    BY <1>0 DEF Handle
  <2>2. segment' = [segment EXCEPT !.at = segment.at + 1] /\ segment' \in Handle
    BY <1>0, <1>6, <2>1, Moved DEF WriteRecord
  <2>3. UNCHANGED <<local, temp, manifest>> /\ Submit(r, "record", segment.index, <<>>)
        /\ pc'[r] = "record"
    BY <1>6 DEF WriteRecord, Goto, disk, Types, TypeOK
  <2> QED BY <1>0, <1>3, <1>4, <2>1, <2>2, <2>3
<1>7. CASE WriteNewline(r)
  <2>1. NoSegment \in Handle /\ segment.index \in Nat /\ segment.at + 1 \in Nat
        /\ segment.count + 1 \in Nat
    BY <1>0 DEF NoSegment, Handle
  <2>2. [segment EXCEPT !.at = segment.at + 1, !.count = segment.count + 1] \in Handle
    BY <1>0, <2>1, Moved
  <2> QED BY <1>0, <1>3, <1>4, <1>7, <2>1, <2>2 DEF WriteNewline, Goto, disk, Types, TypeOK
<1>8. CASE ReadAndSeal(r)
  <2>1. local[r] \in Handle /\ temp.pieces \in Seq(Pieces)
    BY <1>0, <1>8 DEF ReadAndSeal, Goto, Types, File
  <2>2. [index |-> local[r].index, count |-> local[r].count, content |-> temp.pieces] \in Entry
        /\ local[r].index \in Nat
    BY <2>1 DEF Handle, Entry
  <2> QED BY <1>0, <1>3, <1>4, <1>8, <2>1, <2>2 DEF ReadAndSeal, Goto, disk, Types, TypeOK
<1>9. CASE RemoveTemp(r) \/ WriteManifest(r)
  <2>1. local[r] \in Entry /\ local[r].index \in Nat
    BY <1>9 DEF RemoveTemp, WriteManifest, Goto, Types, Entry
  <2>2. Append(manifest, local[r]) \in Seq(Entry) /\ NoFile \in File
    BY <1>0, <2>1 DEF NoFile, File
  <2> QED BY <1>0, <1>3, <1>4, <1>9, <2>1, <2>2
      DEF RemoveTemp, WriteManifest, Goto, disk, Types, TypeOK
<1>10. CASE Index(r) \/ NothingToRead(r)
  BY <1>0, <1>1, <1>3, <1>4, <1>10
  DEF Index, NothingToRead, Release, Goto, disk, Types, TypeOK
<1> QED BY <1>5, <1>6, <1>7, <1>8, <1>9, <1>10 DEF Step

\* The pool and the files.
LEMMA TypesPool ==
  ASSUME Types, NEW r \in Requests, Land(r) \/ Begin(r)
  PROVE  Types'
<1>0. /\ UNCHANGED <<pc, local, lock, archive, manifest, faults>>
      /\ segment \in Handle /\ temp \in File /\ NextIndex \in Nat
      /\ r \in Pieces /\ Newline \in Pieces /\ Scrap \in Pieces
      /\ pending[r] \in Operation /\ pending \in [Requests -> Operation]
  BY DEF Types, Land, Begin, NoFault, Pieces, NextIndex
<1>1. /\ pending' \in [Requests -> Operation]
      /\ \A q \in Requests : q # r => pending'[q] = pending[q]
      /\ pending'[r].do = "nothing" \/ (/\ pending'[r].do = pending[r].do
                                        /\ pending'[r].value = pending[r].value)
  <2>1. CASE Land(r)
    <3>1. Idle \in Operation /\ Idle.do = "nothing"
      BY DEF Idle, Operation
    <3> QED BY <1>0, <2>1, <3>1 DEF Land
  <2>2. CASE Begin(r)
    <3>1. pending' = [pending EXCEPT ![r].begun = TRUE]
      BY <2>2 DEF Begin
    <3> QED BY <1>0, <3>1 DEF Operation
  <2> QED BY <2>1, <2>2
<1>2. segment' \in Handle /\ temp' \in File
  <2>1. CASE Begin(r)
    BY <1>0, <2>1, WriteToType DEF Begin
  <2>2. CASE Created(r)
    <3>1. \/ temp' = temp
          \/ temp' = [made |-> IF temp.made = None THEN r ELSE temp.made, pieces |-> <<>>]
      BY <2>2 DEF Created
    <3>2. temp' \in File
      <4>1. temp.made \in Requests \cup {None} /\ <<>> \in Seq(Pieces)
        BY <1>0 DEF File
      <4>2. (IF temp.made = None THEN r ELSE temp.made) \in Requests \cup {None}
        BY <4>1
      <4>3. \A m \in Requests \cup {None} : [made |-> m, pieces |-> <<>>] \in File
        BY <4>1 DEF File
      <4> QED BY <1>0, <3>1, <4>2, <4>3
    <3>3. CASE segment' = segment
      BY <1>0, <3>2, <3>3
    <3>4. CASE segment' = [index |-> NextIndex, made |-> temp'.made, at |-> 0, count |-> 0]
      BY <1>0, <3>2, <3>4 DEF File, Handle
    <3> QED BY <2>2, <3>2, <3>3, <3>4 DEF Created
  <2>3. CASE LineWritten(r)
    <3>1. CASE WriteTo(segment, r)
      BY <1>0, <2>3, <3>1, WriteToType DEF LineWritten
    <3>2. CASE pc[r] = "flush" /\ WriteTo(local[r], Newline)
      BY <1>0, <2>3, <3>2, WriteToType DEF LineWritten, Types
    <3>3. CASE temp' = temp
      BY <1>0, <2>3, <3>3 DEF LineWritten
    <3>4. ASSUME NEW at \in 1 .. Len(temp.pieces) + 2,
                 temp' = [temp EXCEPT !.pieces = Put(@, at, Newline)]
          PROVE  temp' \in File
      <4>1. temp.pieces \in Seq(Pieces) /\ at \in Nat
        BY <1>0 DEF File
      <4>2. Put(temp.pieces, at, Newline) \in Seq(Pieces)
        BY <1>0, <4>1, PutType
      <4> QED BY <1>0, <3>4, <4>2 DEF File
    <3> QED BY <1>0, <2>3, <3>1, <3>2, <3>3, <3>4 DEF LineWritten, Stray
  <2>4. CASE Removed(r) \/ FinalWritten(r) \/ ManifestWritten(r)
    <3>1. NoFile \in File
      BY DEF NoFile, File
    <3> QED BY <1>0, <2>4, <3>1 DEF Removed, FinalWritten, ManifestWritten
  <2>5. Begin(r) => segment' = segment
    BY DEF Begin
  <2> QED BY <1>0, <2>1, <2>2, <2>3, <2>4, <2>5 DEF Land
<1> QED BY <1>0, <1>1, <1>2 DEF Types, TypeOK, HeldByWorker, Doing

\* What a failing operation leaves of the types.
LEMMA FailureTypes ==
  ASSUME Types, NEW q \in Requests, OwnOp(q), OperationFails(q)
  PROVE  /\ segment' \in Handle /\ pending' \in [Requests -> Operation]
         /\ pending'[q] = Idle /\ \A p \in Requests : p # q => pending'[p] = pending[p]
         /\ Done(q)' /\ ~Done(q) /\ Idle \in Operation
<1>1. pending' = [pending EXCEPT ![q] = Idle] /\ Idle \in Operation /\ Idle.do = "nothing"
  BY DEF OperationFails, Idle, Operation
<1>2. segment' \in Handle
  <2>1. CASE segment' = segment
    BY <2>1 DEF Types
  <2>2. CASE Doing(q, "record") /\ segment' = [segment EXCEPT !.at = @ - 1]
    <3>1. segment \in Handle /\ segment.at - 1 \in Nat
      BY <2>2 DEF Types, OwnOp, Handle
    <3>2. segment' = [segment EXCEPT !.at = segment.at - 1]
      BY <2>2, <3>1
    <3> QED BY <3>1, <3>2, Moved
  <2> QED BY <2>1, <2>2 DEF OperationFails
<1> QED BY <1>1, <1>2 DEF Types, OperationFails, Done, Doing

\* The faults.
LEMMA TypesFaults ==
  ASSUME Types, Pool, NEW r \in Requests, Fails(r) \/ Leaves(r) \/ FailsUnheard(r) \/ Crash
  PROVE  Types'
<1>0. MaxFaults \in Nat /\ archive \in Archives /\ archive <= faults + 1
      /\ Archives = 1 .. MaxFaults + 1 /\ TypeOK /\ HeldByWorker
      /\ faults < MaxFaults /\ faults' = faults + 1 /\ faults \in Nat
  BY ArchiveAssumption DEF Types, TypeOK, Archives, Fails, Leaves, FailsUnheard, Crash, Fault
<1>1. CASE Crash
  <2>1. NoSegment \in Handle /\ NoFile \in File /\ Idle \in Operation /\ Idle.do = "nothing"
        /\ <<>> \in Seq(Entry)
    BY DEF NoSegment, Handle, NoFile, File, Idle, Operation
  <2>2. archive' \in Archives /\ faults' \in 0 .. MaxFaults /\ archive' <= faults' + 1
    BY <1>0, <1>1 DEF Crash
  <2>3. /\ pc' \in [Requests -> Working \cup {"new", "archived", "failed", "left"}]
        /\ \A q \in Requests : pc'[q] \notin Working
    BY <1>0, <1>1 DEF Crash, TypeOK, Working
  <2> QED BY <1>1, <2>1, <2>2, <2>3 DEF Crash, Types, TypeOK, HeldByWorker, Doing, Working
<1>2. ASSUME Fails(r) \/ Leaves(r)
      PROVE  /\ pc' \in [Requests -> Working \cup {"new", "archived", "failed", "left"}]
             /\ lock' \in Requests \cup {None}
             /\ \A q \in Requests : pc'[q] \in Working => lock' = q
             /\ HeldByWorker'
             /\ pc'[r] \in {"failed", "left"} /\ \A q \in Requests : q # r => pc'[q] = pc[q]
             /\ local' \in [Requests -> Handle \cup Entry \cup {None}]
             /\ \A q \in Requests : q # r => local'[q] = local[q]
             /\ UNCHANGED <<archive, manifest, temp>>
  <2>1. pc' = [pc EXCEPT ![r] = pc'[r]] /\ pc'[r] \in {"failed", "left"} /\ Release(r)
    BY <1>0, <1>2 DEF Fails, Leaves, TypeOK
  <2>2. pc'[r] \notin Working
    BY <2>1 DEF Working
  <2> QED BY <1>0, <1>2, <2>1, <2>2, MutexKept DEF Fails, Leaves, Release, Types, disk, TypeOK
<1>3. ASSUME /\ segment' \in Handle /\ pending' \in [Requests -> Operation]
             /\ \A p \in Requests : pending'[p] = pending[p] \/ pending'[p] = Idle
      PROVE  /\ segment' \in Handle /\ pending' \in [Requests -> Operation]
             /\ \A q \in Requests : Doing(q, "final")' => pending'[q].value \in Seq(Pieces)
             /\ \A q \in Requests : Doing(q, "manifest")' => pending'[q].value \in Seq(Entry)
  BY <1>3 DEF Types, Doing, Idle
<1>4. ASSUME NEW q \in Requests, OperationFails(q)
      PROVE  /\ segment' \in Handle /\ pending' \in [Requests -> Operation]
             /\ \A p \in Requests : pending'[p] = pending[p] \/ pending'[p] = Idle
  BY <1>4, FailureTypes DEF Pool
<1>5. CASE Fails(r)
  <2>1. segment' \in Handle /\ pending' \in [Requests -> Operation]
        /\ \A p \in Requests : pending'[p] = pending[p] \/ pending'[p] = Idle
    <3>1. CASE OperationFails(r)
      BY <1>4, <3>1
    <3>2. CASE \E q \in Requests : Doing(q, "record") /\ OperationFails(q)
      BY <1>4, <3>2
    <3>3. CASE UNCHANGED <<pending, segment, cut, spoilt>>
      BY <3>3 DEF Types
    <3> QED BY <1>5, <3>1, <3>2, <3>3 DEF Fails
  <2> QED BY <1>0, <1>2, <1>3, <1>5, <2>1 DEF Types, TypeOK
<1>6. CASE Leaves(r)
  <2>1. segment' \in Handle /\ pending' = pending
    BY <1>6 DEF Leaves, Types, NoSegment, Handle
  <2> QED BY <1>0, <1>2, <1>3, <1>6, <2>1 DEF Types, TypeOK
<1>7. CASE FailsUnheard(r)
  BY <1>0, <1>3, <1>4, <1>7 DEF FailsUnheard, Types, TypeOK, HeldByWorker, disk
<1> QED BY <1>1, <1>5, <1>6, <1>7

-----------------------------------------------------------------------------
(* The operations in the pool.                                              *)

\* What a request that did not leave has in the pool while another works.
LEMMA Quiet ==
  ASSUME Types, Pool, NEW r \in Requests, pc[r] \in Working \/ lock = None,
         NEW q \in Requests, q # r
  PROVE  pc[q] \notin Working /\ (pc[q] = "left" \/ Done(q))
<1>1. pc[q] \notin Working
  BY Alone DEF Types
<1> QED BY <1>1 DEF Pool, OwnOp, AwaitsOp, Working

\* A step of the code that hands one operation over, or none.
LEMMA PoolSubmit ==
  ASSUME Types, Pool, NEW r \in Requests, pc[r] \in Working \/ lock = None,
         UNCHANGED archive, NextIndex \in Nat, NextIndex' \in Nat,
         pc' = [pc EXCEPT ![r] = pc'[r]], pc'[r] # "left",
         \A q \in Requests : q # r => pending'[q] = pending[q],
         \/ Done(r)'
         \/ /\ AwaitsOp(r)'
            /\ ~Doing(r, "manifest")' => pending'[r].index = NextIndex'
            /\ Doing(r, "final")' => pending'[r].value = local'[r].content
            /\ Doing(r, "manifest")' => pending'[r].index = 0
            /\ Doing(r, "record")' => segment' # NoSegment /\ segment'.at >= 1,
         ~pending'[r].begun, NextIndex' >= NextIndex, NextIndex' >= 1,
         manifest # <<>> \/ Doing(r, "manifest")' => manifest' # <<>>,
         \A q \in Requests : q # r /\ Doing(q, "record") =>
           segment' # NoSegment /\ segment'.at >= 1,
         pc'[r] \in {"open", "record"} => \A q \in Requests : q # r => ~Doing(q, "record"),
         \A q \in Requests : pc[q] = "left" /\ FileBegun(pending[q].index)'
            /\ pending[q].do \in {"create", "newline", "remove", "final"} =>
              FileOf(pending[q].index) \in spoilt'
  PROVE  Pool'
<1>1. \A q \in Requests : q # r =>
        /\ pc'[q] = pc[q] /\ pending'[q] = pending[q] /\ pc[q] \notin Working
        /\ pc[q] = "left" \/ Done(q)
  BY Quiet DEF Types, TypeOK
<1>2. pc'[r] # "left"
  OBVIOUS
<1>3. ASSUME NEW q \in Requests PROVE OwnOp(q)'
  <2>1. CASE q = r
    BY <2>1, <1>2 DEF OwnOp, Doing, Done, AwaitsOp
  <2>2. CASE q # r
    <3>1. OwnOp(q)
      BY DEF Pool
    <3> QED BY <1>1, <2>2, <3>1 DEF OwnOp, Doing, Done
  <2> QED BY <2>1, <2>2
<1>4. OneRecord'
  <2> SUFFICES ASSUME NEW p \in Requests, NEW q \in Requests, Doing(q, "record")',
                      Doing(p, "record")' \/ pc'[p] \in {"open", "record"}
               PROVE  p = q
    BY DEF OneRecord
  <2>1. CASE p = r /\ q # r
    <3>1. Doing(q, "record") /\ pc'[r] \notin {"open", "record"}
      BY <1>1, <2>1 DEF Doing
    <3>2. Doing(r, "record")' /\ ~Done(r)'
      BY <2>1, <3>1 DEF Doing, Done
    <3>3. AwaitsOp(r)'
      BY <3>2
    <3> QED BY <3>1, <3>2, <3>3 DEF Doing, AwaitsOp
  <2>2. CASE p # r /\ q = r
    <3>1. Doing(p, "record")' \/ pc[p] \in {"open", "record"}
      BY <1>1, <2>2
    <3>2. Doing(p, "record")
      BY <1>1, <2>2, <3>1 DEF Doing, Working
    <3>3. pc'[r] = "record"
      BY <2>2, <1>1 DEF Doing, Done, AwaitsOp
    <3> QED BY <2>2, <3>2, <3>3
  <2>3. CASE p # r /\ q # r
    BY <1>1, <2>3 DEF Pool, OneRecord, Doing
  <2> QED BY <2>1, <2>2, <2>3
<1>5. StraysMarked'
  BY <1>1 DEF StraysMarked, FileOf
<1> QED BY <1>3, <1>4, <1>5 DEF Pool

LEMMA PoolCode ==
  ASSUME IInv, NEW r \in Requests, Step(r)
  PROVE  Pool'
<1>0. /\ Types /\ Pool /\ Filling /\ Sealing
      /\ archive' = archive /\ Len(manifest) \in Nat /\ NextIndex \in Nat /\ NextIndex >= 1
      /\ NextIndex = Len(manifest) + 1 /\ TypeOK /\ segment \in Handle
      /\ pending \in [Requests -> Operation] /\ manifest \in Seq(Entry)
      /\ pc \in [Requests -> Working \cup {"new", "archived", "failed", "left"}]
  BY DEF IInv, Types, TypeOK, NextIndex, Step, Enter, WriteRecord, WriteNewline, ReadAndSeal,
         NothingToRead, RemoveTemp, WriteManifest, Index, NoFault
<1>1. /\ StraysMarked /\ OneRecord /\ \A q \in Requests : OwnOp(q)
  BY <1>0 DEF Pool
<1>2. pc[r] \in Working \/ lock = None
  BY DEF Step, Enter, WriteRecord, WriteNewline, ReadAndSeal, NothingToRead, RemoveTemp,
         WriteManifest, Index, Goto, Working
<1>3. <<>> \in Seq(Pieces)
  OBVIOUS
\* Nothing begins but by Enter.
<1>4. ASSUME pc' = [pc EXCEPT ![r] = pc'[r]], pc[r] \in Using, UNCHANGED <<manifest, spoilt>>,
             segment' # NoSegment => segment # NoSegment
      PROVE  \A q \in Requests : pc[q] = "left" /\ FileBegun(pending[q].index)'
               /\ pending[q].do \in {"create", "newline", "remove", "final"} =>
                 FileOf(pending[q].index) \in spoilt'
  <2> TAKE q \in Requests
  <2>1. FileBegun(pending[q].index)
    BY <1>4 DEF FileBegun
  <2> QED BY <1>1, <1>4, <2>1 DEF StraysMarked
<1>5. CASE Enter(r)
  <2>1. pc[r] = "new" /\ lock = None /\ UNCHANGED <<segment, manifest>> /\ NextIndex' = NextIndex
    BY <1>5 DEF Enter, NextIndex
  <2>2. \A q \in Requests : Doing(q, "record") => segment # NoSegment /\ segment.at >= 1
    BY <1>1 DEF OwnOp
  <2>3. CASE segment = NoSegment
    <3>1. /\ pc' = [pc EXCEPT ![r] = "open"] /\ Mark(NextIndex)
          /\ Submit(r, "create", NextIndex, <<>>)
      BY <1>5, <2>3 DEF Enter, Goto
    <3>2. /\ pending'[r] = [do |-> "create", index |-> NextIndex, value |-> <<>>, begun |-> FALSE]
          /\ \A q \in Requests : q # r => pending'[q] = pending[q]
      BY <1>0, <1>3, <3>1, Submitted
    <3>3. ASSUME NEW q \in Requests, pc[q] = "left",
                 pending[q].do \in {"create", "newline", "remove", "final"}
          PROVE  FileOf(pending[q].index) \in spoilt'
      <4>1. pending[q].index \in 1 .. NextIndex /\ ~Done(q)
        BY <1>1, <3>3 DEF OwnOp, Done, Doing
      <4>2. CASE pending[q].index = NextIndex
        BY <3>1, <4>1, <4>2 DEF Mark, UnderWay
      <4>3. CASE pending[q].index # NextIndex
        <5>1. FileBegun(pending[q].index)
          BY <1>0, <4>1, <4>3 DEF FileBegun
        <5>2. FileOf(pending[q].index) \in spoilt
          BY <1>1, <3>3, <5>1 DEF StraysMarked
        <5> QED BY <3>1, <4>3, <5>2 DEF Mark, FileOf
      <4> QED BY <4>2, <4>3
    <3>4. /\ pc'[r] = "open" /\ pc' = [pc EXCEPT ![r] = pc'[r]] /\ AwaitsOp(r)'
          /\ ~Doing(r, "final")' /\ ~Doing(r, "manifest")' /\ ~Doing(r, "record")'
      BY <1>0, <3>1, <3>2 DEF AwaitsOp, Doing
    <3>5. \A q \in Requests : ~Doing(q, "record")
      BY <2>2, <2>3
    <3> QED BY <1>0, <1>2, <2>1, <3>2, <3>3, <3>4, <3>5, PoolSubmit
  <2>4. CASE segment # NoSegment
    <3>1. pc' = [pc EXCEPT ![r] = "json"] /\ UNCHANGED <<pending, spoilt>>
      BY <1>5, <2>4 DEF Enter, Goto
    <3>2. Done(r) /\ ~pending[r].begun
      BY <1>1, <2>1 DEF OwnOp, AwaitsOp, Done, Doing
    <3>3. \A q \in Requests : FileBegun(pending[q].index)
      BY <2>4 DEF FileBegun
    <3>4. /\ Done(r)' /\ ~Doing(r, "manifest")' /\ ~pending'[r].begun
          /\ pc'[r] = "json" /\ pc' = [pc EXCEPT ![r] = pc'[r]]
          /\ \A q \in Requests : q # r => pending'[q] = pending[q]
      BY <1>0, <3>1, <3>2 DEF Done, Doing
    <3>5. \A q \in Requests : pc[q] = "left"
             /\ pending[q].do \in {"create", "newline", "remove", "final"} =>
            FileOf(pending[q].index) \in spoilt'
      BY <1>0, <1>1, <3>1, <3>3 DEF StraysMarked, FileOf
    <3> QED BY <1>0, <1>2, <2>1, <2>2, <3>4, <3>5, PoolSubmit
  <2> QED BY <2>3, <2>4
<1>6. CASE WriteRecord(r)
  <2>1. /\ pc[r] \in {"open", "json"} /\ pc' = [pc EXCEPT ![r] = "record"]
        /\ segment' = [segment EXCEPT !.at = @ + 1] /\ UNCHANGED <<manifest, spoilt>>
        /\ Submit(r, "record", segment.index, <<>>) /\ NextIndex' = NextIndex
    BY <1>6 DEF WriteRecord, Goto, NextIndex
  <2>2. segment # NoSegment /\ segment.index = NextIndex /\ segment.at \in Nat
    BY <1>0, <1>6 DEF WriteRecord, Goto, Filling, FillingOK, SegmentOK, Handle
  <2>3. segment'.at = segment.at + 1 /\ segment'.at >= 1 /\ segment' # NoSegment
    <3>1. segment.at + 1 \in Nat /\ segment' = [segment EXCEPT !.at = segment.at + 1]
      BY <2>1, <2>2
    <3>2. segment'.at = segment.at + 1
      BY <1>0, <3>1, Moved
    <3> QED BY <2>2, <3>2 DEF NoSegment
  <2>4. /\ pending'[r] = [do |-> "record", index |-> NextIndex, value |-> <<>>, begun |-> FALSE]
        /\ \A q \in Requests : q # r => pending'[q] = pending[q]
    BY <1>0, <1>3, <2>1, <2>2, Submitted
  <2>5. \A q \in Requests : ~Doing(q, "record")
    BY <1>1, <1>6 DEF WriteRecord, Goto, HandleFree, OneRecord, Done, Doing
  <2>6. \A q \in Requests : pc[q] = "left" /\ FileBegun(pending[q].index)'
          /\ pending[q].do \in {"create", "newline", "remove", "final"} =>
            FileOf(pending[q].index) \in spoilt'
    BY <1>0, <1>4, <2>1, <2>2 DEF Using
  <2>7. /\ pc'[r] = "record" /\ pc' = [pc EXCEPT ![r] = pc'[r]] /\ AwaitsOp(r)'
        /\ ~Doing(r, "final")' /\ ~Doing(r, "manifest")'
        /\ ~pending'[r].begun /\ pending'[r].index = NextIndex'
        /\ \A q \in Requests : q # r => pending'[q] = pending[q]
    BY <1>0, <2>1, <2>4 DEF AwaitsOp, Doing
  <2>8. NextIndex' = NextIndex /\ UNCHANGED manifest
    BY <2>1
  <2> QED BY <1>0, <1>2, <2>3, <2>5, <2>6, <2>7, <2>8, PoolSubmit
<1>7. CASE WriteNewline(r)
  <2>1. /\ pc[r] = "record" /\ pc' = [pc EXCEPT ![r] = "flush"] /\ Done(r)
        /\ segment' = NoSegment /\ UNCHANGED <<manifest, spoilt>>
        /\ Submit(r, "newline", segment.index, <<>>) /\ NextIndex' = NextIndex
    BY <1>7 DEF WriteNewline, Goto, NextIndex
  <2>2. segment.index = NextIndex
    BY <1>0, <2>1 DEF Filling, FillingOK, SegmentOK
  <2>3. /\ pending'[r] = [do |-> "newline", index |-> NextIndex, value |-> <<>>, begun |-> FALSE]
        /\ \A q \in Requests : q # r => pending'[q] = pending[q]
    BY <1>0, <1>3, <2>1, <2>2, Submitted
  <2>4. \A q \in Requests : ~Doing(q, "record")
    BY <1>1, <2>1 DEF OneRecord, Done, Doing
  <2>5. \A q \in Requests : pc[q] = "left" /\ FileBegun(pending[q].index)'
          /\ pending[q].do \in {"create", "newline", "remove", "final"} =>
            FileOf(pending[q].index) \in spoilt'
    BY <1>0, <1>4, <2>1 DEF Using
  <2>6. /\ pc'[r] = "flush" /\ pc' = [pc EXCEPT ![r] = pc'[r]] /\ AwaitsOp(r)'
        /\ ~Doing(r, "final")' /\ ~Doing(r, "manifest")' /\ ~Doing(r, "record")'
        /\ ~pending'[r].begun /\ pending'[r].index = NextIndex'
        /\ \A q \in Requests : q # r => pending'[q] = pending[q]
    BY <1>0, <2>1, <2>3 DEF AwaitsOp, Doing
  <2>7. NextIndex' = NextIndex /\ UNCHANGED manifest
    BY <2>1
  <2> QED BY <1>0, <1>2, <2>4, <2>5, <2>6, <2>7, PoolSubmit
<1>8. CASE ReadAndSeal(r) \/ RemoveTemp(r)
  <2>1. /\ pc[r] \in {"flush", "final"} /\ UNCHANGED <<manifest, spoilt, segment>>
        /\ NextIndex' = NextIndex /\ local[r].index = NextIndex
    BY <1>0, <1>8 DEF ReadAndSeal, RemoveTemp, Goto, NextIndex, Filling, TakenOK, Sealing, SealedOK
  <2>2. /\ \A q \in Requests : q # r => pending'[q] = pending[q]
        /\ ~pending'[r].begun /\ pending'[r].index = NextIndex
        /\ pc' = [pc EXCEPT ![r] = pc'[r]] /\ AwaitsOp(r)'
        /\ pc'[r] \in {"final", "remove"}
        /\ Doing(r, "final")' => pending'[r].value = local'[r].content
    <3>1. CASE ReadAndSeal(r)
      <4>1. temp.pieces \in Seq(Pieces)
        BY <1>0 DEF Types, File
      <4>2. /\ pending'[r] = [do |-> "final", index |-> NextIndex, value |-> temp.pieces,
                              begun |-> FALSE]
            /\ \A q \in Requests : q # r => pending'[q] = pending[q]
        BY <1>0, <2>1, <3>1, <4>1, Submitted DEF ReadAndSeal
      <4>3. local'[r].content = temp.pieces
        BY <1>0, <3>1 DEF ReadAndSeal, Types
      <4> QED BY <1>0, <3>1, <4>2, <4>3 DEF ReadAndSeal, Goto, AwaitsOp, Doing
    <3>2. CASE RemoveTemp(r)
      <4>1. /\ pending'[r] = [do |-> "remove", index |-> NextIndex, value |-> <<>>, begun |-> FALSE]
            /\ \A q \in Requests : q # r => pending'[q] = pending[q]
        BY <1>0, <1>3, <2>1, <3>2, Submitted DEF RemoveTemp
      <4> QED BY <1>0, <3>2, <4>1 DEF RemoveTemp, Goto, AwaitsOp, Doing
    <3> QED BY <1>8, <3>1, <3>2
  <2>3. \A q \in Requests : Doing(q, "record") => segment # NoSegment /\ segment.at >= 1
    BY <1>1 DEF OwnOp
  <2>4. \A q \in Requests : pc[q] = "left" /\ FileBegun(pending[q].index)'
          /\ pending[q].do \in {"create", "newline", "remove", "final"} =>
            FileOf(pending[q].index) \in spoilt'
    BY <1>0, <1>4, <2>1, <2>2 DEF Using
  <2>5. AwaitsOp(r)' /\ pc'[r] \in {"final", "remove"} =>
          ~Doing(r, "manifest")' /\ ~Doing(r, "record")'
    BY DEF AwaitsOp, Doing
  <2>6. UNCHANGED manifest
    BY <2>1
  <2> QED BY <1>0, <1>2, <2>1, <2>2, <2>3, <2>4, <2>5, PoolSubmit
<1>9. CASE WriteManifest(r)
  <2>1. /\ pc[r] = "remove" /\ pc' = [pc EXCEPT ![r] = "manifest"] /\ segment' = segment
        /\ manifest' = Append(manifest, local[r]) /\ Submit(r, "manifest", 0, manifest') /\ Mark(0)
    BY <1>9 DEF WriteManifest, Goto
  <2>2. local[r] \in Entry
    BY <1>0, <2>1 DEF Types
  <2>3. manifest' \in Seq(Entry) /\ manifest' # <<>> /\ NextIndex' = NextIndex + 1
        /\ Len(manifest') = Len(manifest) + 1
    BY <1>0, <2>1, <2>2, Appended DEF NextIndex
  <2>4. /\ pending'[r] = [do |-> "manifest", index |-> 0, value |-> manifest', begun |-> FALSE]
        /\ \A q \in Requests : q # r => pending'[q] = pending[q]
    BY <1>0, <2>1, <2>3, Submitted
  <2>5. \A q \in Requests : Doing(q, "record") => segment # NoSegment /\ segment.at >= 1
    BY <1>1 DEF OwnOp
  <2>6. ASSUME NEW q \in Requests, pc[q] = "left",
               pending[q].do \in {"create", "newline", "remove", "final"}
        PROVE  FileOf(pending[q].index) \in spoilt'
    <3>1. FileBegun(pending[q].index)
      BY <2>1 DEF FileBegun, Using
    <3>2. FileOf(pending[q].index) \in spoilt /\ pending[q].index # 0
      BY <1>0, <1>1, <2>6, <3>1 DEF StraysMarked, OwnOp, Done, Doing
    <3> QED BY <2>1, <3>2 DEF Mark, FileOf
  <2>7. /\ pc'[r] = "manifest" /\ pc' = [pc EXCEPT ![r] = pc'[r]] /\ AwaitsOp(r)'
        /\ ~Doing(r, "final")' /\ Doing(r, "manifest")' /\ ~Doing(r, "record")'
        /\ ~pending'[r].begun /\ pending'[r].index = 0
        /\ \A q \in Requests : q # r => pending'[q] = pending[q]
    BY <1>0, <2>1, <2>4 DEF AwaitsOp, Doing
  <2>8. segment' = segment
    BY <2>1
  <2> QED BY <1>0, <1>2, <2>3, <2>5, <2>6, <2>7, <2>8, PoolSubmit
<1>10. CASE Index(r) \/ NothingToRead(r)
  <2>1. /\ pc' = [pc EXCEPT ![r] = pc'[r]] /\ pc'[r] \in {"archived", "failed"} /\ Done(r)
        /\ UNCHANGED <<segment, manifest, pending, spoilt>> /\ NextIndex' = NextIndex
    BY <1>0, <1>10 DEF Index, NothingToRead, Goto, NextIndex
  <2>2. \A q \in Requests : Doing(q, "record") => segment # NoSegment /\ segment.at >= 1
    BY <1>1 DEF OwnOp
  <2>3. Done(r)' /\ ~pending'[r].begun /\ ~Doing(r, "manifest")'
    BY <1>1, <2>1 DEF OwnOp, Done, Doing
  <2>4. ASSUME NEW q \in Requests, pc[q] = "left", FileBegun(pending[q].index)',
               pending[q].do \in {"create", "newline", "remove", "final"}
        PROVE  FileOf(pending[q].index) \in spoilt'
    <3>1. FileBegun(pending[q].index)
      BY <1>0, <2>1, <2>4 DEF FileBegun, Using
    <3> QED BY <1>1, <2>1, <2>4, <3>1 DEF StraysMarked, FileOf
  <2> QED BY <1>0, <1>2, <2>1, <2>2, <2>3, <2>4, PoolSubmit
<1> QED BY <1>5, <1>6, <1>7, <1>8, <1>9, <1>10 DEF Step

\* What Land and Begin do to the operation.
LEMMA Landing ==
  ASSUME Types, NEW r \in Requests, Land(r)
  PROVE  /\ ~Done(r) /\ \A q \in Requests : q # r => pending'[q] = pending[q]
         /\ UNCHANGED <<pc, local, lock, archive, manifest, indexed, cut, spoilt>>
         /\ NextIndex' = NextIndex /\ pending'[r] = Idle /\ Done(r)'
<1>1. pending \in [Requests -> Operation] /\ pending' = [pending EXCEPT ![r] = Idle]
  BY DEF Types, Land
<1>2. pending'[r] = Idle /\ \A q \in Requests : q # r => pending'[q] = pending[q]
  BY <1>1
<1>3. ~Done(r)
  BY DEF Land, Created, LineWritten, Removed, FinalWritten, ManifestWritten, Done, Doing
<1> QED BY <1>2, <1>3 DEF Land, NoFault, NextIndex, Done, Doing, Idle

LEMMA Beginning ==
  ASSUME Types, NEW r \in Requests, Begin(r)
  PROVE  /\ ~Done(r) /\ \A q \in Requests : q # r => pending'[q] = pending[q]
         /\ UNCHANGED <<pc, local, lock, archive, segment, manifest, indexed, cut, spoilt>>
         /\ NextIndex' = NextIndex
         /\ pending'[r].do = pending[r].do /\ pending'[r].index = pending[r].index
         /\ pending'[r].value = pending[r].value
         /\ pending'[r].begun /\ ~pending[r].begun
         /\ pending[r].do \in {"record", "final", "manifest"}
<1>1. pending \in [Requests -> Operation] /\ pending' = [pending EXCEPT ![r].begun = TRUE]
  BY DEF Types, Begin
<1>2. pending'[r] = [pending[r] EXCEPT !.begun = TRUE] /\ pending[r] \in Operation
      /\ \A q \in Requests : q # r => pending'[q] = pending[q]
  BY <1>1
<1>3. /\ pending'[r].do = pending[r].do /\ pending'[r].index = pending[r].index
      /\ pending'[r].value = pending[r].value /\ pending'[r].begun
  BY <1>2 DEF Operation
<1>4. pending[r].do \in {"record", "final", "manifest"} /\ ~pending[r].begun
  BY DEF Begin, Doing
<1> QED BY <1>2, <1>3, <1>4 DEF Begin, NoFault, NextIndex, Done, Doing

LEMMA PoolPool ==
  ASSUME IInv, NEW r \in Requests, Land(r) \/ Begin(r)
  PROVE  Pool'
<1>0. /\ Types /\ StraysMarked /\ OneRecord /\ \A q \in Requests : OwnOp(q)
  BY DEF IInv, Pool
<1>1. /\ ~Done(r) /\ \A q \in Requests : q # r => pending'[q] = pending[q]
      /\ UNCHANGED <<pc, local, archive, manifest, spoilt>> /\ NextIndex' = NextIndex
  BY <1>0, Landing, Beginning
<1>2. \/ Done(r)' /\ ~pending'[r].begun
      \/ /\ pending'[r].do = pending[r].do /\ pending'[r].index = pending[r].index
         /\ pending'[r].value = pending[r].value
         /\ pending[r].do \in {"record", "final", "manifest"}
  BY <1>0, Landing, Beginning DEF Idle
<1>3. /\ \A q \in Requests, do \in {"create", "record", "newline", "remove", "final", "manifest"} :
           Doing(q, do)' => Doing(q, do) /\ pending'[q].index = pending[q].index
                            /\ pending'[q].value = pending[q].value
      /\ \A q \in Requests : ~Done(q)' => ~Done(q) /\ pending'[q].index = pending[q].index
                                          /\ pending'[q].do = pending[q].do
  BY <1>1, <1>2 DEF Done, Doing
<1>4. segment' = segment \/ /\ pc[r] = "open" /\ Doing(r, "create")
  BY DEF Land, Begin, Created, LineWritten, Removed, FinalWritten, ManifestWritten
<1>5. OneRecord'
  BY <1>0, <1>1, <1>3 DEF OneRecord
<1>6. ASSUME NEW q \in Requests PROVE OwnOp(q)'
  <2>1. OwnOp(q)
    BY <1>0
  <2>2. pc'[q] # "left" /\ ~Done(q)' =>
          AwaitsOp(q)' /\ (Doing(q, "final")' => pending'[q].value = local'[q].content)
    BY <1>1, <1>3, <2>1 DEF OwnOp, AwaitsOp, Done, Doing
  <2>3. Doing(q, "record")' => segment'# NoSegment /\ segment'.at >= 1
    <3>1. Doing(q, "record")' => Doing(q, "record")
      BY <1>3
    <3>2. Doing(q, "record") => segment' = segment
      BY <1>0, <1>4 DEF OneRecord, Doing
    <3> QED BY <2>1, <3>1, <3>2 DEF OwnOp
  <2>4. pending'[q].begun => pending'[q].do \in {"record", "final", "manifest"}
    BY <1>1, <1>2, <2>1 DEF OwnOp
  <2> QED BY <1>1, <1>3, <2>1, <2>2, <2>3, <2>4 DEF OwnOp, Done, Doing
<1>7. StraysMarked'
  <2> SUFFICES ASSUME NEW q \in Requests, pc'[q] = "left", FileBegun(pending[q].index)',
                      pending'[q].do \in {"create", "newline", "remove", "final"}
               PROVE  FileOf(pending[q].index)' \in spoilt'
    BY DEF StraysMarked
  <2>1. pending'[q].do = pending[q].do /\ pending'[q].index = pending[q].index
    BY <1>3 DEF Done, Doing
  <2>2. FileBegun(pending[q].index)
    BY <1>1, <1>4, <2>1 DEF FileBegun, Using
  <2> QED BY <1>0, <1>1, <2>1, <2>2 DEF StraysMarked, FileOf
<1> QED BY <1>5, <1>6, <1>7 DEF Pool

\* A failing operation leaves the pool of the others as it is.
LEMMA PoolFailure ==
  ASSUME IInv, NEW q \in Requests, OperationFails(q),
         UNCHANGED <<archive, manifest>>,
         NEW r \in Requests, q = r \/ pc[r] \in {"json"},
         \/ pc' = pc /\ pc[r] = "left" /\ UNCHANGED local
         \/ pc' = [pc EXCEPT ![r] = "failed"] /\ local' = [local EXCEPT ![r] = None]
  PROVE  Pool'
<1>0. /\ Types /\ StraysMarked /\ OneRecord /\ \A p \in Requests : OwnOp(p)
      /\ spoilt \subseteq spoilt' /\ NextIndex' = NextIndex
  BY DEF IInv, Pool, OperationFails, NextIndex
<1>1. /\ pending'[q] = Idle /\ \A p \in Requests : p # q => pending'[p] = pending[p]
      /\ Done(q)' /\ ~Done(q)
  BY <1>0, FailureTypes
<1>2. \A p \in Requests : p # r => pc'[p] = pc[p] /\ local'[p] = local[p]
  BY <1>0 DEF Types, TypeOK
<1>3. \A p \in Requests : ~Done(p)' => p # q /\ pending'[p] = pending[p] /\ ~Done(p)
  BY <1>1 DEF Done, Doing
<1>4. pc'[r] \in {"failed", "left"} /\ (pc'[r] # "left" => Done(r)')
  <2>1. pc'[r] = "failed" \/ pc'[r] = "left"
    BY <1>0 DEF Types, TypeOK
  <2>2. CASE q = r
    BY <1>1, <2>1, <2>2
  <2>3. CASE pc[r] = "json" /\ q # r
    <3>1. Done(r)
      BY <1>0, <2>3 DEF OwnOp, AwaitsOp
    <3> QED BY <1>1, <2>1, <2>3, <3>1 DEF Done, Doing
  <2> QED BY <2>2, <2>3
<1>5. segment' # NoSegment => segment # NoSegment
  BY <1>0 DEF OperationFails, OwnOp
<1>6. \A p \in Requests : Doing(p, "record")' => Doing(p, "record") /\ segment' = segment
  <2> SUFFICES ASSUME NEW p \in Requests, Doing(p, "record")'
               PROVE  Doing(p, "record") /\ segment' = segment
    OBVIOUS
  <2>1. p # q /\ Doing(p, "record")
    BY <1>3 DEF Done, Doing
  <2>2. ~Doing(q, "record")
    BY <1>0, <2>1 DEF OneRecord
  <2> QED BY <2>1, <2>2 DEF OperationFails
<1>7. ASSUME NEW p \in Requests PROVE OwnOp(p)'
  <2>1. OwnOp(p)
    BY <1>0
  <2>2. CASE ~Done(p)'
    <3>1. pending'[p] = pending[p] /\ ~Done(p)
      BY <1>3, <2>2
    <3>2. pc'[p] # "left" => pc'[p] = pc[p] /\ local'[p] = local[p]
      BY <1>2, <1>4, <2>2
    <3> QED BY <1>0, <1>6, <2>1, <3>1, <3>2 DEF OwnOp, AwaitsOp, Done, Doing
  <2>3. CASE Done(p)'
    <3>1. ~pending'[p].begun
      <4>1. CASE p = q
        BY <1>1, <4>1 DEF Idle
      <4>2. CASE p # q
        BY <1>1, <2>1, <2>3, <4>2 DEF OwnOp, Done, Doing
      <4> QED BY <4>1, <4>2
    <3> QED BY <2>3, <3>1 DEF OwnOp, Done, Doing
  <2> QED BY <2>2, <2>3
<1>8. OneRecord'
  <2>1. \A p \in Requests : pc'[p] \in {"open", "record"} => pc[p] \in {"open", "record"}
    BY <1>2, <1>4
  <2> QED BY <1>0, <1>6, <2>1 DEF OneRecord
<1>9. StraysMarked'
  <2> SUFFICES ASSUME NEW p \in Requests, pc'[p] = "left", FileBegun(pending[p].index)',
                      pending'[p].do \in {"create", "newline", "remove", "final"}
               PROVE  FileOf(pending[p].index)' \in spoilt'
    BY DEF StraysMarked
  <2>1. pending'[p] = pending[p]
    BY <1>3 DEF Done, Doing
  <2>2. pc[p] = "left"
    BY <1>2, <1>0 DEF Types, TypeOK
  <2>3. FileBegun(pending[p].index)
    BY <1>2, <1>4, <1>5, <2>1 DEF FileBegun, Using
  <2> QED BY <1>0, <2>1, <2>2, <2>3 DEF StraysMarked, FileOf
<1> QED BY <1>7, <1>8, <1>9 DEF Pool

LEMMA PoolFaults ==
  ASSUME IInv, NEW r \in Requests, Fails(r) \/ Leaves(r) \/ FailsUnheard(r) \/ Crash
  PROVE  Pool'
<1>0. /\ Types /\ Pool /\ StraysMarked /\ OneRecord /\ (\A q \in Requests : OwnOp(q))
      /\ Filling /\ TypeOK
  BY DEF IInv, Pool, Types
<1>1. CASE FailsUnheard(r)
  BY <1>1, PoolFailure DEF FailsUnheard
<1>2. CASE Fails(r) /\ OperationFails(r)
  BY <1>2, PoolFailure DEF Fails, Release
<1>3. CASE Fails(r) /\ pc[r] = "json" /\ \E q \in Requests : Doing(q, "record") /\ OperationFails(q)
  BY <1>3, PoolFailure DEF Fails, Release
<1>4. CASE Fails(r) /\ Done(r) /\ UNCHANGED <<pending, segment, cut, spoilt>>
  <2>1. /\ pc' = [pc EXCEPT ![r] = "failed"] /\ local' = [local EXCEPT ![r] = None]
        /\ UNCHANGED <<archive, manifest>> /\ NextIndex' = NextIndex
    BY <1>4 DEF Fails, Release, NextIndex
  <2>2. pc'[r] = "failed" /\ \A q \in Requests : q # r => pc'[q] = pc[q] /\ local'[q] = local[q]
    BY <1>0, <2>1 DEF TypeOK, Types
  <2>3. ASSUME NEW q \in Requests PROVE OwnOp(q)'
    <3>1. OwnOp(q)
      BY <1>0
    <3> QED BY <1>4, <2>1, <2>2, <3>1 DEF OwnOp, AwaitsOp, Done, Doing
  <2>4. OneRecord'
    BY <1>0, <1>4, <2>2 DEF OneRecord, Doing
  <2>5. ASSUME NEW i, FileBegun(i)' PROVE FileBegun(i)
    BY <1>4, <2>1, <2>2, <2>5 DEF FileBegun, Using
  <2>6. StraysMarked'
    BY <1>0, <1>4, <2>1, <2>2, <2>5 DEF StraysMarked, FileOf
  <2> QED BY <2>3, <2>4, <2>6 DEF Pool
<1>5. CASE Leaves(r)
  <2>1. /\ pc[r] \in Working /\ pc' = [pc EXCEPT ![r] = "left"]
        /\ local' = [local EXCEPT ![r] = None]
        /\ UNCHANGED <<archive, manifest, pending, spoilt>> /\ NextIndex' = NextIndex
        /\ segment' = IF pc[r] = "open" THEN NoSegment ELSE segment
    BY <1>5 DEF Leaves, Release, NextIndex
  <2>2. pc'[r] = "left" /\ \A q \in Requests : q # r =>
          pc'[q] = pc[q] /\ local'[q] = local[q] /\ pc[q] \notin Working
    BY <1>0, <2>1, Alone DEF TypeOK, Types
  <2>3. \A q \in Requests : Doing(q, "record") => segment' = segment
    BY <1>0, <2>1 DEF OneRecord, OwnOp, AwaitsOp, Done, Doing
  <2>4. ASSUME NEW q \in Requests PROVE OwnOp(q)'
    <3>1. OwnOp(q)
      BY <1>0
    <3> QED BY <2>1, <2>2, <2>3, <3>1 DEF OwnOp, AwaitsOp, Done, Doing
  <2>5. OneRecord'
    BY <1>0, <2>1, <2>2 DEF OneRecord, Doing
  <2>6. ASSUME NEW q \in Requests, q # r, pc'[q] = "left", FileBegun(pending[q].index)',
               pending[q].do \in {"create", "newline", "remove", "final"}
        PROVE  FileOf(pending[q].index) \in spoilt
    <3>1. FileBegun(pending[q].index)
      BY <2>1, <2>2, <2>6 DEF FileBegun, Using
    <3> QED BY <1>0, <2>2, <2>6, <3>1 DEF StraysMarked
  <2>7. ASSUME pending[r].do \in {"create", "newline", "remove", "final"}
        PROVE  ~FileBegun(pending[r].index)'
    <3>1. AwaitsOp(r) /\ pending[r].index = NextIndex
      BY <1>0, <2>1, <2>7 DEF OwnOp, Done, Doing, Working
    <3>2. pc[r] \in {"open", "flush", "final", "remove"}
      BY <2>7, <3>1 DEF AwaitsOp, Doing
    <3>3. segment' = NoSegment
      BY <1>0, <2>1, <3>2 DEF Filling, SegmentOK
    <3>4. \A q \in Requests : pc'[q] \notin Using
      BY <2>2 DEF Using, Working
    <3>5. ~(NextIndex <= Len(manifest))
      BY <1>0 DEF Types, NextIndex
    <3> QED BY <2>1, <3>1, <3>3, <3>4, <3>5 DEF FileBegun
  <2>8. StraysMarked'
    BY <2>1, <2>6, <2>7 DEF StraysMarked, FileOf
  <2> QED BY <2>4, <2>5, <2>8 DEF Pool
<1>6. CASE Crash
  <2>1. pending' = [q \in Requests |-> Idle]
    BY <1>6 DEF Crash
  <2>2. \A q \in Requests : pending'[q].do = "nothing" /\ pending'[q].begun = FALSE
    BY <2>1 DEF Idle
  <2> QED BY <2>2 DEF Pool, OwnOp, OneRecord, StraysMarked, Done, Doing
<1> QED BY <1>1, <1>2, <1>3, <1>4, <1>5, <1>6 DEF Fails

-----------------------------------------------------------------------------
(* The segment being filled.                                                *)

\* With no segment open and no request filling one there is nothing to say.
LEMMA NothingFilling ==
  ASSUME segment' = NoSegment,
         \A q \in Requests : pc'[q] \notin {"json", "record", "flush"},
         \A q \in Requests : pc'[q] = "open" => ~Done(q)'
  PROVE  Filling'
  BY DEF Filling, SegmentOK, FillingOK, TakenOK, NoSegment

\* A stray operation on a file that was begun finds it marked.
LEMMA StrayHarmless ==
  ASSUME Pool, NEW q \in Requests, pc[q] = "left", pending[q].index = NextIndex,
         pending[q].do \in {"create", "newline", "remove", "final"},
         segment # NoSegment \/ \E r \in Requests : pc[r] \in Using
  PROVE  ~Clean
  BY DEF Pool, StraysMarked, FileBegun, Clean

LEMMA FillingCode ==
  ASSUME IInv, NEW r \in Requests, Step(r)
  PROVE  Filling'
<1>0. /\ Types /\ Pool /\ OneRecord /\ Filling /\ SegmentOK /\ FillingOK(r) /\ TakenOK(r)
      /\ archive' = archive /\ temp \in File /\ segment \in Handle
      /\ Len(temp.pieces) \in Nat /\ pending \in [Requests -> Operation]
      /\ pc \in [Requests -> Working \cup {"new", "archived", "failed", "left"}]
      /\ local \in [Requests -> Handle \cup Entry \cup {None}]
  BY DEF IInv, Types, TypeOK, Pool, Filling, File, Step, Enter, WriteRecord, WriteNewline,
         ReadAndSeal, NothingToRead, RemoveTemp, WriteManifest, Index, NoFault
<1>1. pc[r] \in Working \/ lock = None
  BY DEF Step, Enter, WriteRecord, WriteNewline, ReadAndSeal, NothingToRead, RemoveTemp,
         WriteManifest, Index, Goto, Working
<1>2. \A q \in Requests : q # r => pc[q] \notin Working /\ (pc[q] = "left" \/ Done(q))
  BY <1>0, <1>1, Quiet
<1>3. CASE Enter(r)
  <2>1. pc[r] = "new" /\ UNCHANGED <<segment, temp, manifest>> /\ NextIndex' = NextIndex
    BY <1>3 DEF Enter, disk, NextIndex
  <2>2. CASE segment = NoSegment
    <3>1. pc' = [pc EXCEPT ![r] = "open"] /\ Submit(r, "create", NextIndex, <<>>)
      BY <1>3, <2>2 DEF Enter, Goto
    <3>2. pending'[r].do = "create"
      BY <1>0, <3>1 DEF Submit
    <3>3. \A q \in Requests : q # r => pc'[q] = pc[q]
      BY <1>0, <3>1
    <3> QED BY <1>0, <1>2, <2>1, <2>2, <3>1, <3>2, <3>3, NothingFilling DEF Working, Done, Doing
  <2>3. CASE segment # NoSegment
    <3>1. pc' = [pc EXCEPT ![r] = "json"] /\ UNCHANGED <<pending, spoilt, cut>>
      BY <1>3, <2>3 DEF Enter, Goto
    <3>2. pc'[r] = "json" /\ \A q \in Requests : q # r => pc'[q] = pc[q]
      BY <1>0, <3>1
    <3>3. ~Uncut
      BY <1>0, <1>2, <2>1, <2>3 DEF SegmentOK, Working
    <3>4. SegmentOK'
      BY <1>0, <1>2, <2>1, <2>3, <3>1, <3>2, <3>3
      DEF SegmentOK, Working, Clean, Uncut, NoNewline, Doing, FileOf
    <3>5. \A q \in Requests : FillingOK(q)' /\ TakenOK(q)'
      BY <1>2, <2>1, <2>3, <3>2 DEF FillingOK, TakenOK, Working
    <3> QED BY <3>4, <3>5 DEF Filling
  <2> QED BY <2>2, <2>3
<1>4. CASE WriteRecord(r)
  <2>1. /\ pc[r] \in {"open", "json"} /\ pc' = [pc EXCEPT ![r] = "record"]
        /\ segment' = [segment EXCEPT !.at = @ + 1]
        /\ Submit(r, "record", segment.index, <<>>) /\ NextIndex' = NextIndex
        /\ UNCHANGED <<manifest, temp, spoilt, cut>>
    BY <1>4 DEF WriteRecord, Goto, NextIndex, disk
  <2>2. pc'[r] = "record" /\ \A q \in Requests : q # r => pc'[q] = pc[q] /\ pc[q] \notin Working
    BY <1>0, <1>2, <2>1
  <2>3. segment # NoSegment /\ segment.at \in Nat
    BY <1>0, <1>4 DEF WriteRecord, Goto, FillingOK, Handle
  <2>4. /\ segment'.at = segment.at + 1 /\ segment'.made = segment.made
        /\ segment'.index = segment.index /\ segment'.count = segment.count
        /\ segment' # NoSegment
    BY <1>0, <2>1, <2>3 DEF Handle, NoSegment
  <2>5. \A q \in Requests : ~Doing(q, "record")
    BY <1>0, <1>4 DEF WriteRecord, Goto, HandleFree, OneRecord, Done, Doing
  <2>6. pending'[r].do = "record" /\ pending'[r].begun = FALSE
    BY <1>0, <2>1 DEF Submit
  <2>7. Clean => Len(temp.pieces) = segment'.at - 1
    BY <1>0, <2>3, <2>4, <2>5 DEF SegmentOK
  <2>8. Uncut => segment'.at = 1
    BY <1>0, <2>1, <2>2, <2>3, <2>4 DEF SegmentOK, Working
  <2>9. \E q \in Requests : Doing(q, "record")' /\ ~pending'[q].begun
    BY <2>6 DEF Doing
  <2>10. SegmentOK'
    BY <1>0, <2>1, <2>2, <2>3, <2>4, <2>7, <2>8, <2>9
    DEF SegmentOK, Working, Clean, Uncut, NoNewline, FileOf
  <2>11. \A q \in Requests : FillingOK(q)' /\ TakenOK(q)'
    BY <2>2, <2>4, <2>6 DEF FillingOK, TakenOK, Working, Done, Doing
  <2> QED BY <2>10, <2>11 DEF Filling
<1>5. CASE WriteNewline(r)
  <2>1. /\ pc[r] = "record" /\ pc' = [pc EXCEPT ![r] = "flush"] /\ Done(r)
        /\ segment' = NoSegment /\ NextIndex' = NextIndex
        /\ Submit(r, "newline", segment.index, <<>>)
        /\ local' = [local EXCEPT ![r] = [segment EXCEPT !.at = segment.at + 1,
                                                         !.count = segment.count + 1]]
        /\ UNCHANGED <<manifest, temp, spoilt, cut>>
    BY <1>5 DEF WriteNewline, Goto, NextIndex, disk
  <2>2. pc'[r] = "flush" /\ \A q \in Requests : q # r => pc'[q] = pc[q] /\ pc[q] \notin Working
    BY <1>0, <1>2, <2>1
  <2>3. /\ segment # NoSegment /\ segment.at \in Nat /\ segment.count = 0
        /\ segment.index = NextIndex /\ segment.made \in Requests
    BY <1>0, <2>1 DEF FillingOK, SegmentOK, Handle
  <2>4. /\ local'[r].at = segment.at + 1 /\ local'[r].count = 1 /\ local'[r].index = NextIndex
        /\ local'[r].made = segment.made
    <3> DEFINE at == segment.at + 1
               count == segment.count + 1
    <3>1. at \in Nat /\ count \in Nat /\ count = 1
      BY <2>3
    <3>2. local'[r] = [segment EXCEPT !.at = at, !.count = count]
      BY <1>0, <2>1
    <3>3. at = segment.at + 1
      OBVIOUS
    <3> HIDE DEF at, count
    <3>4. local'[r].at = at /\ local'[r].count = count /\ local'[r].index = segment.index
          /\ local'[r].made = segment.made
      BY <1>0, <3>1, <3>2 DEF Handle
    <3> QED BY <2>3, <3>1, <3>3, <3>4
  <2>5. \A q \in Requests : ~Doing(q, "record")
    BY <1>0, <2>1 DEF OneRecord, Done, Doing
  <2>6. ~Done(r)'
    BY <1>0, <2>1 DEF Submit, Done, Doing
  <2>7. Clean => /\ temp.made = segment.made /\ NoNewline(Len(temp.pieces))
                 /\ Len(temp.pieces) = segment.at
    BY <1>0, <2>3, <2>5 DEF SegmentOK
  <2>8. Clean /\ Uncut => segment.at = 1 /\ temp.pieces[1] = r
    BY <1>0, <2>1, <2>2, <2>3 DEF SegmentOK, FillingOK, Working
  <2>9. Clean' = Clean /\ Uncut' = Uncut
    BY <1>0, <2>1 DEF Clean, Uncut, FileOf
  <2>10. TakenOK(r)'
    BY <2>1, <2>3, <2>4, <2>6, <2>7, <2>8, <2>9 DEF TakenOK, NoNewline
  <2>11. \A q \in Requests : FillingOK(q)' /\ (q # r => TakenOK(q)')
    BY <2>2 DEF FillingOK, TakenOK, Working
  <2> QED BY <2>1, <2>10, <2>11 DEF Filling, SegmentOK
<1>6. CASE ReadAndSeal(r) \/ RemoveTemp(r) \/ WriteManifest(r) \/ Index(r) \/ NothingToRead(r)
  <2>1. /\ pc[r] \in {"flush", "final", "remove", "manifest"} /\ segment' = segment
        /\ pc' = [pc EXCEPT ![r] = pc'[r]]
        /\ pc'[r] \in {"final", "remove", "manifest", "archived", "failed"}
    BY <1>0, <1>6 DEF ReadAndSeal, RemoveTemp, WriteManifest, Index, NothingToRead, Goto
  <2>2. segment = NoSegment
    BY <1>0, <2>1 DEF SegmentOK
  <2>3. \A q \in Requests : q # r => pc'[q] = pc[q]
    BY <1>0, <2>1
  <2> QED BY <1>2, <2>1, <2>2, <2>3, NothingFilling DEF Working
<1> QED BY <1>3, <1>4, <1>5, <1>6 DEF Step

\* What is written to the file in progress by whoever may write to it.
LEMMA Filled ==
  ASSUME temp \in File, NEW handle \in Handle, NEW piece \in Pieces, WriteTo(handle, piece),
         temp.made = handle.made, handle.at >= 1, Len(temp.pieces) \in {handle.at - 1, handle.at}
  PROVE  /\ temp'.made = temp.made /\ Len(temp'.pieces) = handle.at
         /\ temp'.pieces[handle.at] = piece
         /\ \A k \in 1 .. Len(temp.pieces) : k # handle.at => temp'.pieces[k] = temp.pieces[k]
         /\ NoNewline(handle.at - 1) => NoNewline(handle.at - 1)'
         /\ piece # Newline /\ NoNewline(Len(temp.pieces)) => NoNewline(Len(temp.pieces))'
<1>1. /\ temp.pieces \in Seq(Pieces) /\ handle.at \in Nat /\ Len(temp.pieces) \in Nat
      /\ temp'.made = temp.made /\ temp'.pieces = Put(temp.pieces, handle.at, piece)
  BY WriteToType DEF File, Handle
<1>2. /\ Len(temp'.pieces) = handle.at /\ temp'.pieces[handle.at] = piece
      /\ \A k \in 1 .. Len(temp.pieces) : k # handle.at => temp'.pieces[k] = temp.pieces[k]
  <2> DEFINE s == temp.pieces
             at == handle.at
  <2>1. s \in Seq(Pieces) /\ at \in Nat /\ at >= 1 /\ Len(s) \in {at - 1, at} /\ Len(s) \in Nat
    BY <1>1
  <2> HIDE DEF s, at
  <2>2. /\ Len(Put(s, at, piece)) = at /\ Put(s, at, piece)[at] = piece
        /\ \A k \in 1 .. Len(s) : k # at => Put(s, at, piece)[k] = s[k]
    <3>1. Len(Put(s, at, piece)) = IF at > Len(s) THEN at ELSE Len(s)
      BY <2>1, PutType
    <3>2. at >= 1 => Put(s, at, piece)[at] = piece
      BY <2>1, PutType
    <3>3. \A k \in 1 .. Len(s) : k # at => Put(s, at, piece)[k] = s[k]
      BY <2>1, PutType
    <3> QED BY <2>1, <3>1, <3>2, <3>3
  <2>3. temp'.pieces = Put(s, at, piece)
    BY <1>1 DEF s, at
  <2> QED BY <2>2, <2>3 DEF s, at
<1>3. \A k \in 1 .. handle.at - 1 : temp'.pieces[k] = temp.pieces[k]
  BY <1>1, <1>2
<1>4. NoNewline(handle.at - 1) => \A k \in 1 .. handle.at - 1 : temp'.pieces[k] # Newline
  BY <1>3 DEF NoNewline
<1>5. ASSUME piece # Newline, NoNewline(Len(temp.pieces))
      PROVE  \A k \in 1 .. Len(temp'.pieces) : temp'.pieces[k] # Newline
  <2> SUFFICES ASSUME NEW k \in 1 .. handle.at PROVE temp'.pieces[k] # Newline
    BY <1>2
  <2>1. CASE k = handle.at
    BY <1>2, <1>5, <2>1
  <2>2. CASE k # handle.at
    <3>1. k \in 1 .. handle.at - 1 /\ k \in 1 .. Len(temp.pieces)
      BY <1>1, <2>2
    <3> QED BY <1>3, <1>5, <3>1 DEF NoNewline
  <2> QED BY <2>1, <2>2
<1> QED BY <1>1, <1>2, <1>4, <1>5 DEF NoNewline

\* Whatever happens elsewhere, or to a file that is marked already.
LEMMA FillingFrame ==
  ASSUME IInv, NEW r \in Requests,
         UNCHANGED <<pc, local, archive, manifest, segment, cut>>, spoilt \subseteq spoilt',
         temp' = temp \/ ~Clean,
         \A q \in Requests : q # r => pending'[q] = pending[q],
         pc[r] \notin {"open", "record", "flush"},
         ~Doing(r, "record"), ~Doing(r, "record")'
  PROVE  Filling'
<1>1. Filling /\ NextIndex' = NextIndex
  BY DEF IInv, NextIndex
<1>2. (Clean' => Clean) /\ Uncut' = Uncut
  BY <1>1 DEF Clean, Uncut, FileOf
<1>3. (\E q \in Requests : Doing(q, "record")' /\ ~pending'[q].begun)
        <=> \E q \in Requests : Doing(q, "record") /\ ~pending[q].begun
  BY DEF Doing
<1>4. SegmentOK'
  BY <1>1, <1>2, <1>3 DEF Filling, SegmentOK, NoNewline
<1>5. ASSUME NEW q \in Requests PROVE FillingOK(q)' /\ TakenOK(q)'
  <2>1. FillingOK(q) /\ TakenOK(q)
    BY <1>1 DEF Filling
  <2>2. CASE q = r
    BY <1>1, <2>1, <2>2 DEF FillingOK, TakenOK
  <2>3. CASE q # r
    BY <1>1, <1>2, <2>1, <2>3 DEF FillingOK, TakenOK, NoNewline, Done, Doing
  <2> QED BY <2>2, <2>3
<1> QED BY <1>4, <1>5 DEF Filling

LEMMA FillingPool ==
  ASSUME IInv, NEW r \in Requests, Land(r) \/ Begin(r)
  PROVE  Filling'
<1>0. /\ Types /\ Pool /\ OneRecord /\ OwnOp(r)
      /\ Filling /\ SegmentOK /\ FillingOK(r) /\ TakenOK(r)
      /\ temp \in File /\ segment \in Handle /\ Len(temp.pieces) \in Nat
      /\ NextIndex \in Nat /\ NextIndex >= 1
  BY DEF IInv, Types, Pool, Filling, File, NextIndex
<1>1. /\ ~Done(r) /\ \A q \in Requests : q # r => pending'[q] = pending[q]
      /\ UNCHANGED <<pc, local, archive, manifest, cut, spoilt>> /\ NextIndex' = NextIndex
  BY <1>0, Landing, Beginning
<1>2. Clean' = Clean /\ Uncut' = Uncut
  BY <1>1 DEF Clean, Uncut, FileOf
<1>3. Land(r) => Done(r)'
  BY <1>0, Landing
<1>4. CASE pc[r] = "left" /\ Land(r) /\ pending[r].do \in {"create", "newline", "remove"}
  <2>1. segment' = segment /\ (temp' = temp \/ pending[r].index = NextIndex)
    BY <1>4 DEF Land, Created, LineWritten, Removed, FinalWritten, ManifestWritten, Doing
  <2>2. CASE segment # NoSegment \/ \E q \in Requests : pc[q] \in Using
    <3>1. temp' = temp \/ ~Clean
      BY <1>0, <1>4, <2>1, <2>2, StrayHarmless
    <3> QED BY <1>1, <1>3, <1>4, <2>1, <3>1, FillingFrame DEF Done, Doing
  <2>3. CASE segment = NoSegment /\ \A q \in Requests : pc[q] \notin Using
    BY <1>1, <2>1, <2>3, NothingFilling DEF Using
  <2> QED BY <2>2, <2>3
<1>5. CASE pc[r] = "remove"
  <2>1. segment = NoSegment
    BY <1>0, <1>5 DEF SegmentOK
  <2>2. segment' = segment
    BY <1>5 DEF Land, Begin, Created, LineWritten, Removed, FinalWritten, ManifestWritten
  <2>3. \A q \in Requests : pc[q] \notin {"open", "json", "record", "flush"}
    BY <1>0, <1>5, Alone DEF Working, Types
  <2> QED BY <1>1, <2>1, <2>2, <2>3, NothingFilling
<1>6. CASE pending[r].do \in {"final", "manifest"}
  <2>1. /\ temp' = temp /\ segment' = segment
        /\ ~Doing(r, "record") /\ ~Doing(r, "record")'
    BY <1>0, <1>3, <1>6, Beginning
    DEF Land, Begin, Created, LineWritten, Removed, FinalWritten, ManifestWritten, Done, Doing
  <2>2. pc[r] \notin {"open", "record", "flush"}
    BY <1>0, <1>1, <1>6 DEF OwnOp, AwaitsOp, Done, Doing
  <2> QED BY <1>1, <2>1, <2>2, FillingFrame
<1>7. CASE pc[r] = "open"
  <2>1. Doing(r, "create") /\ pending[r].index = NextIndex /\ segment = NoSegment
    BY <1>0, <1>1, <1>7 DEF OwnOp, AwaitsOp, Doing, FillingOK
  <2>2. Created(r) /\ Done(r)'
    BY <1>0, <2>1, Landing
    DEF Land, Begin, LineWritten, Removed, FinalWritten, ManifestWritten, Doing
  <2>3. /\ temp' = [made |-> IF temp.made = None THEN r ELSE temp.made, pieces |-> <<>>]
        /\ segment' = [index |-> NextIndex, made |-> temp'.made, at |-> 0, count |-> 0]
    BY <1>7, <2>1, <2>2 DEF Created
  <2>4. /\ segment'.index = NextIndex /\ segment'.made = temp'.made /\ segment'.at = 0
        /\ segment'.count = 0 /\ segment' # NoSegment
    BY <1>0, <2>3 DEF NoSegment
  <2>5. temp'.made \in Requests /\ Len(temp'.pieces) = 0
    BY <1>0, <2>3 DEF File
  <2>6. \A q \in Requests : ~Doing(q, "record") /\ ~Doing(q, "record")'
    BY <1>0, <1>1, <2>1, <2>2 DEF Pool, OwnOp, Doing, Done
  <2>7. \A q \in Requests : q # r => pc[q] \notin Working
    BY <1>0, <1>7, Alone DEF Working, Types
  <2>8. SegmentOK'
    BY <1>1, <1>7, <2>4, <2>5, <2>6, <2>7 DEF SegmentOK, NoNewline, Working
  <2>9. \A q \in Requests : FillingOK(q)' /\ TakenOK(q)'
    BY <1>1, <1>7, <2>2, <2>4, <2>7 DEF FillingOK, TakenOK, Working
  <2> QED BY <2>8, <2>9 DEF Filling
<1>8. CASE Doing(r, "record")
  <2>1. segment # NoSegment /\ segment.at >= 1 /\ segment.made \in Requests /\ segment.at \in Nat
    BY <1>0, <1>8 DEF OwnOp, SegmentOK, Handle
  <2>2. \A q \in Requests : Doing(q, "record") \/ pc[q] \in {"open", "record"} => q = r
    BY <1>0, <1>8 DEF OneRecord
  <2>3. \A q \in Requests : pc[q] \notin {"flush", "final", "remove", "manifest"}
    BY <1>0, <2>1 DEF SegmentOK
  <2>4. segment' = segment
    BY <1>8 DEF Land, Begin, Created, LineWritten, Removed, FinalWritten, ManifestWritten, Doing
  <2>5. PICK piece \in {r, Scrap} : WriteTo(segment, piece) /\ (Land(r) => piece = r)
    <3>1. CASE Land(r)
      BY <1>0, <1>8, <2>3, <3>1
      DEF Land, Created, LineWritten, Removed, FinalWritten, ManifestWritten, Doing
    <3>2. CASE Begin(r) /\ ~Land(r)
      BY <1>8, <3>2 DEF Begin, Doing
    <3> QED BY <3>1, <3>2
  <2>6. piece \in Pieces /\ piece # Newline
    <3>1. Scrap # Newline
      BY DEF Scrap, Newline
    <3> QED BY <3>1, ArchiveAssumption DEF Pieces
  <2>7. Clean => temp.made = segment.made /\ Len(temp.pieces) \in {segment.at - 1, segment.at}
                 /\ NoNewline(Len(temp.pieces))
    BY <1>0, <2>1 DEF SegmentOK
  <2>8. Clean => /\ temp'.made = segment.made /\ Len(temp'.pieces) = segment.at
                 /\ temp'.pieces[segment.at] = piece /\ NoNewline(Len(temp.pieces))'
    BY <1>0, <2>1, <2>5, <2>6, <2>7, Filled
  <2>9. \A q \in Requests : ~(Doing(q, "record")' /\ ~pending'[q].begun)
    <3>1. Done(r)' \/ pending'[r].begun
      BY <1>0, <1>3, Beginning
    <3> QED BY <1>1, <2>2, <3>1 DEF Done, Doing
  <2>10. SegmentOK'
    <3>1. segment' = segment
      BY <2>4
    <3> QED BY <1>0, <1>1, <1>2, <2>1, <2>8, <2>9, <3>1 DEF SegmentOK
  <2>11. ASSUME NEW q \in Requests PROVE FillingOK(q)' /\ TakenOK(q)'
    <3>1. FillingOK(q) /\ (q # r => pc[q] \notin {"open", "record"}) /\ pc[q] # "flush"
      BY <1>0, <2>2, <2>3 DEF Filling
    <3>2. pc[r] # "open"
      BY <1>0, <1>1, <1>8 DEF OwnOp, AwaitsOp, Doing
    <3>3. ASSUME q = r, pc[r] = "record", Done(r)', Clean, Uncut PROVE temp'.pieces[1] = r
      <4>1. segment.at = 1
        BY <1>0, <2>1, <3>3 DEF SegmentOK
      <4>2. Land(r)
        <5>1. Begin(r) => ~Done(r)'
          BY <1>0, <1>8, Beginning DEF Done, Doing
        <5> QED BY <3>3, <5>1
      <4> QED BY <2>5, <2>8, <3>3, <4>1, <4>2
    <3> QED BY <1>1, <1>2, <2>1, <2>4, <3>1, <3>2, <3>3 DEF FillingOK, TakenOK
  <2> QED BY <2>10, <2>11 DEF Filling
<1>9. CASE pc[r] = "flush"
  <2>1. Doing(r, "newline") /\ segment = NoSegment
    BY <1>0, <1>1, <1>9 DEF OwnOp, AwaitsOp, Doing, SegmentOK
  <2>2. /\ WriteTo(local[r], Newline) /\ segment' = segment /\ Done(r)'
    BY <1>0, <1>9, <2>1, Landing
    DEF Land, Begin, Created, LineWritten, Removed, FinalWritten, ManifestWritten, Doing
  <2>3. local[r] \in Handle /\ local[r].at \in Nat /\ Newline \in Pieces
    BY <1>0, <1>9 DEF Types, Handle, Pieces
  <2>4. Clean => /\ temp.made = local[r].made /\ local[r].at >= 1 /\ NoNewline(local[r].at - 1)
                 /\ Len(temp.pieces) = local[r].at - 1
                 /\ Uncut => local[r].at = 2 /\ temp.pieces[1] = r
    BY <1>0, <1>1, <1>9 DEF TakenOK
  <2>5. ASSUME Clean
        PROVE  /\ temp'.made = temp.made /\ Len(temp'.pieces) = local[r].at
               /\ temp'.pieces[local[r].at] = Newline
               /\ \A k \in 1 .. Len(temp.pieces) :
                    k # local[r].at => temp'.pieces[k] = temp.pieces[k]
               /\ NoNewline(local[r].at - 1)'
    <3>1. Len(temp.pieces) \in {local[r].at - 1, local[r].at} /\ NoNewline(local[r].at - 1)
      BY <2>4, <2>5
    <3>2. local'[r] = local[r]
      BY <1>1
    <3> QED BY <1>0, <2>2, <2>3, <2>4, <2>5, <3>1, <3>2, Filled DEF NoNewline
  <2>6. Clean /\ Uncut => temp'.pieces[1] = r
    BY <2>4, <2>5
  <2>7. TakenOK(r)'
    BY <1>0, <1>1, <1>2, <1>9, <2>2, <2>4, <2>5, <2>6 DEF TakenOK
  <2>8. \A q \in Requests : q # r => pc[q] \notin Working
    BY <1>0, <1>9, Alone DEF Working, Types
  <2>9. \A q \in Requests : FillingOK(q)' /\ (q # r => TakenOK(q)')
    BY <1>1, <1>9, <2>8 DEF FillingOK, TakenOK, Working
  <2> QED BY <2>1, <2>2, <2>7, <2>9 DEF Filling, SegmentOK
<1>10. \/ pc[r] = "left" /\ Land(r) /\ pending[r].do \in {"create", "newline", "remove"}
       \/ pc[r] \in {"open", "remove", "flush"} \/ pending[r].do \in {"final", "manifest"}
       \/ Doing(r, "record")
  <2>1. pending[r].do \in {"create", "newline", "remove", "final", "manifest", "record"}
    BY <1>0, <1>1 DEF Types, Operation, Done, Doing
  <2>2. Begin(r) => pending[r].do \in {"record", "final", "manifest"}
    BY <1>0, Beginning
  <2> QED BY <1>0, <1>1, <2>1, <2>2 DEF OwnOp, AwaitsOp, Doing
<1> QED BY <1>4, <1>5, <1>6, <1>7, <1>8, <1>9, <1>10

\* A record that failed, begun or not, leaves the handle at the end of the file and
\* the file cut.
LEMMA FillingFailure ==
  ASSUME IInv, NEW q \in Requests, Doing(q, "record"), OperationFails(q),
         UNCHANGED <<archive, manifest, temp>>,
         \A p \in Requests : pc'[p] \in Working => pc'[p] = pc[p]
  PROVE  SegmentOK'
<1>0. /\ Types /\ OneRecord /\ OwnOp(q) /\ SegmentOK /\ segment # NoSegment /\ segment.at >= 1
      /\ segment.at \in Nat /\ NextIndex' = NextIndex /\ segment \in Handle
      /\ spoilt \subseteq spoilt' /\ segment.index = NextIndex
  BY DEF IInv, Types, Pool, Filling, OwnOp, Handle, OperationFails, NextIndex, SegmentOK
<1>1. /\ pending'[q] = Idle /\ \A p \in Requests : p # q => pending'[p] = pending[p]
      /\ segment' \in Handle
  BY <1>0, FailureTypes
<1>2. ~Uncut' /\ (Clean' => Clean)
  BY <1>0 DEF OperationFails, Uncut, Clean, FileOf
<1>3. \A p \in Requests : ~Doing(p, "record")'
  BY <1>0, <1>1 DEF OneRecord, Doing, Idle
<1>4. /\ segment'.index = segment.index /\ segment'.made = segment.made
      /\ segment'.count = segment.count
      /\ segment'.at = IF pending[q].begun THEN segment.at ELSE segment.at - 1
  <2>1. CASE pending[q].begun
    BY <2>1 DEF OperationFails
  <2>2. CASE ~pending[q].begun
    <3>1. segment.at - 1 \in Nat /\ segment' = [segment EXCEPT !.at = segment.at - 1]
      BY <1>0, <2>2 DEF OperationFails
    <3> DEFINE at == segment.at - 1
    <3>2. at \in Nat /\ segment' = [segment EXCEPT !.at = at] /\ segment \in Handle
      BY <1>0, <3>1
    <3> HIDE DEF at
    <3>3. /\ segment'.index = segment.index /\ segment'.made = segment.made
          /\ segment'.count = segment.count /\ segment'.at = at
      BY <3>2, Moved
    <3> QED BY <2>2, <3>3 DEF at
  <2> QED BY <2>1, <2>2
<1>5. (\E p \in Requests : Doing(p, "record") /\ ~pending[p].begun) <=> ~pending[q].begun
  BY <1>0 DEF OneRecord
<1>6. Clean => Len(temp.pieces) = segment'.at
  BY <1>0, <1>4, <1>5 DEF SegmentOK
<1>7. \A p \in Requests : pc'[p] \notin {"flush", "final", "remove", "manifest"}
  BY <1>0 DEF SegmentOK, Working
<1> QED BY <1>0, <1>2, <1>3, <1>4, <1>6, <1>7 DEF SegmentOK, NoNewline

LEMMA FillingFaults ==
  ASSUME IInv, NEW r \in Requests, Fails(r) \/ Leaves(r) \/ FailsUnheard(r) \/ Crash
  PROVE  Filling'
<1>0. /\ Types /\ OneRecord /\ OwnOp(r) /\ Filling /\ SegmentOK /\ FillingOK(r)
      /\ pc \in [Requests -> Working \cup {"new", "archived", "failed", "left"}]
  BY DEF IInv, Types, TypeOK, Pool, Filling
<1>1. CASE Crash
  <2>1. \A q \in Requests : pc'[q] \notin Working
    BY <1>0, <1>1 DEF Crash, Working
  <2> QED BY <1>1, <2>1, NothingFilling DEF Crash, Working
<1>2. ASSUME pc[r] \in Working, pc' = [pc EXCEPT ![r] = pc'[r]], pc'[r] \in {"failed", "left"},
             SegmentOK'
      PROVE  Filling'
  <2>1. \A q \in Requests : pc'[q] \notin Working
    BY <1>0, <1>2, Alone DEF Types, Working
  <2> QED BY <1>2, <2>1 DEF Filling, FillingOK, TakenOK, Working
<1>3. CASE Leaves(r)
  <2>1. /\ pc[r] \in Working /\ pc' = [pc EXCEPT ![r] = "left"]
        /\ UNCHANGED <<archive, manifest, pending, spoilt, temp>> /\ NextIndex' = NextIndex
        /\ segment' = IF pc[r] = "open" THEN NoSegment ELSE segment
        /\ cut' = IF pc[r] = "record" THEN cut \cup {FileOf(segment.index)} ELSE cut
    BY <1>3 DEF Leaves, disk, NextIndex
  <2>2. pc'[r] = "left" /\ \A q \in Requests : q # r => pc'[q] = pc[q] /\ pc[q] \notin Working
    BY <1>0, <2>1, Alone DEF Types
  <2>3. CASE pc[r] = "open"
    BY <1>2, <2>1, <2>2, <2>3 DEF SegmentOK
  <2>4. CASE pc[r] # "open"
    <3>1. segment # NoSegment => ~Uncut'
      BY <1>0, <2>1, <2>2, <2>4 DEF SegmentOK, Uncut, FileOf, Working
    <3>2. SegmentOK'
      BY <1>0, <2>1, <2>2, <2>4, <3>1 DEF SegmentOK, Clean, FileOf, NoNewline, Doing, Working
    <3> QED BY <1>2, <2>1, <2>2, <3>2
  <2> QED BY <2>3, <2>4
<1>4. CASE Fails(r)
  <2>1. /\ pc[r] \in Working /\ pc' = [pc EXCEPT ![r] = "failed"]
        /\ UNCHANGED <<archive, manifest, temp>>
    BY <1>4 DEF Fails, disk
  <2>2. pc'[r] = "failed" /\ \A q \in Requests : q # r => pc'[q] = pc[q]
    BY <1>0, <2>1
  <2>3. SegmentOK'
    <3>1. ASSUME NEW q \in Requests, Doing(q, "record"), OperationFails(q) PROVE SegmentOK'
      BY <2>1, <2>2, <3>1, FillingFailure DEF Working
    <3>2. CASE OperationFails(r) /\ ~Doing(r, "record")
      <4>1. segment' = segment /\ ~Done(r)
        BY <3>2 DEF OperationFails
      <4>2. pc[r] \in {"open", "flush", "final", "remove", "manifest"}
        BY <1>0, <2>1, <3>2, <4>1 DEF OwnOp, AwaitsOp, Working
      <4>3. segment = NoSegment
        BY <1>0, <4>1, <4>2 DEF FillingOK, SegmentOK
      <4> QED BY <4>1, <4>3 DEF SegmentOK
    <3>3. CASE pc[r] \in {"flush", "manifest"} /\ UNCHANGED segment
      BY <1>0, <3>3 DEF SegmentOK
    <3> QED BY <1>4, <3>1, <3>2, <3>3 DEF Fails
  <2> QED BY <1>2, <2>1, <2>2, <2>3
<1>5. CASE FailsUnheard(r)
  <2>1. /\ pc[r] = "left" /\ ~Doing(r, "record") /\ OperationFails(r)
        /\ UNCHANGED <<pc, local, archive, manifest, temp, segment, cut>>
        /\ spoilt \subseteq spoilt'
    BY <1>5 DEF FailsUnheard, OperationFails, disk
  <2>2. pending'[r] = Idle /\ \A q \in Requests : q # r => pending'[q] = pending[q]
    BY <1>0, <2>1, FailureTypes
  <2>3. ~Doing(r, "record")'
    BY <2>2 DEF Doing, Idle
  <2> QED BY <2>1, <2>2, <2>3, FillingFrame
<1> QED BY <1>1, <1>3, <1>4, <1>5

-----------------------------------------------------------------------------
(* The sealed files and their list.                                         *)

\* The files of the manifest and their list, when the list is not touched.
LEMMA ListsKept ==
  ASSUME Sealing, UNCHANGED <<archive, manifest, listed>>,
         \A k \in DOMAIN manifest : FileOf(k) \notin spoilt' =>
           FileOf(k) \notin spoilt
           /\ (Matches(archive, manifest[k]) => Matches(archive, manifest[k])'),
         FileOf(0) \notin spoilt' =>
           /\ FileOf(0) \notin spoilt
           /\ \A q \in Requests : /\ Doing(q, "manifest")' <=> Doing(q, "manifest")
                                  /\ Doing(q, "manifest") => pending'[q].value = pending[q].value
  PROVE  SealedThere' /\ OneList' /\ ListIsCurrent'
<1>1. SealedThere'
  BY DEF Sealing, SealedThere, FileOf
<1>2. FileOf(0)' = FileOf(0)
  BY DEF FileOf
<1>3. OneList'
  BY <1>2 DEF Sealing, OneList
<1>4. ListIsCurrent'
  BY <1>2 DEF Sealing, ListIsCurrent
<1> QED BY <1>1, <1>3, <1>4

\* The file of a request that has its line on it is sound once it is read.
LEMMA SealIsSound ==
  ASSUME IInv, NEW r \in Requests, ReadAndSeal(r)
  PROVE  local'[r].index = NextIndex /\ Sound(FileOf(NextIndex), local'[r], r)
<1> DEFINE entry == [index |-> local[r].index, count |-> local[r].count, content |-> temp.pieces]
<1>1. /\ local[r] \in Handle /\ temp.pieces \in Seq(Pieces) /\ pc[r] = "flush" /\ Done(r)
      /\ local'[r] = entry /\ TakenOK(r)
  BY DEF IInv, Types, Filling, File, ReadAndSeal, Goto
<1>2. /\ entry \in Entry /\ entry.index = NextIndex /\ entry.count = 1
      /\ entry.content = temp.pieces /\ local[r].at \in Nat /\ Len(temp.pieces) \in Nat
      /\ DOMAIN temp.pieces = 1 .. Len(temp.pieces)
  BY <1>1 DEF TakenOK, Handle, Entry
<1> HIDE DEF entry
<1>3. ASSUME Clean
      PROVE  /\ local[r].at >= 1 /\ NoNewline(local[r].at - 1)
             /\ Len(temp.pieces) = local[r].at /\ temp.pieces[local[r].at] = Newline
             /\ Uncut => local[r].at = 2 /\ temp.pieces[1] = r
  BY <1>1, <1>3 DEF TakenOK
<1>4. Clean => CountIsLines(entry)
  <2> SUFFICES ASSUME Clean PROVE CountIsLines(entry)
    OBVIOUS
  <2>1. /\ entry.content # <<>> /\ entry.content[Len(entry.content)] = Newline
        /\ \A k \in 1 .. Len(entry.content) - 1 : entry.content[k] # Newline
    BY <1>2, <1>3 DEF NoNewline
  <2> QED BY <1>2, <2>1, OneLine
<1>5. Clean /\ Uncut => Readable(entry.content, r)
  <2> SUFFICES ASSUME Clean, Uncut PROVE Readable(entry.content, r)
    OBVIOUS
  <2>1. /\ 1 \in DOMAIN entry.content /\ entry.content[1] = r
        /\ 1 + 1 \in DOMAIN entry.content /\ entry.content[1 + 1] = Newline
    BY <1>2, <1>3
  <2> QED BY <2>1 DEF Readable
<1> QED BY <1>1, <1>2, <1>4, <1>5 DEF Sound, Clean, Uncut

LEMMA SealingCode ==
  ASSUME IInv, NEW r \in Requests, Step(r)
  PROVE  Sealing'
<1>0. /\ Types /\ Sealing /\ SealedOK(r) /\ (\A q \in Requests : OwnOp(q))
      /\ archive' = archive /\ manifest \in Seq(Entry) /\ Len(manifest) \in Nat
      /\ DOMAIN manifest = 1 .. Len(manifest) /\ NextIndex = Len(manifest) + 1
      /\ pending \in [Requests -> Operation]
      /\ pc \in [Requests -> Working \cup {"new", "archived", "failed", "left"}]
      /\ local \in [Requests -> Handle \cup Entry \cup {None}]
  BY DEF IInv, Types, TypeOK, Pool, Sealing, NextIndex, Step, Enter, WriteRecord, WriteNewline,
         ReadAndSeal, NothingToRead, RemoveTemp, WriteManifest, Index, NoFault
<1>1. pc[r] \in Working \/ lock = None
  BY DEF Step, Enter, WriteRecord, WriteNewline, ReadAndSeal, NothingToRead, RemoveTemp,
         WriteManifest, Index, Goto, Working
<1>2. \A q \in Requests : q # r => pc[q] \notin Working
  BY <1>0, <1>1, Alone DEF Types
<1>3. /\ pc' = [pc EXCEPT ![r] = pc'[r]] /\ \A q \in Requests : q # r => pc'[q] = pc[q]
      /\ UNCHANGED <<final, listed>>
  BY <1>0 DEF Step, Enter, WriteRecord, WriteNewline, ReadAndSeal, NothingToRead, RemoveTemp,
              WriteManifest, Index, Goto, disk
<1>4. \A q \in Requests : q # r => SealedOK(q)'
  BY <1>2, <1>3 DEF SealedOK, Working
<1>5. \A q \in Requests : q # r => pending'[q] = pending[q]
  BY <1>0 DEF Step, Enter, WriteRecord, WriteNewline, ReadAndSeal, NothingToRead, RemoveTemp,
              WriteManifest, Index, Submit
<1>6. UNCHANGED final => \A k \in DOMAIN manifest :
        Matches(archive, manifest[k]) => Matches(archive, manifest[k])'
  BY <1>0 DEF Matches, Step, Enter, WriteRecord, WriteNewline, ReadAndSeal, NothingToRead,
              RemoveTemp, WriteManifest, Index
<1>7. CASE WriteManifest(r)
  <2>1. /\ pc[r] = "remove" /\ pc'[r] = "manifest" /\ local' = local /\ cut' = cut
        /\ manifest' = Append(manifest, local[r]) /\ Submit(r, "manifest", 0, manifest') /\ Mark(0)
    BY <1>0, <1>7 DEF WriteManifest, Goto
  <2>2. local[r] \in Entry
    BY <1>0, <2>1 DEF Types
  <2>3. /\ manifest' \in Seq(Entry) /\ manifest' # <<>> /\ Len(manifest') = NextIndex
        /\ DOMAIN manifest' = DOMAIN manifest \cup {NextIndex}
        /\ \A k \in DOMAIN manifest : manifest'[k] = manifest[k]
        /\ manifest'[NextIndex] = local[r]
    BY <1>0, <2>1, <2>2, Appended
  <2>4. \A k \in 1 .. NextIndex : FileOf(k)' = FileOf(k)
                                  /\ (FileOf(k) \in spoilt => FileOf(k) \in spoilt')
    BY <1>0, <2>1 DEF Mark, FileOf
  <2>5. /\ local[r].index = NextIndex /\ Sound(FileOf(NextIndex), local[r], r)
        /\ FileOf(NextIndex) \notin spoilt => Matches(archive, local[r])
    BY <1>0, <2>1 DEF SealedOK, Clean
  <2>6. SealedOK(r)'
    <3>1. NextIndex \in 1 .. NextIndex
      BY <1>0
    <3>2. FileOf(Len(manifest))' = FileOf(NextIndex)
      BY <1>0, <2>3 DEF FileOf
    <3>3. FileOf(NextIndex) \notin spoilt' => FileOf(NextIndex) \notin spoilt
      BY <2>4, <3>1
    <3>4. FileOf(NextIndex) \notin spoilt' =>
            /\ CountIsLines(local[r])
            /\ FileOf(NextIndex) \notin cut => Readable(local[r].content, r)
      BY <2>5, <3>3 DEF Sound
    <3>5. FileOf(Len(manifest))' \notin spoilt' =>
            /\ CountIsLines(local'[r])
            /\ FileOf(Len(manifest))' \notin cut' => Readable(local'[r].content, r)
      BY <2>1, <3>2, <3>4
    <3>6. manifest'[Len(manifest')] = local'[r]
      BY <2>1, <2>3
    <3> QED BY <2>1, <2>3, <3>5, <3>6 DEF SealedOK, Sound, CountIsLines, Readable
  <2>7. SealedThere'
    <3> SUFFICES ASSUME NEW k \in DOMAIN manifest'
                 PROVE  /\ manifest'[k].index = k
                        /\ FileOf(k)' \notin spoilt' => Matches(archive, manifest[k])'
      BY DEF SealedThere
    <3>1. CASE k = NextIndex
      <4>1. NextIndex \in 1 .. NextIndex /\ FileOf(k)' = FileOf(NextIndex)
        BY <1>0, <3>1 DEF FileOf
      <4>2. FileOf(NextIndex) \notin spoilt' => Matches(archive, local[r])
        BY <2>4, <2>5, <4>1
      <4>3. Matches(archive, local[r]) => Matches(archive, manifest[k])'
        BY <1>0, <1>3, <2>3, <3>1 DEF Matches
      <4> QED BY <2>3, <2>5, <3>1, <4>1, <4>2, <4>3
    <3>2. CASE k \in DOMAIN manifest
      <4>1. manifest[k].index = k /\ (FileOf(k) \notin spoilt => Matches(archive, manifest[k]))
        BY <1>0, <3>2 DEF Sealing, SealedThere
      <4>2. k \in 1 .. NextIndex
        BY <1>0, <3>2
      <4> QED BY <1>0, <1>3, <2>3, <2>4, <3>2, <4>1, <4>2 DEF Matches
    <3> QED BY <2>3, <3>1, <3>2
  <2>8. pending'[r] = [do |-> "manifest", index |-> 0, value |-> manifest', begun |-> FALSE]
    BY <1>0, <2>1, <2>3, Submitted
  <2>9. OneList'
    <3> SUFFICES ASSUME FileOf(0)' \notin spoilt'
                 PROVE  \A p, q \in Requests : Doing(p, "manifest")' =>
                          pending'[p].value = manifest' /\ (Doing(q, "manifest")' => p = q)
      BY DEF OneList
    <3>1. ~UnderWay(0)
      BY <1>0, <2>1 DEF Mark, FileOf
    <3>2. \A q \in Requests : ~Doing(q, "manifest")
      BY <1>0, <3>1 DEF UnderWay, OwnOp, Done, Doing
    <3> QED BY <1>5, <2>8, <3>2 DEF Doing
  <2>10. ListIsCurrent'
    BY <2>3, <2>8 DEF ListIsCurrent, Doing
  <2> QED BY <1>4, <2>6, <2>7, <2>9, <2>10 DEF Sealing
<1>8. CASE ~WriteManifest(r)
  <2>1. manifest' = manifest /\ NextIndex' = NextIndex
    BY <1>8 DEF Step, Enter, WriteRecord, WriteNewline, ReadAndSeal, NothingToRead, RemoveTemp,
                Index, NextIndex
  <2>2. \A k \in 0 .. Len(manifest) : FileOf(k) \in spoilt => FileOf(k) \in spoilt'
    BY <1>0, <1>8 DEF Step, Enter, WriteRecord, WriteNewline, ReadAndSeal, NothingToRead,
                      RemoveTemp, Index, Mark, FileOf
  <2>3. ~Doing(r, "manifest") /\ ~Doing(r, "manifest")'
    <3>1. ~Doing(r, "manifest")
      <4>1. pc[r] # "left" /\ (pc[r] = "manifest" => Done(r))
        BY <1>8 DEF Step, Enter, WriteRecord, WriteNewline, ReadAndSeal, NothingToRead, RemoveTemp,
                    Index, Goto
      <4>2. Doing(r, "manifest") => ~Done(r)
        BY DEF Doing, Done
      <4> QED BY <1>0, <4>1, <4>2 DEF OwnOp, AwaitsOp, Doing
    <3>2. pending' = pending \/ \E do \in {"create", "record", "newline", "final", "remove"} : \E i, v :
            Submit(r, do, i, v)
      BY <1>8 DEF Step, Enter, WriteRecord, WriteNewline, ReadAndSeal, NothingToRead, RemoveTemp,
                  Index
    <3>3. ASSUME NEW do \in {"create", "record", "newline", "final", "remove"}, NEW i, NEW v,
                 Submit(r, do, i, v)
          PROVE  pending'[r].do = do
      BY <1>0, <3>3 DEF Submit
    <3> QED BY <3>1, <3>2, <3>3 DEF Doing
  <2>4. SealedThere' /\ OneList' /\ ListIsCurrent'
    <3>1. \A q \in Requests : /\ Doing(q, "manifest")' <=> Doing(q, "manifest")
                              /\ Doing(q, "manifest") => pending'[q].value = pending[q].value
      BY <1>5, <2>3 DEF Doing
    <3>2. \A k \in DOMAIN manifest : k \in 0 .. Len(manifest)
      BY <1>0
    <3>3. 0 \in 0 .. Len(manifest)
      BY <1>0
    <3> QED BY <1>0, <1>3, <1>6, <2>1, <2>2, <3>1, <3>2, <3>3, ListsKept
  <2>5. CASE ReadAndSeal(r)
    <3>1. local'[r].index = NextIndex /\ Sound(FileOf(NextIndex), local'[r], r)
      BY <2>5, SealIsSound
    <3>2. pc'[r] = "final" /\ UNCHANGED <<spoilt, cut>> /\ ~Done(r)'
      BY <1>0, <2>5 DEF ReadAndSeal, Goto, Submit, Done, Doing
    <3>3. SealedOK(r)'
      BY <1>0, <2>1, <3>1, <3>2 DEF SealedOK, Sound, FileOf
    <3> QED BY <1>4, <2>4, <3>3 DEF Sealing
  <2>6. CASE RemoveTemp(r)
    <3>1. /\ pc[r] = "final" /\ Done(r) /\ pc'[r] = "remove" /\ UNCHANGED <<spoilt, cut, local>>
      BY <1>0, <2>6 DEF RemoveTemp, Goto
    <3>2. SealedOK(r)'
      BY <1>0, <1>3, <2>1, <3>1 DEF SealedOK, Sound, FileOf, Clean, Matches
    <3> QED BY <1>4, <2>4, <3>2 DEF Sealing
  <2>7. CASE ~ReadAndSeal(r) /\ ~RemoveTemp(r)
    <3>1. pc'[r] \notin {"final", "remove", "manifest"}
      BY <1>0, <1>8, <2>7 DEF Step, Enter, WriteRecord, WriteNewline, NothingToRead, Index, Goto
    <3> QED BY <1>4, <2>4, <3>1 DEF Sealing, SealedOK
  <2> QED BY <2>5, <2>6, <2>7
<1> QED BY <1>7, <1>8

LEMMA SealingPool ==
  ASSUME IInv, NEW r \in Requests, Land(r) \/ Begin(r)
  PROVE  Sealing'
<1>0. /\ Types /\ Pool /\ Sealing /\ OneList /\ ListIsCurrent /\ OwnOp(r)
      /\ Len(manifest) \in Nat /\ DOMAIN manifest = 1 .. Len(manifest)
      /\ NextIndex = Len(manifest) + 1
  BY DEF IInv, Types, Pool, Sealing, NextIndex
<1>1. /\ ~Done(r) /\ \A q \in Requests : q # r => pending'[q] = pending[q]
      /\ UNCHANGED <<pc, local, archive, manifest, cut, spoilt>> /\ NextIndex' = NextIndex
  BY <1>0, Landing, Beginning
<1>2. \A k : FileOf(k)' = FileOf(k)
  BY <1>1 DEF FileOf
<1>3. \/ Land(r) /\ Done(r)' /\ pending'[r] = Idle
      \/ /\ Begin(r) /\ ~Done(r)' /\ pending'[r].do = pending[r].do
         /\ pending'[r].value = pending[r].value /\ Doing(r, "manifest")' = Doing(r, "manifest")
  BY <1>0, Landing, Beginning DEF Done, Doing
<1>4. /\ final' = final \/ /\ Doing(r, "final")
                           /\ \E value : final' = With(final, FileOf(pending[r].index), value)
      /\ listed' = listed \/ Doing(r, "manifest")
  BY DEF Land, Begin, Created, LineWritten, Removed, FinalWritten, ManifestWritten, Doing
\* The file of a stray write is marked.
<1>5. ASSUME NEW k \in 1 .. NextIndex, FileOf(k) \notin spoilt, FileBegun(k),
             final' # final, pending[r].index = k
      PROVE  pc[r] = "final" /\ k = NextIndex
  <2>1. Doing(r, "final") /\ pc[r] # "left"
    BY <1>0, <1>4, <1>5 DEF Pool, StraysMarked, Doing
  <2> QED BY <1>0, <1>1, <1>5, <2>1 DEF OwnOp, AwaitsOp, Doing
<1>6. ASSUME NEW entry, NEW k \in 1 .. NextIndex, entry.index = k, FileOf(k) \notin spoilt,
             FileBegun(k), Matches(archive, entry), pc[r] # "final" \/ k # NextIndex
      PROVE  Matches(archive, entry)'
  <2>1. CASE final' = final
    BY <1>1, <1>6, <2>1 DEF Matches
  <2>2. CASE final' # final
    <3>1. pending[r].index # k
      BY <1>5, <1>6, <2>2
    <3>2. PICK value : final' = With(final, FileOf(pending[r].index), value)
      BY <1>4, <2>2
    <3>3. FileOf(pending[r].index) # <<archive, entry.index>>
      BY <1>6, <3>1 DEF FileOf
    <3>4. archive' = archive
      BY <1>1
    <3> DEFINE y == <<archive, entry.index>>
               file == FileOf(pending[r].index)
    <3>5. y \in DOMAIN final /\ final[y] = entry.content /\ y # file
      BY <1>6, <3>3 DEF Matches
    <3> HIDE DEF y, file
    <3>6. y \in DOMAIN final' /\ final'[y] = entry.content
      BY <3>2, <3>5 DEF With, file
    <3> QED BY <3>4, <3>6 DEF Matches, y
  <2> QED BY <2>1, <2>2
<1>7. SealedThere'
  <2> SUFFICES ASSUME NEW k \in DOMAIN manifest
               PROVE  /\ manifest[k].index = k
                      /\ FileOf(k) \notin spoilt => Matches(archive, manifest[k])'
    BY <1>1, <1>2 DEF SealedThere
  <2>1. manifest[k].index = k /\ (FileOf(k) \notin spoilt => Matches(archive, manifest[k]))
    BY <1>0 DEF Sealing, SealedThere
  <2>2. k \in 1 .. NextIndex /\ k # NextIndex /\ FileBegun(k)
    BY <1>0 DEF FileBegun
  <2>3. FileOf(k) \notin spoilt => Matches(archive, manifest[k])'
    <3> DEFINE entry == manifest[k]
    <3>1. entry.index = k /\ (FileOf(k) \notin spoilt => Matches(archive, entry))
      BY <2>1
    <3>2. entry' = entry
      BY <1>1
    <3> HIDE DEF entry
    <3>3. FileOf(k) \notin spoilt =>
            /\ <<archive', entry.index>> \in DOMAIN final'
            /\ final'[<<archive', entry.index>>] = entry.content
      BY <1>6, <2>2, <3>1 DEF Matches
    <3> QED BY <3>2, <3>3 DEF Matches, entry
  <2> QED BY <2>1, <2>3
<1>8. ASSUME NEW q \in Requests PROVE SealedOK(q)'
  <2>1. SealedOK(q)
    BY <1>0 DEF Sealing
  <2>2. CASE pc[q] = "manifest"
    BY <1>1, <1>2, <2>1, <2>2 DEF SealedOK, Sound
  <2>3. CASE pc[q] \in {"final", "remove"}
    <3>1. /\ local[q].index = NextIndex /\ Sound(FileOf(NextIndex), local[q], q)
          /\ Clean /\ (Done(q) \/ pc[q] = "remove") => Matches(archive, local[q])
      BY <2>1, <2>3 DEF SealedOK
    <3>2. NextIndex \in 1 .. NextIndex /\ FileBegun(NextIndex)
      BY <1>0, <2>3 DEF FileBegun, Using
    <3>3. ASSUME Clean, Done(q)' \/ pc[q] = "remove"
          PROVE  <<archive', local[q].index>> \in DOMAIN final'
                 /\ final'[<<archive', local[q].index>>] = local[q].content
      <4>1. CASE pc[r] # "final" \/ q # r
        <5>1. pc[r] # "final"
          BY <1>0, <2>3, <4>1, Alone DEF Types, Working
        <5>2. Done(q) \/ pc[q] = "remove"
          BY <1>1, <2>3, <3>3, <4>1, <5>1 DEF Done, Doing
        <5>3. Matches(archive, local[q]) /\ FileOf(NextIndex) \notin spoilt
          BY <3>1, <3>3, <5>2 DEF Clean
        <5> DEFINE entry == local[q]
        <5>4. entry.index = NextIndex /\ Matches(archive, entry)
          BY <3>1, <5>3
        <5> HIDE DEF entry
        <5>5. /\ <<archive', entry.index>> \in DOMAIN final'
              /\ final'[<<archive', entry.index>>] = entry.content
          BY <1>6, <3>2, <5>1, <5>3, <5>4 DEF Matches
        <5> QED BY <5>5 DEF entry
      <4>2. CASE pc[r] = "final" /\ q = r
        <5>1. Done(r)' /\ Land(r)
          BY <1>3, <3>3, <4>2
        <5>2. Doing(r, "final") /\ pending[r].index = NextIndex
              /\ pending[r].value = local[r].content
          BY <1>0, <1>1, <4>2 DEF OwnOp, AwaitsOp, Doing
        <5>3. final' = With(final, FileOf(NextIndex), local[r].content)
          BY <5>1, <5>2
          DEF Land, Created, LineWritten, Removed, FinalWritten, ManifestWritten, Doing
        <5>4. FileOf(NextIndex) = <<archive', local[q].index>>
          BY <1>1, <3>1 DEF FileOf
        <5> DEFINE file == FileOf(NextIndex)
        <5> HIDE DEF file
        <5>5. file \in DOMAIN final' /\ final'[file] = local[r].content
          BY <5>3 DEF With, file
        <5> QED BY <4>2, <5>4, <5>5 DEF file
      <4> QED BY <4>1, <4>2
    <3>4. Clean' /\ (Done(q)' \/ pc'[q] = "remove") => Matches(archive, local[q])'
      BY <1>1, <1>2, <3>3 DEF Clean, Matches
    <3>5. FileOf(NextIndex)' = FileOf(NextIndex)
      BY <1>1 DEF FileOf
    <3> QED BY <1>1, <2>3, <3>1, <3>4, <3>5 DEF SealedOK, Sound
  <2>4. CASE pc[q] \notin {"final", "remove", "manifest"}
    BY <1>1, <2>4 DEF SealedOK
  <2> QED BY <2>2, <2>3, <2>4
<1>9. \A q \in Requests : Doing(q, "manifest")' =>
        Doing(q, "manifest") /\ pending'[q].value = pending[q].value
  BY <1>1, <1>3 DEF Done, Doing
<1>10. OneList'
  BY <1>0, <1>1, <1>2, <1>9 DEF OneList
<1>11. ListIsCurrent'
  <2>1. CASE ~Doing(r, "manifest")
    <3>1. \A q \in Requests : Doing(q, "manifest")' <=> Doing(q, "manifest")
      BY <1>1, <1>9, <2>1 DEF Doing
    <3>2. listed' = listed
      BY <1>4, <2>1
    <3> QED BY <1>0, <1>1, <1>2, <3>1, <3>2 DEF ListIsCurrent
  <2>2. CASE Doing(r, "manifest")
    <3>1. manifest # <<>>
      BY <1>0, <2>2 DEF OwnOp
    <3>2. Begin(r) => Doing(r, "manifest")'
      BY <1>3, <2>2, <1>0, Beginning DEF Doing
    <3>3. CASE Begin(r)
      BY <1>1, <3>1, <3>2, <3>3 DEF ListIsCurrent
    <3>4. CASE Land(r)
      <4>1. listed' = With(listed, archive, [whole |-> TRUE, files |-> pending[r].value])
        BY <2>2, <3>4 DEF Land, Created, LineWritten, Removed, FinalWritten, ManifestWritten, Doing
      <4>2. FileOf(0) \notin spoilt => pending[r].value = manifest
        BY <1>0, <2>2 DEF OneList
      <4>3. /\ archive \in DOMAIN listed'
            /\ listed'[archive] = [whole |-> TRUE, files |-> pending[r].value]
        BY <4>1 DEF With
      <4> QED BY <1>1, <1>2, <3>1, <4>2, <4>3 DEF ListIsCurrent
    <3> QED BY <3>3, <3>4
  <2> QED BY <2>1, <2>2
<1> QED BY <1>7, <1>8, <1>10, <1>11 DEF Sealing

LEMMA SealingFaults ==
  ASSUME IInv, NEW r \in Requests, Fails(r) \/ Leaves(r) \/ FailsUnheard(r) \/ Crash
  PROVE  Sealing'
<1>0. /\ Types /\ Sealing /\ \A q \in Requests : OwnOp(q)
      /\ pc \in [Requests -> Working \cup {"new", "archived", "failed", "left"}]
  BY DEF IInv, Types, TypeOK, Pool
<1>1. CASE Crash
  <2>1. \A q \in Requests : pc'[q] \notin Working /\ ~Doing(q, "manifest")'
    BY <1>0, <1>1 DEF Crash, Working, Doing, Idle
  <2>2. /\ manifest' = <<>> /\ archive' = archive + 1 /\ listed' = listed /\ archive \in Nat
    BY <1>0, <1>1, ArchiveAssumption DEF Crash, Types, TypeOK, Archives
  <2>3. archive' \notin DOMAIN listed'
    <3>1. \A a \in DOMAIN listed : a \in 1 .. archive
      BY DEF IInv, Past, ListedBefore
    <3> QED BY <2>2, <3>1
  <2> QED BY <2>1, <2>2, <2>3 DEF Sealing, SealedOK, SealedThere, OneList, ListIsCurrent, Working
<1>2. ASSUME UNCHANGED <<archive, manifest, final, listed>>, spoilt \subseteq spoilt',
             \/ pending' = pending
             \/ \E q \in Requests : OperationFails(q)
      PROVE  SealedThere' /\ OneList' /\ ListIsCurrent'
  <2>1. \A k \in DOMAIN manifest : FileOf(k) \notin spoilt' =>
          FileOf(k) \notin spoilt
          /\ (Matches(archive, manifest[k]) => Matches(archive, manifest[k])')
    BY <1>2 DEF Matches
  <2>2. FileOf(0) \notin spoilt' =>
          /\ FileOf(0) \notin spoilt
          /\ \A q \in Requests : /\ Doing(q, "manifest")' <=> Doing(q, "manifest")
                                 /\ Doing(q, "manifest") => pending'[q].value = pending[q].value
    <3>1. CASE pending' = pending
      BY <1>2, <3>1 DEF Doing
    <3>2. ASSUME NEW q \in Requests, OperationFails(q), FileOf(0) \notin spoilt'
          PROVE  \A p \in Requests : /\ Doing(p, "manifest")' <=> Doing(p, "manifest")
                                     /\ Doing(p, "manifest") => pending'[p].value = pending[p].value
      <4>1. ~Doing(q, "manifest")
        BY <3>2 DEF OperationFails
      <4>2. pending'[q] = Idle /\ \A p \in Requests : p # q => pending'[p] = pending[p]
        BY <1>0, <3>2, FailureTypes
      <4>3. ~Doing(q, "manifest")'
        BY <4>2 DEF Doing, Idle
      <4> QED BY <4>1, <4>2, <4>3 DEF Doing
    <3> QED BY <1>2, <3>1, <3>2
  <2> QED BY <1>0, <1>2, <2>1, <2>2, ListsKept
<1>3. CASE Fails(r) \/ Leaves(r)
  <2>1. /\ UNCHANGED <<archive, manifest, final, listed>> /\ spoilt \subseteq spoilt'
        /\ pending' = pending \/ \E q \in Requests : OperationFails(q)
    BY <1>3 DEF Fails, Leaves, OperationFails, disk
  <2>2. pc[r] \in Working /\ pc' = [pc EXCEPT ![r] = pc'[r]] /\ pc'[r] \in {"failed", "left"}
    BY <1>0, <1>3 DEF Fails, Leaves
  <2>3. \A q \in Requests : pc'[q] \notin Working
    BY <1>0, <2>2, Alone DEF Types, Working
  <2> QED BY <1>2, <2>1, <2>3 DEF Sealing, SealedOK, Working
<1>4. CASE FailsUnheard(r)
  <2>1. /\ UNCHANGED <<pc, local, archive, manifest, final, listed, cut>> /\ pc[r] = "left"
        /\ spoilt \subseteq spoilt' /\ OperationFails(r) /\ NextIndex' = NextIndex
    BY <1>4 DEF FailsUnheard, OperationFails, disk, NextIndex
  <2>2. \A p \in Requests : p # r => pending'[p] = pending[p]
    BY <1>0, <2>1, FailureTypes
  <2>3. ASSUME NEW q \in Requests PROVE SealedOK(q)'
    <3>1. SealedOK(q)
      BY <1>0 DEF Sealing
    <3>2. CASE q = r
      BY <2>1, <3>2 DEF SealedOK
    <3>3. CASE q # r
      <4>1. Done(q)' = Done(q)
        BY <2>2, <3>3 DEF Done, Doing
      <4>2. Clean' => Clean
        BY <2>1 DEF Clean, FileOf
      <4> QED BY <2>1, <3>1, <4>1, <4>2 DEF SealedOK, Sound, FileOf, Matches
    <3> QED BY <3>2, <3>3
  <2> QED BY <1>2, <2>1, <2>3 DEF Sealing
<1> QED BY <1>1, <1>3, <1>4

-----------------------------------------------------------------------------
(* The archives of earlier processes and the table.                         *)

\* What concerns the running archive leaves what was said of the others.
LEMMA PastFrame ==
  ASSUME IInv, archive' = archive,
         DOMAIN listed \subseteq DOMAIN listed',
         DOMAIN listed' \subseteq DOMAIN listed \cup {archive},
         \A a \in DOMAIN listed : a # archive => listed'[a] = listed[a],
         \A a, entry : a # archive /\ Matches(a, entry) => Matches(a, entry)',
         \A file \in spoilt : file \in spoilt' \/ file = FileOf(0) \/ file = FileOf(NextIndex),
         \A file \in cut : file \in cut' \/ file = FileOf(NextIndex),
         ToSet(manifest) \subseteq ToSet(manifest'),
         \A i \in indexed' : i \in indexed \/ IndexedOK(i)'
  PROVE  Past'
<1>0. /\ Types /\ Past /\ SealedThere /\ manifest \in Seq(Entry) /\ archive \in Nat
      /\ archive >= 1 /\ Len(manifest) \in Nat /\ NextIndex = Len(manifest) + 1
      /\ DOMAIN manifest = 1 .. Len(manifest)
  BY ArchiveAssumption DEF IInv, Types, TypeOK, Archives, Sealing, NextIndex
<1>1. \A a, k :
        a # archive => /\ <<a, k>> \in spoilt => <<a, k>> \in spoilt'
                       /\ <<a, k>> \in cut => <<a, k>> \in cut'
  BY DEF FileOf
<1>2. ASSUME NEW a \in DOMAIN listed', a # archive
      PROVE  /\ a \in DOMAIN listed /\ listed'[a] = listed[a] /\ a \in 1 .. archive
             /\ <<a, 0>> \notin spoilt' =>
                  /\ listed[a].whole /\ listed[a].files # <<>>
                  /\ \A e \in ToSet(listed[a].files) :
                       <<a, e.index>> \notin spoilt' => Matches(a, e)'
  <2>1. a \in DOMAIN listed /\ listed'[a] = listed[a]
    BY <1>2
  <2>2. /\ a \in 1 .. archive
        /\ <<a, 0>> \notin spoilt' =>
             /\ listed[a].whole /\ listed[a].files # <<>>
             /\ \A e \in ToSet(listed[a].files) : <<a, e.index>> \notin spoilt' => Matches(a, e)
    <3>1. /\ a \in 1 .. archive
          /\ <<a, 0>> \notin spoilt =>
               /\ listed[a].whole /\ listed[a].files # <<>>
               /\ \A e \in ToSet(listed[a].files) : <<a, e.index>> \notin spoilt => Matches(a, e)
      BY <1>0, <1>2, <2>1 DEF Past, ListedBefore
    <3>2. \A k : <<a, k>> \notin spoilt' => <<a, k>> \notin spoilt
      BY <1>1, <1>2
    <3> HIDE <1>1
    <3> QED BY <3>1, <3>2
  <2> QED BY <1>2, <2>1, <2>2
<1>3. ListedBefore'
  <2> SUFFICES ASSUME NEW a \in DOMAIN listed'
               PROVE  /\ a \in 1 .. archive
                      /\ a # archive /\ <<a, 0>> \notin spoilt' =>
                           /\ listed'[a].whole /\ listed'[a].files # <<>>
                           /\ \A e \in ToSet(listed'[a].files) :
                                <<a, e.index>> \notin spoilt' => Matches(a, e)'
    BY DEF ListedBefore, Matches
  <2>1. CASE a = archive
    BY <1>0, <2>1
  <2>2. CASE a # archive
    BY <1>2, <2>2
  <2> QED BY <2>1, <2>2
<1>4. ASSUME NEW i \in indexed PROVE IndexedOK(i)'
  <2>1. IndexedOK(i)
    BY <1>0 DEF Past
  <2>2. CASE i.archive = archive
    <3>1. i.entry \in ToSet(manifest) /\ i.entry \in ToSet(manifest')
      BY <2>1, <2>2 DEF IndexedOK
    <3>2. PICK k \in DOMAIN manifest : i.entry = manifest[k]
      BY <3>1 DEF ToSet
    <3>3. i.entry.index = k /\ k # 0 /\ k # NextIndex
      BY <1>0, <3>2 DEF SealedThere
    <3> DEFINE file == <<i.archive, i.entry.index>>
    <3>4. (file \in spoilt => file \in spoilt') /\ (file \in cut => file \in cut')
      BY <2>2, <3>3 DEF FileOf
    <3>5. Sound(file, i.entry, i.by)
      BY <2>1 DEF IndexedOK
    <3> HIDE DEF file
    <3>6. file \notin spoilt' =>
            CountIsLines(i.entry) /\ (file \notin cut' => Readable(i.entry.content, i.by))
      BY <3>4, <3>5 DEF Sound
    <3> QED BY <1>0, <2>2, <3>1, <3>6 DEF IndexedOK, Sound, file
  <2>3. CASE i.archive # archive
    <3> DEFINE file == <<i.archive, i.entry.index>>
    <3>1. (file \in spoilt => file \in spoilt') /\ (file \in cut => file \in cut')
      BY <1>1, <2>3
    <3>2. Sound(file, i.entry, i.by) /\ i.archive \in 1 .. archive
          /\ (file \notin spoilt => Matches(i.archive, i.entry))
      BY <2>1, <2>3 DEF IndexedOK
    <3>3. file \notin spoilt' => Matches(i.archive, i.entry)'
      BY <2>3, <3>1, <3>2
    <3>4. <<i.archive, 0>> \notin spoilt' =>
            i.archive \in DOMAIN listed' /\ i.entry \in ToSet(listed'[i.archive].files)
      BY <1>1, <2>1, <2>3 DEF IndexedOK
    <3> HIDE DEF file
    <3>5. file \notin spoilt' =>
            CountIsLines(i.entry) /\ (file \notin cut' => Readable(i.entry.content, i.by))
      BY <3>1, <3>2 DEF Sound
    <3> QED BY <2>3, <3>2, <3>3, <3>4, <3>5 DEF IndexedOK, Sound, file
  <2> QED BY <2>2, <2>3
<1> QED BY <1>3, <1>4 DEF Past

LEMMA PastCode ==
  ASSUME IInv, NEW r \in Requests, Step(r)
  PROVE  Past'
<1>0. /\ Types /\ SealedOK(r) /\ SealedThere /\ archive' = archive /\ archive \in Nat
      /\ archive >= 1 /\ manifest \in Seq(Entry) /\ Len(manifest) \in Nat
      /\ DOMAIN manifest = 1 .. Len(manifest)
      /\ UNCHANGED <<final, listed>>
  BY ArchiveAssumption
  DEF IInv, Types, TypeOK, Archives, Sealing, Step, Enter, WriteRecord, WriteNewline, ReadAndSeal,
      NothingToRead, RemoveTemp, WriteManifest, Index, NoFault, disk
<1>1. /\ \A file \in spoilt : file \in spoilt' \/ file = FileOf(0) \/ file = FileOf(NextIndex)
      /\ \A file \in cut : file \in cut' \/ file = FileOf(NextIndex)
  BY DEF Step, Enter, WriteRecord, WriteNewline, ReadAndSeal, NothingToRead, RemoveTemp,
         WriteManifest, Index, Mark
<1>2. ToSet(manifest) \subseteq ToSet(manifest')
  <2>1. CASE WriteManifest(r)
    <3>1. local[r] \in Entry /\ manifest' = Append(manifest, local[r])
      BY <1>0, <2>1 DEF WriteManifest, Goto, Types
    <3>2. DOMAIN manifest \subseteq DOMAIN manifest'
          /\ \A k \in DOMAIN manifest : manifest'[k] = manifest[k]
      BY <1>0, <3>1, Appended
    <3> QED BY <3>2 DEF ToSet
  <2>2. CASE ~WriteManifest(r)
    <3>1. manifest' = manifest
      BY <2>2 DEF Step, Enter, WriteRecord, WriteNewline, ReadAndSeal, NothingToRead, RemoveTemp,
                  Index
    <3> QED BY <3>1
  <2> QED BY <2>1, <2>2
<1>3. ASSUME NEW i \in indexed', i \notin indexed PROVE IndexedOK(i)'
  <2>1. Index(r)
    BY <1>3 DEF Step, Enter, WriteRecord, WriteNewline, ReadAndSeal, NothingToRead, RemoveTemp,
                WriteManifest
  <2>2. /\ i = [by |-> r, archive |-> archive, entry |-> local[r]] /\ pc[r] = "manifest"
        /\ UNCHANGED <<manifest, spoilt, cut>>
    BY <1>3, <2>1 DEF Index, Goto
  <2>3. i.by = r /\ i.archive = archive /\ i.entry = local[r]
    BY <2>2
  <2>4. /\ manifest # <<>> /\ manifest[Len(manifest)] = local[r]
        /\ Sound(FileOf(Len(manifest)), local[r], r)
    BY <1>0, <2>2 DEF SealedOK
  <2>5. Len(manifest) \in DOMAIN manifest
    BY <1>0, <2>4
  <2>6. local[r].index = Len(manifest) /\ local[r] \in ToSet(manifest)
    BY <1>0, <2>4, <2>5 DEF SealedThere, ToSet
  <2>7. FileOf(Len(manifest)) = <<i.archive, i.entry.index>>
    BY <2>3, <2>6 DEF FileOf
  <2>8. Sound(<<i.archive, i.entry.index>>, i.entry, i.by)'
    BY <2>2, <2>3, <2>4, <2>7 DEF Sound
  <2> QED BY <1>0, <2>2, <2>3, <2>6, <2>8 DEF IndexedOK
<1>4. \A a, entry : Matches(a, entry) => Matches(a, entry)'
  BY <1>0 DEF Matches
<1> QED BY <1>0, <1>1, <1>2, <1>3, <1>4, PastFrame

LEMMA PastPool ==
  ASSUME IInv, NEW r \in Requests, Land(r) \/ Begin(r)
  PROVE  Past'
<1>0. UNCHANGED <<archive, manifest, indexed, cut, spoilt>>
  BY Landing, Beginning DEF IInv
<1>1. /\ final' = final \/ \E k, value : final' = With(final, FileOf(k), value)
      /\ listed' = listed \/ \E value : listed' = With(listed, archive, value)
  BY DEF Land, Begin, Created, LineWritten, Removed, FinalWritten, ManifestWritten
<1>2. /\ DOMAIN listed \subseteq DOMAIN listed'
      /\ DOMAIN listed' \subseteq DOMAIN listed \cup {archive}
      /\ \A a \in DOMAIN listed : a # archive => listed'[a] = listed[a]
  BY <1>1 DEF With
<1>3. ASSUME NEW a, NEW entry, a # archive, Matches(a, entry) PROVE Matches(a, entry)'
  <2>1. CASE final' = final
    BY <1>3, <2>1 DEF Matches
  <2>2. ASSUME NEW k, NEW value, final' = With(final, FileOf(k), value)
        PROVE  Matches(a, entry)'
    <3>1. FileOf(k) # <<a, entry.index>>
      BY <1>3 DEF FileOf
    <3> DEFINE y == <<a, entry.index>>
               file == FileOf(k)
    <3>2. y \in DOMAIN final /\ final[y] = entry.content /\ y # file
      BY <1>3, <3>1 DEF Matches
    <3> HIDE DEF y, file
    <3>3. y \in DOMAIN final' /\ final'[y] = entry.content
      BY <2>2, <3>2 DEF With, file
    <3> QED BY <3>3 DEF Matches, y
  <2> QED BY <1>1, <2>1, <2>2
<1> QED BY <1>0, <1>2, <1>3, PastFrame

LEMMA PastFaults ==
  ASSUME IInv, NEW r \in Requests, Fails(r) \/ Leaves(r) \/ FailsUnheard(r) \/ Crash
  PROVE  Past'
<1>0. /\ Types /\ Sealing /\ Past /\ (\A q \in Requests : OwnOp(q)) /\ archive \in Nat
      /\ archive >= 1 /\ manifest \in Seq(Entry) /\ UNCHANGED <<final, listed, indexed>>
  BY ArchiveAssumption
  DEF IInv, Types, TypeOK, Archives, Pool, Fails, Leaves, FailsUnheard, Crash, disk
<1>1. \A a, entry : Matches(a, entry)' <=> Matches(a, entry)
  BY <1>0 DEF Matches
<1>2. CASE ~Crash
  <2>1. /\ UNCHANGED <<archive, manifest>> /\ spoilt \subseteq spoilt' /\ cut \subseteq cut'
    BY <1>2 DEF Fails, Leaves, FailsUnheard, OperationFails
  <2> QED BY <1>0, <1>1, <2>1, PastFrame
<1>3. CASE Crash
  <2>1. /\ archive' = archive + 1 /\ cut' = cut
        /\ spoilt' = IF UnderWay(0) THEN spoilt \cup {FileOf(0)} ELSE spoilt
    BY <1>3 DEF Crash
  <2>2. ASSUME FileOf(0) \notin spoilt'
        PROVE  FileOf(0) \notin spoilt /\ \A q \in Requests : ~Doing(q, "manifest")
    <3>1. FileOf(0) \notin spoilt /\ ~UnderWay(0)
      BY <2>1, <2>2
    <3>2. \A q \in Requests : Doing(q, "manifest") => ~Done(q) /\ pending[q].index = 0
      BY <1>0 DEF OwnOp, Done, Doing
    <3> QED BY <3>1, <3>2 DEF UnderWay
  <2>3. \A e \in ToSet(manifest) : <<archive, e.index>> \notin spoilt => Matches(archive, e)
    <3> SUFFICES ASSUME NEW k \in DOMAIN manifest, FileOf(k) \notin spoilt
                 PROVE  Matches(archive, manifest[k])
      BY <1>0 DEF ToSet, Sealing, SealedThere, FileOf
    <3> QED BY <1>0 DEF Sealing, SealedThere
  <2>4. ListedBefore'
    <3> SUFFICES ASSUME NEW a \in DOMAIN listed'
                 PROVE  /\ a \in 1 .. archive'
                        /\ <<a, 0>> \notin spoilt' =>
                             /\ listed'[a].whole /\ listed'[a].files # <<>>
                             /\ \A e \in ToSet(listed'[a].files) :
                                  <<a, e.index>> \notin spoilt' => Matches(a, e)'
      BY DEF ListedBefore, Matches
    <3>0. a \in DOMAIN listed /\ listed'[a] = listed[a]
      BY <1>0
    <3>1. /\ a \in 1 .. archive
          /\ a # archive /\ <<a, 0>> \notin spoilt =>
               /\ listed[a].whole /\ listed[a].files # <<>>
               /\ \A e \in ToSet(listed[a].files) : <<a, e.index>> \notin spoilt => Matches(a, e)
      BY <1>0, <3>0 DEF Past, ListedBefore
    <3>2. CASE a # archive
      BY <1>0, <1>1, <2>1, <3>0, <3>1, <3>2
    <3>3. ASSUME a = archive, <<a, 0>> \notin spoilt'
          PROVE  /\ listed[a].whole /\ listed[a].files # <<>>
                 /\ \A e \in ToSet(listed[a].files) :
                      <<a, e.index>> \notin spoilt => Matches(a, e)
      <4>1. manifest # <<>> /\ listed[archive] = [whole |-> TRUE, files |-> manifest]
        BY <1>0, <2>2, <3>3 DEF FileOf, Sealing, ListIsCurrent
      <4> QED BY <2>3, <3>3, <4>1
    <3>4. CASE a = archive
      BY <1>0, <1>1, <2>1, <3>0, <3>1, <3>3, <3>4
    <3> QED BY <3>2, <3>4
  <2>5. ASSUME NEW i \in indexed PROVE IndexedOK(i)'
    <3>1. IndexedOK(i)
      BY <1>0 DEF Past
    <3>2. i.archive \in 1 .. archive' /\ i.archive # archive'
      BY <1>0, <2>1, <3>1 DEF IndexedOK
    <3>3. Sound(<<i.archive, i.entry.index>>, i.entry, i.by)'
      BY <2>1, <3>1 DEF IndexedOK, Sound
    <3>4. ASSUME <<i.archive, 0>> \notin spoilt'
          PROVE  i.archive \in DOMAIN listed /\ i.entry \in ToSet(listed[i.archive].files)
      <4>1. CASE i.archive = archive
        <5>1. i.entry \in ToSet(manifest) /\ manifest # <<>>
          BY <1>0, <3>1, <4>1 DEF IndexedOK, ToSet
        <5>2. archive \in DOMAIN listed /\ listed[archive] = [whole |-> TRUE, files |-> manifest]
          BY <1>0, <2>2, <3>4, <4>1, <5>1 DEF FileOf, Sealing, ListIsCurrent
        <5> QED BY <4>1, <5>1, <5>2
      <4>2. CASE i.archive # archive
        BY <2>1, <3>1, <3>4, <4>2 DEF IndexedOK
      <4> QED BY <4>1, <4>2
    <3>5. ASSUME <<i.archive, i.entry.index>> \notin spoilt' PROVE Matches(i.archive, i.entry)
      <4>1. <<i.archive, i.entry.index>> \notin spoilt
        BY <2>1, <3>5
      <4>2. CASE i.archive = archive
        <5>1. i.entry \in ToSet(manifest)
          BY <3>1, <4>2 DEF IndexedOK
        <5> QED BY <2>3, <4>1, <4>2, <5>1
      <4>3. CASE i.archive # archive
        BY <3>1, <4>1, <4>3 DEF IndexedOK
      <4> QED BY <4>2, <4>3
    <3> QED BY <1>0, <1>1, <3>2, <3>3, <3>4, <3>5 DEF IndexedOK
  <2> QED BY <1>0, <2>4, <2>5 DEF Past
<1> QED BY <1>2, <1>3

-----------------------------------------------------------------------------
(* The theorems.                                                            *)

LEMMA Begins ==
  ASSUME Init
  PROVE  IInv
<1> USE DEF Init
<1>1. Types
  <2>1. MaxFaults \in Nat /\ Archives = 1 .. MaxFaults + 1 /\ 1 \in Archives
    BY ArchiveAssumption DEF Archives
  <2>2. NoSegment \in Handle /\ NoFile \in File /\ Idle \in Operation /\ Idle.do = "nothing"
    BY DEF NoSegment, Handle, NoFile, File, Idle, Operation
  <2> QED BY <2>1, <2>2 DEF Types, TypeOK, HeldByWorker, Doing, Working
<1>2. \A q \in Requests : Done(q) /\ ~pending[q].begun /\ pc[q] = "new"
                          /\ \A do \in {"record", "manifest"} : ~Doing(q, do)
  BY DEF Idle, Done, Doing
<1>3. Pool
  BY <1>2 DEF Pool, OwnOp, OneRecord, StraysMarked, Done, Doing
<1>4. Filling
  BY <1>2 DEF Filling, SegmentOK, FillingOK, TakenOK
<1>5. Sealing
  BY <1>2 DEF Sealing, SealedOK, SealedThere, OneList, ListIsCurrent
<1>6. Past
  BY DEF Past, ListedBefore
<1> QED BY <1>1, <1>3, <1>4, <1>5, <1>6 DEF IInv

LEMMA Stutters ==
  ASSUME IInv, UNCHANGED vars
  PROVE  IInv'
<1>1. UNCHANGED <<pc, local, lock, archive, segment, manifest, pending, temp, final, listed,
                  indexed, cut, spoilt, faults>>
  BY DEF vars, disk
<1>2. Types'
  BY <1>1 DEF IInv, Types, TypeOK, HeldByWorker, Doing
<1>3. Pool'
  BY <1>1 DEF IInv, Pool, OwnOp, AwaitsOp, OneRecord, StraysMarked, FileBegun, FileOf, NextIndex,
              Done, Doing
<1>4. Filling'
  BY <1>1 DEF IInv, Filling, SegmentOK, FillingOK, TakenOK, Clean, Uncut, NoNewline, FileOf,
              NextIndex, Done, Doing
<1>5. Sealing'
  BY <1>1 DEF IInv, Sealing, SealedOK, SealedThere, OneList, ListIsCurrent, Sound, Matches, Clean,
              FileOf, NextIndex, Done, Doing
<1>6. Past'
  BY <1>1 DEF IInv, Past, ListedBefore, IndexedOK, Sound, Matches
<1> QED BY <1>2, <1>3, <1>4, <1>5, <1>6 DEF IInv

\* What each request, the pool and the disk know of one another.
THEOREM Invariant == Spec => []IInv
<1>1. Init => IInv
  BY Begins
<1>2. IInv /\ [Next]_vars => IInv'
  <2> SUFFICES ASSUME IInv, [Next]_vars PROVE IInv'
    OBVIOUS
  <2>1. ASSUME NEW r \in Requests, Step(r) PROVE IInv'
    BY <2>1, TypesCode, PoolCode, FillingCode, SealingCode, PastCode DEF IInv
  <2>2. ASSUME NEW r \in Requests, Land(r) \/ Begin(r) PROVE IInv'
    BY <2>2, TypesPool, PoolPool, FillingPool, SealingPool, PastPool DEF IInv
  <2>3. ASSUME NEW r \in Requests, Fails(r) \/ Leaves(r) \/ FailsUnheard(r) \/ Crash PROVE IInv'
    BY <2>3, TypesFaults, PoolFaults, FillingFaults, SealingFaults, PastFaults DEF IInv
  <2>4. CASE UNCHANGED vars
    BY <2>4, Stutters
  <2>5. CASE Crash
    BY <2>3, <2>5, ArchiveAssumption
  <2> QED BY <2>1, <2>2, <2>3, <2>4, <2>5 DEF Next
<1> QED BY <1>1, <1>2, PTL DEF Spec

\* conversation_count is the number of lines of its file and the last one is ended,
\* unless an operation on that file was left in the pool when it was begun
\* (writer.rs:112-122, 138).
THEOREM CountsHold == Spec => []CountsAreLines
<1>1. IInv => CountsAreLines
  BY DEF IInv, Past, IndexedOK, Sound, CountsAreLines
<1> QED BY <1>1, Invariant, PTL

\* A record that was archived is listed, in the file the checksum is of and on a line
\* of its own, each part but for a fault in that very file, and the index of all
\* archives rebuilds unless one of the files it lists has such a fault
\* (writer.rs:112-192, manifest.rs:133-198).
THEOREM ArchivedHolds == Spec => []ArchivedIsFound
<1>1. ASSUME IInv, Settled(archive)
      PROVE  \A q \in Requests : ~Doing(q, "manifest")
  <2>1. ~UnderWay(0)
    BY <1>1 DEF Settled
  <2>2. \A q \in Requests : Doing(q, "manifest") => ~Done(q) /\ pending[q].index = 0
    BY <1>1 DEF IInv, Pool, OwnOp, Done, Doing
  <2> QED BY <2>1, <2>2 DEF UnderWay
<1>2. ASSUME IInv, Settled(archive), manifest # <<>>
      PROVE  archive \in DOMAIN listed /\ listed[archive] = [whole |-> TRUE, files |-> manifest]
  BY <1>1, <1>2 DEF IInv, Sealing, ListIsCurrent, Settled, FileOf
<1>3. ASSUME IInv, NEW e \in ToSet(manifest), <<archive, e.index>> \notin spoilt
      PROVE  Matches(archive, e)
  <2>1. PICK k \in DOMAIN manifest : e = manifest[k]
    BY <1>3 DEF ToSet
  <2> QED BY <1>3, <2>1 DEF IInv, Sealing, SealedThere, FileOf
<1>4. ASSUME IInv, NEW i \in indexed
      PROVE  LET file == <<i.archive, i.entry.index>> IN
             /\ Settled(i.archive) =>
                  i.archive \in DOMAIN listed /\ i.entry \in ToSet(listed[i.archive].files)
             /\ file \notin spoilt => Matches(i.archive, i.entry)
             /\ file \notin spoilt \cup cut => Readable(i.entry.content, i.by)
  <2>1. IndexedOK(i)
    BY <1>4 DEF IInv, Past
  <2>2. CASE i.archive = archive
    <3>1. i.entry \in ToSet(manifest) /\ manifest # <<>>
      BY <2>1, <2>2 DEF IndexedOK, ToSet
    <3>2. Settled(archive) => listed[archive].files = manifest /\ archive \in DOMAIN listed
      BY <1>2, <1>4, <3>1
    <3> QED BY <1>3, <1>4, <2>1, <2>2, <3>1, <3>2 DEF IndexedOK, Sound
  <2>3. CASE i.archive # archive
    BY <2>1, <2>3 DEF IndexedOK, Sound, Settled
  <2> QED BY <2>2, <2>3
<1>5. ASSUME IInv, NEW a \in DOMAIN listed, Settled(a),
             \A e \in ToSet(listed[a].files) : <<a, e.index>> \notin spoilt
      PROVE  /\ listed[a].whole /\ listed[a].files # <<>>
             /\ \A e \in ToSet(listed[a].files) : Matches(a, e)
  <2>1. CASE a = archive
    <3>1. manifest # <<>>
      BY <1>5, <2>1 DEF IInv, Sealing, ListIsCurrent
    <3>2. listed[a] = [whole |-> TRUE, files |-> manifest]
      BY <1>2, <1>5, <2>1, <3>1
    <3>3. listed[a].whole /\ listed[a].files = manifest
      BY <3>2
    <3>4. \A e \in ToSet(manifest) : Matches(a, e)
      BY <1>3, <1>5, <2>1, <3>3
    <3> QED BY <3>1, <3>3, <3>4
  <2>2. CASE a # archive
    BY <1>5, <2>2 DEF IInv, Past, ListedBefore, Settled
  <2> QED BY <2>1, <2>2
<1>6. IInv => ArchivedIsFound
  BY <1>4, <1>5 DEF ArchivedIsFound, Rebuilds
<1> QED BY <1>6, Invariant, PTL

\* The safety half of NobodyBlocked: whatever failed, left or restarted, the mutex of
\* the writers is held only by a request that works on (relay.rs:5115).
THEOREM MutexIsWorkedFor == Spec => []HeldByWorker
<1>1. IInv => HeldByWorker
  BY DEF IInv, Types
<1> QED BY <1>1, Invariant, PTL
=============================================================================
