----------------------- MODULE DurableRecorderProofs -----------------------
(***************************************************************************)
(* Theorems about DurableRecorder.                                         *)
(*                                                                         *)
(* A recorder never starts over an earlier recording; a crash between any  *)
(* two system calls loses nothing that was promised; and a recording that  *)
(* counts as complete is complete.  The last two rest on RecInv: the units *)
(* are numbered through from the queue to the disk, the journal names a    *)
(* unit only once its payload is on disk, the prefix of the journal that   *)
(* was synchronized is one the inspector reads up to the last promise, and *)
(* the marker has its name only when everything it says is on disk.        *)
(***************************************************************************)
EXTENDS DurableRecorder, SequenceTheorems, FiniteSetTheorems, TLAPS

\* A path that initialize does not refuse is one where inspect_recording
\* finds neither a marker, nor a journal, nor a final companion.
LEMMA FreePathIsAbsent ==
  ASSUME ~PathTaken
  PROVE  Inspect(files).state = "absent"
<1>1. \A f \in File : files[f].at # "final"
  BY DEF PathTaken
<1>2. /\ files["marker"].at # "final" /\ files["journal"].at # "final"
      /\ files["media"].at # "final" /\ files["sidecar"].at # "final"
  BY <1>1 DEF File
<1>3. Inspect(files) = Verdict("absent", 0)
  BY <1>2 DEF Inspect
<1> QED
  BY <1>3 DEF Verdict

\* Only OpenPath leaves the state "open", and it goes on to create files only
\* on a path that is free.
LEMMA OpensFreePaths ==
  ASSUME Next, pc = "open", pc' = "create"
  PROVE  ~PathTaken
<1>1. CASE OpenPath
  BY <1>1 DEF OpenPath
<1>2. CASE Initialize
  BY <1>2 DEF Initialize, Prepare
<1>3. CASE \E keyframe \in BOOLEAN : Enqueue(keyframe)
  BY <1>3 DEF Enqueue
<1>4. CASE EnqueueInvalid \/ EnqueueOverload \/ Finalize \/ Destroy \/ Return
  BY <1>4 DEF EnqueueInvalid, EnqueueOverload, Finalize, Destroy, Return
<1>5. CASE WriteAccessUnit \/ NoUnit \/ Stopping \/ Decide
  BY <1>5 DEF WriteAccessUnit, NoUnit, Stopping, Decide
<1>6. CASE CommitGroup
  BY <1>6 DEF CommitGroup, SyncMediaGroup, WriteJournalGroup, SyncJournalGroup,
              WriteSidecarGroup, SyncSidecarGroup, CommitStep
<1>7. CASE Publish
  BY <1>7 DEF Publish, PublishCompanions, PublishMarker, RemoveJournal,
              SyncFileStep, SyncDirectoryStep, RenameStep, WriteStep, PublishStep
<1>8. CASE Tick \/ Crash \/ Restart
  BY <1>8 DEF Tick, Crash, Restart
<1> QED
  BY <1>1, <1>2, <1>3, <1>4, <1>5, <1>6, <1>7, <1>8 DEF Next, Worker

\* No recorder starts over an earlier recording (initialize, lines 1024-1039),
\* for every number of units, failures, crashes and restarts.
THEOREM RecordingsAreNotOverwritten == Spec => NeverOverwrites
<1>1. [Next]_vars => [pc = "open" /\ pc' = "create" =>
                        Inspect(files).state = "absent"]_vars
  <2>1. ASSUME Next, pc = "open", pc' = "create"
        PROVE  Inspect(files).state = "absent"
    BY <2>1, OpensFreePaths, FreePathIsAbsent
  <2> QED
    BY <2>1
<1> QED
  BY <1>1, PTL DEF Spec, NeverOverwrites

-----------------------------------------------------------------------------
-----------------------------------------------------------------------------
\* The crash properties: what the recorder knows and what is in the files.

\* The types of records and files.
EntryType ==
  [kind : {"header", "payload", "unit", "commit", "suffix", "torn", "short"}, n : Nat, at : Nat]

MarkerType ==
  [kind : {"marker"}, n : Nat, at : Nat, media : Seq(EntryType), sidecar : Seq(EntryType)]

RecordType == EntryType \cup MarkerType

FileType == [mem : Seq(RecordType), disk : Seq(RecordType), at : Place, entry : Place]

\* The steps of the program by where the recorder is.
Closed == {"open", "refused"}
Preparing == {"create", "header", "syncHeader", "syncPrepared"}
Committing == {"syncMedia", "journal", "syncJournal", "sidecar", "syncSidecar"}
Running == {"loop", "stopping", "decide"} \cup Committing
Publishing == {"suffix", "syncSuffix", "renameMedia", "renameSidecar", "syncNames", "marker",
               "syncMarker", "renameMarker", "syncMarkerName", "unlink", "syncUnlink"}

Companions == {"media", "sidecar", "marker"}

\* The variables have their types.
RecTypes ==
  /\ files \in [File -> FileType]
  /\ pc \in Steps /\ resume \in {"loop", "timer", "stopping", "publish"}
  /\ seen \in [stop : BOOLEAN, publish : BOOLEAN, commit : BOOLEAN]
  /\ queue \in Seq(Unit) /\ Len(queue) <= QueueLimit
  /\ pending \in Seq(EntryType) /\ hashed \in Seq(EntryType) /\ described \in Seq(EntryType)
  /\ nextIndex \in 0 .. MaxUnits /\ committed \in Nat /\ promised \in Nat
  /\ failed \in BOOLEAN /\ stopRequested \in BOOLEAN /\ publishRequested \in BOOLEAN
  /\ commitPendingOnFailure \in BOOLEAN /\ completed \in BOOLEAN /\ prepared \in BOOLEAN
  /\ wall \in {"fresh", "due", "late"} /\ caller \in {"idle", "joining", "returned"}
  /\ faults \in 0 .. MaxFaults

\* The units are numbered through: those written, of them those pending,
\* and those in the queue.
RecCounts ==
  /\ Len(hashed) + Len(queue) <= nextIndex
  /\ ~failed => Len(hashed) + Len(queue) = nextIndex
  /\ \A i \in 1 .. Len(hashed) : hashed[i] = Payload(i - 1)
  /\ Len(pending) <= Len(hashed)
  /\ \A i \in 1 .. Len(pending) :
       pending[i] = AccessUnitRecord(Len(hashed) - Len(pending) + i - 1,
                                     Len(hashed) - Len(pending) + i - 1)
  /\ \A i \in 1 .. Len(queue) : queue[i].n = Len(hashed) + i - 1
  /\ promised <= committed /\ committed <= Len(hashed)
  /\ pending = <<>> \/ pc \in {"sidecar", "syncSidecar"} => committed = Len(hashed)
  /\ pc \in Committing => pending # <<>>
  /\ pc \in Publishing => pending = <<>>

\* Only a healthy recorder that was finalized and is drained publishes.
RecFlags ==
  /\ publishRequested => caller # "idle"
  /\ seen.publish => publishRequested /\ Len(hashed) = nextIndex
  /\ pc \in Publishing \/ (pc \in Committing /\ resume = "publish") => seen.publish /\ ~failed
  /\ prepared => pc \notin Closed \cup Preparing
  /\ pc \in Running \cup Publishing => prepared
  /\ pc \in Closed \cup Preparing => ~failed
  /\ ~prepared =>
       /\ caller = "idle" /\ hashed = <<>> /\ pending = <<>> /\ described = <<>>
       /\ promised = 0 /\ ~completed

\* The names: a companion has its durable name only where it has the visible one.
RecNames ==
  /\ \A f \in Companions : files[f].entry = "final" => files[f].at = "final"
  /\ prepared => \A f \in Companions : files[f].at # "none" /\ files[f].entry # "none"
  /\ prepared /\ files["marker"].entry # "final" =>
       files["journal"].at = "final" /\ files["journal"].entry = "final"
  /\ pc = "create" => files = [f \in File |-> NoFile]
  /\ pc \in Preparing \ {"create"} =>
       files["journal"].at = "final" /\ \A f \in Companions : files[f].at = "tmp"
  /\ pc \in Running \cup {"suffix", "syncSuffix", "renameMedia", "renameSidecar", "syncNames",
                          "marker", "syncMarker", "renameMarker"} => files["marker"].at # "final"
  /\ pc \in {"syncMarkerName", "unlink", "syncUnlink"} => files["marker"].at = "final"
  /\ pc \in {"unlink", "syncUnlink"} => files["marker"].entry = "final"
  /\ completed => files["marker"].entry = "final"
  /\ pc \in {"renameSidecar", "syncNames", "marker", "syncMarker", "renameMarker"} =>
       files["media"].at = "final"
  /\ pc \in {"syncNames", "marker", "syncMarker", "renameMarker"} => files["sidecar"].at = "final"
  /\ pc \in {"marker", "syncMarker", "renameMarker"} =>
       files["media"].entry = "final" /\ files["sidecar"].entry = "final"

\* t begins with s.
Extends(s, t) == Len(s) <= Len(t) /\ \A i \in 1 .. Len(s) : t[i] = s[i]

\* What is in the companions.
RecMedia ==
  /\ Extends(files["media"].disk, files["media"].mem)
  /\ pc \in Running \cup Publishing =>
       /\ Extends(hashed, files["media"].mem)
       /\ ~failed => files["media"].mem = hashed
       /\ ~failed /\ pending = <<>> => files["media"].disk = hashed
       /\ pc \in Committing \ {"syncMedia"} => Extends(hashed, files["media"].disk)
  /\ pc \in Preparing => files["media"].mem = <<>> /\ files["media"].disk = <<>>

\* The sidecar describes the units committed to it.
RecSidecar ==
  /\ pc \in Running \cup {"suffix"} /\ ~failed =>
       /\ Len(described) = Len(hashed) - Len(pending)
       /\ files["sidecar"].mem = IF pc = "syncSidecar" THEN described \o pending ELSE described
  /\ pc = "syncSuffix" => files["sidecar"].mem = Append(described, SidecarSuffix(committed))
  /\ pc \in Publishing \ {"suffix", "syncSuffix"} =>
       files["sidecar"].mem = described /\ files["sidecar"].disk = described
  /\ pc \in Preparing => files["sidecar"].mem = <<>> /\ files["sidecar"].disk = <<>>

\* The marker publish writes, and where it is.
TheMarker == <<Marker(committed, committed, hashed, described)>>

RecMarker ==
  /\ pc \in Preparing \cup Running \cup {"suffix", "syncSuffix", "renameMedia", "renameSidecar",
                                         "syncNames", "marker"} => files["marker"].mem = <<>>
  /\ pc \in {"syncMarker", "renameMarker"} => files["marker"].mem = TheMarker
  /\ pc = "renameMarker" => files["marker"].disk = TheMarker

\* The marker has its name only when everything it says is on disk.
Sealed ==
  /\ prepared /\ publishRequested /\ Len(hashed) = nextIndex /\ committed = nextIndex
  /\ files["marker"].mem = TheMarker /\ files["marker"].disk = TheMarker
  /\ files["media"].mem = hashed /\ files["media"].disk = hashed
  /\ files["media"].at = "final" /\ files["media"].entry = "final"
  /\ files["sidecar"].mem = described /\ files["sidecar"].disk = described
  /\ files["sidecar"].at = "final" /\ files["sidecar"].entry = "final"

RecSealed == pc \notin Closed /\ files["marker"].at = "final" => Sealed

\* The journal: it names a unit only after its payload is on disk, and up
\* to what was promised the inspector reads what is on disk.
UnitsOnDisk(journal, media) ==
  \A k \in 1 .. Len(journal) : journal[k].kind = "unit" =>
    /\ journal[k].at = journal[k].n /\ journal[k].n < Len(media)
    /\ media[journal[k].n + 1] = Payload(journal[k].n)

Kept(journal, media, units) ==
  \/ units = 0
  \/ \E i \in 2 .. Len(journal) :
       /\ journal[i].kind = "commit" /\ journal[i].n + 1 = units
       /\ \A k \in 2 .. i : Accepted(journal, media, k)

RecJournal ==
  /\ Extends(files["journal"].disk, files["journal"].mem)
  /\ pc = "header" => files["journal"].mem = <<>> /\ files["journal"].disk = <<>>
  /\ pc \in {"syncHeader", "syncPrepared"} => files["journal"].mem = <<Header>>
  /\ pc = "syncPrepared" => files["journal"].disk = <<Header>>
  /\ prepared /\ files["marker"].entry # "final" =>
       /\ Len(files["journal"].disk) >= 1 /\ files["journal"].disk[1] = Header
       /\ UnitsOnDisk(files["journal"].mem, files["media"].disk)
       /\ Kept(files["journal"].disk, files["media"].disk, promised)

\* A healthy worker's journal is read to its end.
RecHealthy ==
  pc \in Running /\ ~failed =>
    LET journal == files["journal"].mem
        units == UnitsBefore(journal, Len(journal) + 1)
    IN  /\ \A k \in 2 .. Len(journal) : Accepted(journal, files["media"].disk, k)
        /\ units = IF pc \in {"syncJournal", "sidecar", "syncSidecar"} THEN Len(hashed)
                   ELSE Len(hashed) - Len(pending)
        /\ Len(journal) <= 2 * units + 1
        /\ pc = "syncJournal" =>
             /\ Len(journal) >= 2 /\ journal[Len(journal)].kind = "commit"
             /\ journal[Len(journal)].n + 1 = Len(hashed)

\* The inductive invariant.
RecInv ==
  /\ RecTypes /\ RecCounts /\ RecFlags /\ RecNames /\ RecMedia /\ RecSidecar /\ RecMarker
  /\ RecSealed /\ RecJournal /\ RecHealthy

\* The bounds of the model are natural numbers (RecorderAssumption).
LEMMA RecBounds ==
  /\ MaxUnits \in Nat \ {0} /\ QueueLimit \in Nat \ {0} /\ MaxFaults \in Nat
  /\ FileCap \in Nat /\ FileCap = 2 * MaxUnits + 1
<1>1. MaxUnits \in Nat \ {0} /\ QueueLimit \in Nat \ {0} /\ MaxFaults \in Nat
  BY RecorderAssumption
<1>2. FileCap = 2 * MaxUnits + 1
  BY DEF FileCap
<1> QED
  BY <1>1, <1>2

\* The kinds of the records and what they name.
LEMMA RecordFacts ==
  /\ Torn \in RecordType /\ Torn.kind = "torn" /\ Short \in RecordType /\ Short.kind = "short"
  /\ Header \in RecordType /\ Header.kind = "header" /\ Header # Short /\ Header # Torn
  /\ \A n \in Nat : /\ Payload(n) \in EntryType /\ Payload(n).kind = "payload"
                    /\ SidecarSuffix(n) \in EntryType
  /\ \A n, m \in Nat : /\ AccessUnitRecord(n, m) \in EntryType /\ AccessUnitRecord(n, m).kind = "unit"
                       /\ AccessUnitRecord(n, m).n = n /\ AccessUnitRecord(n, m).at = m
                       /\ CommitRecord(n, m) \in EntryType /\ CommitRecord(n, m).kind = "commit"
                       /\ CommitRecord(n, m).n = n /\ CommitRecord(n, m).at = m
BY DEF Torn, Short, Header, Payload, SidecarSuffix, AccessUnitRecord, CommitRecord, Entry,
       RecordType, EntryType

\* To extend a sequence is reflexive and transitive.
LEMMA ExtendsFacts ==
  ASSUME NEW S
  PROVE  /\ \A s \in Seq(S) : Extends(s, s) /\ Extends(<<>>, s)
         /\ \A s, t, u \in Seq(S) : Extends(s, t) /\ Extends(t, u) => Extends(s, u)
         /\ \A s, t \in Seq(S) : Extends(s, s \o t)
<1>1. \A s \in Seq(S) : Extends(s, s) /\ Extends(<<>>, s)
  <2> TAKE s \in Seq(S)
  <2>1. Len(s) \in Nat /\ Len(<<>>) = 0
    BY EmptySeq, LenProperties
  <2> QED
    BY <2>1 DEF Extends
<1>2. \A s, t, u \in Seq(S) : Extends(s, t) /\ Extends(t, u) => Extends(s, u)
  <2> TAKE s, t, u \in Seq(S)
  <2>1. Len(s) \in Nat /\ Len(t) \in Nat /\ Len(u) \in Nat
    BY LenProperties
  <2> QED
    BY <2>1 DEF Extends
<1>3. \A s, t \in Seq(S) : Extends(s, s \o t)
  <2> TAKE s, t \in Seq(S)
  <2>1. /\ Len(s) \in Nat /\ Len(t) \in Nat /\ Len(s \o t) = Len(s) + Len(t)
        /\ \A i \in 1 .. Len(s) + Len(t) : (s \o t)[i] = IF i <= Len(s) THEN s[i] ELSE t[i - Len(s)]
    BY LenProperties, ConcatProperties
  <2> QED
    BY <2>1 DEF Extends
<1> QED
  BY <1>1, <1>2, <1>3

\* What is left of records of which only the first k are whole.
LEMMA CutFacts ==
  ASSUME NEW r \in Seq(RecordType), NEW k \in 0 .. Len(r), NEW c \in Cut(r, k)
  PROVE  /\ c \in Seq(RecordType) /\ k <= Len(c)
         /\ \A i \in 1 .. k : c[i] = r[i]
         /\ \A i \in 1 .. Len(c) : i > k => c[i] \in {Torn, Short}
         /\ k = Len(r) => c = r
<1>1. Len(r) \in Nat /\ k \in Int /\ k \in Nat
  BY LenProperties
<1>2. PICK tear \in Tears(r, k) : c = SubSeq(r, 1, k) \o tear
  BY DEF Cut
<1>3. tear \in {<<>>, <<Torn>>, <<Short>>}
  BY DEF Tears
<1>4. /\ tear \in Seq(RecordType) /\ Len(tear) \in Nat
      /\ \A i \in 1 .. Len(tear) : tear[i] \in {Torn, Short}
  <2>1. CASE tear = <<>>
    <3>1. <<>> \in Seq(RecordType) /\ Len(<<>>) = 0
      BY EmptySeq
    <3> QED
      BY <2>1, <3>1
  <2>2. CASE tear = <<Torn>>
    <3>1. <<Torn>> \in Seq(RecordType) /\ Len(<<Torn>>) = 1 /\ <<Torn>>[1] = Torn
      BY RecordFacts
    <3> QED
      BY <2>2, <3>1
  <2>3. CASE tear = <<Short>>
    <3>1. <<Short>> \in Seq(RecordType) /\ Len(<<Short>>) = 1 /\ <<Short>>[1] = Short
      BY RecordFacts
    <3> QED
      BY <2>3, <3>1
  <2> QED
    BY <1>3, <2>1, <2>2, <2>3
<1> DEFINE h == SubSeq(r, 1, k)
<1>5. h \in Seq(RecordType) /\ Len(h) = k /\ \A i \in 1 .. k : h[i] = r[i]
  <2>1. \A i \in 1 .. k : r[i] \in RecordType
    BY <1>1, ElementOfSeq
  <2>2. /\ h \in Seq(RecordType) /\ Len(h) = IF 1 <= k THEN k - 1 + 1 ELSE 0
        /\ \A i \in 1 .. k - 1 + 1 : h[i] = r[1 + i - 1]
    BY <1>1, <2>1, SubSeqProperties
  <2> HIDE DEF h
  <2>3. Len(h) = k
    BY <1>1, <2>2
  <2>4. \A i \in 1 .. k : h[i] = r[i]
    <3> TAKE i \in 1 .. k
    <3>1. i \in 1 .. k - 1 + 1 /\ 1 + i - 1 = i
      BY <1>1
    <3>2. h[i] = r[1 + i - 1]
      BY <2>2, <3>1
    <3> QED
      BY <3>1, <3>2
  <2> QED
    BY <2>2, <2>3, <2>4
<1> HIDE DEF h
<1>6. /\ c \in Seq(RecordType) /\ Len(c) = k + Len(tear)
      /\ \A i \in 1 .. k + Len(tear) : c[i] = IF i <= k THEN h[i] ELSE tear[i - k]
  <2>1. c = h \o tear
    BY <1>2 DEF h
  <2> QED
    BY <1>4, <1>5, <2>1, ConcatProperties
<1>7. k <= Len(c) /\ \A i \in 1 .. k : c[i] = r[i]
  BY <1>1, <1>4, <1>5, <1>6
<1>8. \A i \in 1 .. Len(c) : i > k => c[i] \in {Torn, Short}
  <2> SUFFICES ASSUME NEW i \in 1 .. Len(c), i > k PROVE c[i] \in {Torn, Short}
    OBVIOUS
  <2>1. i - k \in 1 .. Len(tear) /\ ~(i <= k) /\ i \in 1 .. k + Len(tear)
    BY <1>1, <1>4, <1>6
  <2>2. c[i] = tear[i - k]
    BY <1>6, <2>1
  <2> QED
    BY <1>4, <2>1, <2>2
<1>9. ASSUME k = Len(r) PROVE c = r
  <2>1. tear = <<>>
    <3>1. ~(k < Len(r))
      BY <1>1, <1>9
    <3>2. k = 0 => r = <<>>
      BY <1>9, EmptySeq
    <3> QED
      BY <3>1, <3>2 DEF Tears
  <2>2. h = r
    BY <1>5, <1>9, SeqEqual
  <2>3. c = r \o <<>>
    BY <1>2, <2>1, <2>2 DEF h
  <2> QED
    BY <2>3, ConcatEmptySeq
<1> QED
  BY <1>6, <1>7, <1>8, <1>9

\* A survivor of a crash extends what was synchronized, and its other records
\* are those written or damaged.
LEMMA SurvivorFacts ==
  ASSUME NEW file \in FileType, Extends(file.disk, file.mem), NEW c \in Survivors(file)
  PROVE  /\ c \in Seq(RecordType) /\ Extends(file.disk, c)
         /\ \A i \in 1 .. Len(c) : \/ i <= Len(file.mem) /\ c[i] = file.mem[i]
                                   \/ c[i] \in {Torn, Short}
         /\ file.disk = file.mem => c = file.mem
<1>1. file.mem \in Seq(RecordType) /\ file.disk \in Seq(RecordType)
  BY DEF FileType
<1>2. Len(file.mem) \in Nat /\ Len(file.disk) \in Nat
  BY <1>1, LenProperties
<1>3. PICK k \in Len(file.disk) .. Len(file.mem) : c \in Cut(file.mem, k)
  BY DEF Survivors
<1>4. k \in 0 .. Len(file.mem) /\ k \in Nat /\ Len(file.disk) <= k
  BY <1>2, <1>3
<1>5. /\ c \in Seq(RecordType) /\ k <= Len(c)
      /\ \A i \in 1 .. k : c[i] = file.mem[i]
      /\ \A i \in 1 .. Len(c) : i > k => c[i] \in {Torn, Short}
      /\ k = Len(file.mem) => c = file.mem
  BY <1>1, <1>3, <1>4, CutFacts
<1>6. Len(c) \in Nat
  BY <1>5, LenProperties
<1>7. Extends(file.disk, c)
  BY <1>2, <1>4, <1>5, <1>6 DEF Extends
<1>8. ASSUME file.disk = file.mem PROVE c = file.mem
  <2>1. k = Len(file.mem)
    BY <1>2, <1>4, <1>8
  <2> QED
    BY <1>5, <2>1
<1>9. \A i \in 1 .. Len(c) : \/ i <= Len(file.mem) /\ c[i] = file.mem[i]
                             \/ c[i] \in {Torn, Short}
  BY <1>2, <1>4, <1>5, <1>6
<1> QED
  BY <1>5, <1>7, <1>8, <1>9

\* A write that stopped half way: whole units of it are those to be written.
LEMMA PartFacts ==
  ASSUME NEW fs, NEW f \in File, NEW records \in Seq(RecordType),
         NEW p \in PartWritten(fs, f, records)
  PROVE  \E part \in Seq(RecordType) :
           /\ p = Write(fs, f, part)
           /\ \A i \in 1 .. Len(part) : part[i].kind = "unit" =>
                i <= Len(records) /\ part[i] = records[i]
<1>1. Len(records) \in Nat
  BY LenProperties
<1>2. PICK part \in UNION {Cut(records, k) : k \in 0 .. Len(records)} : p = Write(fs, f, part)
  BY DEF PartWritten
<1>3. PICK k \in 0 .. Len(records) : part \in Cut(records, k)
  BY <1>2
<1>4. /\ part \in Seq(RecordType) /\ k <= Len(part)
      /\ \A i \in 1 .. k : part[i] = records[i]
      /\ \A i \in 1 .. Len(part) : i > k => part[i] \in {Torn, Short}
  BY <1>3, CutFacts
<1>5. Len(part) \in Nat
  BY <1>4, LenProperties
<1>6. ASSUME NEW i \in 1 .. Len(part), part[i].kind = "unit"
      PROVE  i <= Len(records) /\ part[i] = records[i]
  <2>1. i <= k
    BY <1>3, <1>4, <1>5, <1>6, RecordFacts
  <2> QED
    BY <1>1, <1>3, <1>4, <1>5, <2>1
<1> QED
  BY <1>2, <1>4, <1>6

-----------------------------------------------------------------------------
\* What the inspector makes of the files.
LEMMA UnitsCount ==
  ASSUME NEW journal \in Seq(RecordType), NEW i \in Nat
  PROVE  /\ IsFiniteSet({k \in 2 .. i - 1 : journal[k].kind = "unit"})
         /\ UnitsBefore(journal, i) \in Nat
<1>1. IsFiniteSet(2 .. i - 1)
  BY FS_Interval
<1>2. {k \in 2 .. i - 1 : journal[k].kind = "unit"} \in SUBSET (2 .. i - 1)
  OBVIOUS
<1> QED
  BY <1>1, <1>2, FS_Subset, FS_CardinalityType DEF UnitsBefore

\* parse_journal accepts the same records when more of them follow.
LEMMA AcceptedGrows ==
  ASSUME NEW j \in Seq(RecordType), NEW j2 \in Seq(RecordType),
         NEW m \in Seq(RecordType), NEW m2 \in Seq(RecordType),
         Extends(j, j2), Len(m) <= Len(m2)
  PROVE  /\ \A k \in 1 .. Len(j) + 1 : UnitsBefore(j, k) = UnitsBefore(j2, k)
         /\ \A k \in 2 .. Len(j) : Accepted(j, m, k) => Accepted(j2, m2, k)
<1>1. Len(j) \in Nat /\ Len(j2) \in Nat /\ Len(m) \in Nat /\ Len(m2) \in Nat
  BY LenProperties
<1>2. \A k \in 1 .. Len(j) : j[k] = j2[k]
  BY DEF Extends
<1>3. ASSUME NEW k \in 1 .. Len(j) + 1 PROVE UnitsBefore(j, k) = UnitsBefore(j2, k)
  <2>1. \A x \in 2 .. k - 1 : j[x] = j2[x]
    BY <1>1, <1>2
  <2>2. {x \in 2 .. k - 1 : j[x].kind = "unit"} = {x \in 2 .. k - 1 : j2[x].kind = "unit"}
    BY <2>1
  <2> QED
    BY <2>2 DEF UnitsBefore
<1>4. ASSUME NEW k \in 2 .. Len(j), Accepted(j, m, k) PROVE Accepted(j2, m2, k)
  <2>1. j[k] = j2[k] /\ j[k - 1] = j2[k - 1] /\ UnitsBefore(j, k) = UnitsBefore(j2, k)
    BY <1>1, <1>2, <1>3
  <2>2. CASE j[k].kind = "unit" /\ j[k].n = UnitsBefore(j, k)
    BY <2>1, <2>2 DEF Accepted
  <2>3. CASE /\ j[k].kind = "commit" /\ j[k - 1].kind = "unit" /\ j[k].n = j[k - 1].n
             /\ j[k].n + 1 = UnitsBefore(j, k) /\ j[k].at = j[k - 1].at + 1 /\ j[k].at <= Len(m)
    <3>1. j[k].at \in Nat
      <4>1. j[k] \in RecordType
        BY <1>1, ElementOfSeq
      <4> QED
        BY <4>1 DEF RecordType, EntryType, MarkerType
    <3>2. j[k].at <= Len(m2)
      BY <1>1, <2>3, <3>1
    <3> QED
      BY <2>1, <2>3, <3>2 DEF Accepted
  <2> QED
    BY <1>4, <2>2, <2>3 DEF Accepted
<1> QED
  BY <1>3, <1>4

\* What is kept stays kept when the files grow.
LEMMA KeptGrows ==
  ASSUME NEW j \in Seq(RecordType), NEW j2 \in Seq(RecordType),
         NEW m \in Seq(RecordType), NEW m2 \in Seq(RecordType),
         Extends(j, j2), Len(m) <= Len(m2), NEW units, Kept(j, m, units)
  PROVE  Kept(j2, m2, units)
<1>1. CASE units = 0
  BY <1>1 DEF Kept
<1>2. CASE units # 0
  <2>1. PICK i \in 2 .. Len(j) : /\ j[i].kind = "commit" /\ j[i].n + 1 = units
                                 /\ \A k \in 2 .. i : Accepted(j, m, k)
    BY <1>2 DEF Kept
  <2>2. Len(j) \in Nat /\ Len(j2) \in Nat
    BY LenProperties
  <2>3. i \in 2 .. Len(j2) /\ j2[i] = j[i]
    BY <2>2 DEF Extends
  <2>4. \A k \in 2 .. i : Accepted(j2, m2, k)
    <3> TAKE k \in 2 .. i
    <3>1. k \in 2 .. Len(j)
      BY <2>2
    <3> QED
      BY <2>1, <3>1, AcceptedGrows
  <2> QED
    BY <2>1, <2>3, <2>4 DEF Kept
<1> QED
  BY <1>1, <1>2

\* A journal that keeps a number of units, over a media file that holds every
\* unit it names, is one inspect_recording reads at least so many units from.
LEMMA InspectKept ==
  ASSUME NEW j \in Seq(RecordType), NEW media \in FileType, Len(j) >= 1, j[1] = Header,
         media.at # "none", UnitsOnDisk(j, media.mem),
         NEW units \in Nat, Kept(j, media.mem, units)
  PROVE  /\ InspectJournal(j, media).state \in {"prepared_incomplete", "incomplete"}
         /\ InspectJournal(j, media).units >= units
<1>1. Len(j) \in Nat
  BY LenProperties
<1>2. j # <<>> /\ Head(j) = Header
  BY <1>1, EmptySeq
<1>3. MediaMatches(j, media.mem)
  <2> SUFFICES ASSUME NEW i \in CommitsRead(j, media.mem), NEW k \in 2 .. i, j[k].kind = "unit"
               PROVE  j[k].at = j[k].n /\ media.mem[j[k].at + 1] = Payload(j[k].n)
    BY DEF MediaMatches
  <2>1. i \in 2 .. Len(j)
    BY DEF CommitsRead
  <2>2. k \in 1 .. Len(j)
    BY <1>1, <2>1
  <2> QED
    BY <2>2 DEF UnitsOnDisk
<1>4. CASE CommitsRead(j, media.mem) = {}
  <2>1. units = 0
    BY <1>4 DEF Kept, CommitsRead
  <2>2. InspectJournal(j, media) = Verdict("prepared_incomplete", 0)
    BY <1>2, <1>3, <1>4, RecordFacts DEF InspectJournal
  <2> QED
    BY <2>1, <2>2 DEF Verdict
<1>5. CASE CommitsRead(j, media.mem) # {}
  <2> DEFINE counted == {k \in 2 .. Len(j) :
                           j[k].kind = "unit" /\ \E i \in CommitsRead(j, media.mem) : k < i}
  <2>1. InspectJournal(j, media) = Verdict("incomplete", Cardinality(counted))
    BY <1>2, <1>3, <1>5, RecordFacts DEF InspectJournal, CommittedCount
  <2>2. IsFiniteSet(counted) /\ Cardinality(counted) \in Nat
    <3>1. IsFiniteSet(2 .. Len(j))
      BY <1>1, FS_Interval
    <3>2. counted \in SUBSET (2 .. Len(j))
      OBVIOUS
    <3> QED
      BY <3>1, <3>2, FS_Subset, FS_CardinalityType
  <2>3. Cardinality(counted) >= units
    <3>1. CASE units = 0
      BY <2>2, <3>1
    <3>2. CASE units # 0
      <4>1. PICK i \in 2 .. Len(j) : /\ j[i].kind = "commit" /\ j[i].n + 1 = units
                                     /\ \A k \in 2 .. i : Accepted(j, media.mem, k)
        BY <3>2 DEF Kept
      <4>2. i \in CommitsRead(j, media.mem)
        BY <4>1 DEF CommitsRead
      <4>3. UnitsBefore(j, i) = units
        <5>1. Accepted(j, media.mem, i)
          BY <4>1
        <5> QED
          BY <4>1, <5>1 DEF Accepted
      <4> DEFINE before == {k \in 2 .. i - 1 : j[k].kind = "unit"}
      <4>4. before \in SUBSET counted
        <5> SUFFICES ASSUME NEW k \in before PROVE k \in counted
          OBVIOUS
        <5>1. k \in 2 .. Len(j) /\ k < i
          BY <1>1
        <5> QED
          BY <4>2, <5>1
      <4>5. Cardinality(before) <= Cardinality(counted)
        BY <2>2, <4>4, FS_Subset
      <4>6. Cardinality(before) = units
        BY <4>3 DEF UnitsBefore
      <4> HIDE DEF before, counted
      <4> QED
        BY <2>2, <4>5, <4>6
    <3> QED
      BY <3>1, <3>2
  <2> HIDE DEF counted
  <2> QED
    BY <2>1, <2>3 DEF Verdict
<1> QED
  BY <1>4, <1>5

\* The invariant gives the promise: after a crash the inspector still finds the
\* units of every group commit_group reported.
LEMMA CrashesKeepPromises == RecInv => CrashKeepsPromise
<1> SUFFICES ASSUME RecInv, pc = "crashed", prepared
             PROVE  /\ Inspect(files).state \in {"prepared_incomplete", "incomplete", "complete"}
                    /\ Inspect(files).units >= promised
  BY DEF CrashKeepsPromise
<1>1. /\ \A f \in File : files[f] \in FileType
      /\ promised \in Nat /\ committed \in Nat /\ promised <= committed
  BY DEF RecInv, RecTypes, RecCounts
<1>2. /\ "marker" \in File /\ "journal" \in File /\ "media" \in File /\ "sidecar" \in File
      /\ "marker" \in Companions /\ "media" \in Companions
  BY DEF File, Companions
<1>3. CASE files["marker"].at = "final"
  <2>1. Sealed
    BY <1>3 DEF RecInv, RecSealed, Closed
  <2>2. /\ files["marker"].mem = TheMarker /\ files["media"].mem = hashed
        /\ files["media"].at = "final" /\ files["sidecar"].mem = described
        /\ files["sidecar"].at = "final" /\ committed = Len(hashed)
    BY <2>1 DEF Sealed
  <2>3. /\ Len(TheMarker) = 1 /\ TheMarker[1].kind = "marker" /\ TheMarker[1].at = committed
        /\ TheMarker[1].media = hashed /\ TheMarker[1].sidecar = described
        /\ TheMarker[1].n = committed
    BY DEF TheMarker, Marker
  <2>4. Inspect(files) = Verdict("complete", committed)
    BY <1>3, <2>2, <2>3, Zenon DEF Inspect, InspectMarker
  <2> QED
    BY <1>1, <2>4 DEF Verdict
<1>4. CASE files["marker"].at # "final"
  <2>1. files["marker"].entry # "final"
    BY <1>2, <1>4 DEF RecInv, RecNames
  <2>2. files["journal"].at = "final" /\ files["media"].at # "none"
    BY <1>2, <2>1 DEF RecInv, RecNames
  <2> DEFINE j == files["journal"]
             md == files["media"]
  <2>3. /\ j \in FileType /\ md \in FileType /\ Extends(j.disk, j.mem) /\ Extends(md.disk, md.mem)
        /\ j.mem \in Seq(RecordType) /\ j.disk \in Seq(RecordType)
        /\ md.mem \in Seq(RecordType) /\ md.disk \in Seq(RecordType)
    BY <1>1, <1>2 DEF RecInv, RecJournal, RecMedia, FileType
  <2>4. /\ Len(j.disk) >= 1 /\ j.disk[1] = Header
        /\ UnitsOnDisk(j.mem, md.disk) /\ Kept(j.disk, md.disk, promised)
    BY <2>1 DEF RecInv, RecJournal
  <2> HIDE DEF j, md
  <2>5. Len(j.mem) \in Nat /\ Len(j.disk) \in Nat /\ Len(md.mem) \in Nat /\ Len(md.disk) \in Nat
    BY <2>3, LenProperties
  <2>6. Len(j.mem) >= 1 /\ j.mem[1] = Header /\ Len(md.disk) <= Len(md.mem)
    BY <2>3, <2>4, <2>5 DEF Extends
  <2>7. UnitsOnDisk(j.mem, md.mem)
    <3> SUFFICES ASSUME NEW k \in 1 .. Len(j.mem), j.mem[k].kind = "unit"
                 PROVE  /\ j.mem[k].at = j.mem[k].n /\ j.mem[k].n < Len(md.mem)
                        /\ md.mem[j.mem[k].n + 1] = Payload(j.mem[k].n)
      BY DEF UnitsOnDisk
    <3>1. /\ j.mem[k].at = j.mem[k].n /\ j.mem[k].n < Len(md.disk)
          /\ md.disk[j.mem[k].n + 1] = Payload(j.mem[k].n)
      BY <2>4 DEF UnitsOnDisk
    <3>2. j.mem[k].n \in Nat
      <4>1. j.mem[k] \in RecordType
        BY <2>3, ElementOfSeq
      <4> QED
        BY <4>1 DEF RecordType, EntryType, MarkerType
    <3>3. j.mem[k].n + 1 \in 1 .. Len(md.disk)
      BY <2>5, <3>1, <3>2
    <3> QED
      BY <2>3, <2>5, <3>1, <3>2, <3>3 DEF Extends
  <2>8. Kept(j.mem, md.mem, promised)
    BY <2>3, <2>4, <2>6, KeptGrows
  <2>9. /\ InspectJournal(j.mem, md).state \in {"prepared_incomplete", "incomplete"}
        /\ InspectJournal(j.mem, md).units >= promised
    <3>1. md.at # "none"
      BY <2>2 DEF md
    <3> QED
      BY <1>1, <2>3, <2>6, <2>7, <2>8, <3>1, InspectKept
  <2>10. Inspect(files) = InspectJournal(j.mem, md)
    BY <1>4, <2>2 DEF Inspect, j, md
  <2> QED
    BY <2>9, <2>10
<1> QED
  BY <1>3, <1>4

\* The invariant gives completion: what is called complete is all of it.
LEMMA CompletionsAreExact == RecInv => CompletionIsExact
<1> SUFFICES ASSUME RecInv PROVE CompletionIsExact
  OBVIOUS
<1>1. \A f \in File : files[f] \in FileType
  BY DEF RecInv, RecTypes
<1>2. TypeOK
  <2>1. \A f \in File : files[f].at \in Place /\ files[f].entry \in Place
    BY <1>1 DEF FileType
  <2>2. /\ hashed \in Seq(EntryType) /\ Len(hashed) \in Nat /\ queue \in Seq(Unit) /\ Len(queue) \in Nat
        /\ pending \in Seq(EntryType) /\ Len(pending) \in Nat
        /\ committed \in Nat /\ promised \in Nat /\ nextIndex \in Nat
    BY LenProperties, RecBounds DEF RecInv, RecTypes
  <2>3. Len(hashed) <= nextIndex
    BY <2>2 DEF RecInv, RecCounts
  <2>4. committed \in 0 .. Len(hashed) /\ promised \in 0 .. committed
    BY <2>2 DEF RecInv, RecCounts
  <2>5. \A i \in 1 .. Len(pending) : pending[i].n = Len(hashed) - Len(pending) + i - 1
    <3> TAKE i \in 1 .. Len(pending)
    <3>1. /\ pending[i] = AccessUnitRecord(Len(hashed) - Len(pending) + i - 1,
                                           Len(hashed) - Len(pending) + i - 1)
      BY DEF RecInv, RecCounts
    <3> QED
      BY <3>1 DEF AccessUnitRecord, Entry
  <2>6. \A i \in 1 .. Len(hashed) : hashed[i] = Payload(i - 1)
    BY DEF RecInv, RecCounts
  <2> QED
    BY <2>1, <2>3, <2>4, <2>5, <2>6 DEF TypeOK, RecInv, RecTypes
<1>3. ASSUME pc = "crashed", completed PROVE files["marker"].at = "final"
  <2>1. files["marker"].entry = "final" /\ "marker" \in Companions
    BY <1>3 DEF RecInv, RecNames, Companions
  <2> QED
    BY <2>1 DEF RecInv, RecNames
<1>4. ASSUME pc = "crashed", files["marker"].at = "final"
      PROVE  /\ Inspect(files).state = "complete" /\ publishRequested
             /\ Inspect(files).units = nextIndex
             /\ files["media"].mem = [i \in 1 .. nextIndex |-> Payload(i - 1)]
  <2>1. Sealed
    BY <1>4 DEF RecInv, RecSealed, Closed
  <2>2. /\ files["marker"].mem = TheMarker /\ files["media"].mem = hashed
        /\ files["media"].at = "final" /\ files["sidecar"].mem = described
        /\ files["sidecar"].at = "final" /\ committed = Len(hashed) /\ committed = nextIndex
        /\ publishRequested
    BY <2>1 DEF Sealed
  <2>3. /\ Len(TheMarker) = 1 /\ TheMarker[1].kind = "marker" /\ TheMarker[1].at = committed
        /\ TheMarker[1].media = hashed /\ TheMarker[1].sidecar = described
        /\ TheMarker[1].n = committed
    BY DEF TheMarker, Marker
  <2>4. Inspect(files) = Verdict("complete", committed)
    BY <1>4, <2>2, <2>3, Zenon DEF Inspect, InspectMarker
  <2>5. hashed = [i \in 1 .. nextIndex |-> Payload(i - 1)]
    <3>1. hashed \in Seq(EntryType)
      BY DEF RecInv, RecTypes
    <3>2. hashed \in [1 .. Len(hashed) -> EntryType]
      BY <3>1, LenProperties
    <3>3. \A i \in 1 .. Len(hashed) : hashed[i] = Payload(i - 1)
      BY DEF RecInv, RecCounts
    <3> QED
      BY <2>2, <3>2, <3>3
  <2> QED
    BY <2>2, <2>4, <2>5 DEF Verdict
<1>5. ASSUME files["marker"].at # "final" PROVE Inspect(files).state # "complete"
  BY <1>5 DEF Inspect, InspectJournal, Verdict
<1> QED
  BY <1>2, <1>3, <1>4, <1>5 DEF CompletionIsExact

-----------------------------------------------------------------------------
\* The steps of the owner, and those of the worker between system calls.
LEMMA StepNames ==
  /\ \A x \in Running : x \notin Closed \cup Preparing \cup Publishing \cup {"exited", "crashed"}
  /\ \A x \in Publishing : x \notin Closed \cup Preparing \cup {"exited", "crashed"}
  /\ \A x \in Preparing : x \notin Closed \cup {"exited", "crashed"}
  /\ Running \cup Publishing \cup Preparing \cup Closed \cup {"exited", "crashed"} = Steps
BY DEF Running, Publishing, Preparing, Closed, Committing, Steps

\* A step that leaves the files and the records alone keeps what is said of them.
LEMMA KeepsFiles ==
  ASSUME RecInv, pc' = pc, failed => failed', failed' \in BOOLEAN,
         UNCHANGED <<files, pending, hashed, described, committed, promised, prepared, completed>>,
         \/ UNCHANGED <<nextIndex, publishRequested>>
         \/ files["marker"].at # "final"
  PROVE  RecNames' /\ RecMedia' /\ RecSidecar' /\ RecMarker' /\ RecSealed' /\ RecJournal' /\ RecHealthy'
<1>1. RecNames'
  BY DEF RecInv, RecNames
<1>2. RecMedia'
  BY DEF RecInv, RecMedia
<1>3. RecSidecar'
  BY DEF RecInv, RecSidecar
<1>4. RecMarker'
  BY DEF RecInv, RecMarker, TheMarker
<1>5. RecSealed'
  BY DEF RecInv, RecSealed, Sealed, TheMarker
<1>6. RecJournal'
  BY DEF RecInv, RecJournal
<1>7. RecHealthy'
  BY DEF RecInv, RecHealthy
<1> QED
  BY <1>1, <1>2, <1>3, <1>4, <1>5, <1>6, <1>7

\* What the counts of the sequences are.
LEMMA RecLengths ==
  ASSUME RecTypes
  PROVE  /\ Len(hashed) \in Nat /\ Len(queue) \in Nat /\ Len(pending) \in Nat
         /\ Len(described) \in Nat /\ nextIndex \in Nat /\ nextIndex <= MaxUnits
         /\ committed \in Nat /\ promised \in Nat
         /\ \A f \in File : /\ files[f].mem \in Seq(RecordType) /\ Len(files[f].mem) \in Nat
                            /\ files[f].disk \in Seq(RecordType) /\ Len(files[f].disk) \in Nat
<1>1. /\ Len(hashed) \in Nat /\ Len(queue) \in Nat /\ Len(pending) \in Nat
      /\ Len(described) \in Nat
  BY LenProperties DEF RecTypes
<1>2. nextIndex \in Nat /\ nextIndex <= MaxUnits /\ committed \in Nat /\ promised \in Nat
  BY RecBounds DEF RecTypes
<1>3. \A f \in File : files[f].mem \in Seq(RecordType) /\ files[f].disk \in Seq(RecordType)
  BY DEF RecTypes, FileType
<1>4. \A f \in File : Len(files[f].mem) \in Nat /\ Len(files[f].disk) \in Nat
  BY <1>3, LenProperties
<1> QED
  BY <1>1, <1>2, <1>3, <1>4

\* An empty queue or pending group has length 0.
LEMMA EmptyFacts ==
  /\ <<>> \in Seq(Unit) /\ <<>> \in Seq(EntryType) /\ <<>> \in Seq(RecordType) /\ Len(<<>>) = 0
  /\ \A s \in Seq(RecordType) : Len(s) = 0 <=> s = <<>>
  /\ \A s \in Seq(EntryType) : Len(s) = 0 <=> s = <<>>
  /\ \A s \in Seq(Unit) : Len(s) = 0 <=> s = <<>>
BY EmptySeq

\* enqueue accepts a unit.
LEMMA EnqueueStep ==
  ASSUME RecInv, NEW keyframe \in BOOLEAN, Enqueue(keyframe) PROVE RecInv'
<1> DEFINE unit == [n |-> nextIndex, keyframe |-> keyframe]
<1>1. /\ caller = "idle" /\ prepared /\ pc # "crashed" /\ ~failed /\ nextIndex < MaxUnits
      /\ Len(queue) < QueueLimit /\ queue' = Append(queue, unit) /\ nextIndex' = nextIndex + 1
      /\ UNCHANGED <<files, pc, resume, seen, pending, hashed, described, committed, promised, wall,
                     failed, stopRequested, publishRequested, commitPendingOnFailure, completed,
                     prepared, caller, faults>>
  BY DEF Enqueue, Admitting, Holding, local, group, flags
<1>2. ~publishRequested /\ ~seen.publish /\ pc \notin Publishing
      /\ ~(pc \in Committing /\ resume = "publish")
  BY <1>1 DEF RecInv, RecFlags
<1>3. files["marker"].at # "final"
  BY <1>1, <1>2 DEF RecInv, RecSealed, Sealed, RecFlags
<1>4. unit \in Unit
  BY <1>1, RecBounds DEF RecInv, RecTypes, Unit
<1> HIDE DEF unit
<1>5. /\ queue' \in Seq(Unit) /\ Len(queue') = Len(queue) + 1 /\ Len(queue) \in Nat
      /\ \A i \in 1 .. Len(queue) : queue'[i] = queue[i]
      /\ queue'[Len(queue) + 1] = unit
  BY <1>1, <1>4, AppendProperties, LenProperties DEF RecInv, RecTypes
<1>6. /\ Len(hashed) \in Nat /\ nextIndex \in Nat
  BY RecLengths DEF RecInv
<1>7. RecTypes'
  <2>1. nextIndex' \in 0 .. MaxUnits
    BY <1>1, <1>6, RecBounds
  <2>2. Len(queue') <= QueueLimit
    BY <1>1, <1>5, RecBounds
  <2> QED
    BY <1>1, <1>5, <2>1, <2>2 DEF RecInv, RecTypes
<1>8. RecCounts'
  <2>1. Len(hashed) + Len(queue) = nextIndex
    BY <1>1 DEF RecInv, RecCounts
  <2>2. Len(hashed') + Len(queue') = nextIndex'
    BY <1>1, <1>5, <1>6, <2>1
  <2>3. \A i \in 1 .. Len(queue') : queue'[i].n = Len(hashed) + i - 1
    <3> TAKE i \in 1 .. Len(queue')
    <3>1. CASE i \in 1 .. Len(queue)
      BY <1>5, <3>1 DEF RecInv, RecCounts
    <3>2. CASE i = Len(queue) + 1
      <4>1. queue'[i].n = nextIndex
        BY <1>5, <3>2 DEF unit
      <4>2. Len(hashed) + i - 1 = nextIndex
        BY <1>5, <1>6, <2>1, <3>2
      <4> QED
        BY <4>1, <4>2
    <3> QED
      BY <1>5, <3>1, <3>2
  <2>4. Len(hashed') + Len(queue') <= nextIndex'
    BY <1>1, <1>6, <2>2
  <2> QED
    BY <1>1, <2>2, <2>3, <2>4 DEF RecInv, RecCounts
<1>9. RecFlags'
  BY <1>1, <1>2 DEF RecInv, RecFlags
<1> QED
  BY <1>1, <1>3, <1>7, <1>8, <1>9, KeepsFiles DEF RecInv, RecTypes

\* enqueue refuses a unit that is invalid, or that the queue has no place for.
LEMMA OwnerFailsStep == ASSUME RecInv, EnqueueInvalid \/ EnqueueOverload PROVE RecInv'
<1>1. /\ caller = "idle" /\ prepared /\ pc # "crashed" /\ ~failed
      /\ failed' = TRUE /\ commitPendingOnFailure' = TRUE /\ queue' \in {queue, <<>>}
      /\ UNCHANGED <<files, pc, resume, seen, nextIndex, pending, hashed, described, committed,
                     promised, wall, stopRequested, publishRequested, completed,
                     prepared, caller, faults>>
  BY DEF EnqueueInvalid, EnqueueOverload, Admitting, Holding, local, group
<1>2. ~publishRequested /\ ~seen.publish /\ pc \notin Publishing
      /\ ~(pc \in Committing /\ resume = "publish")
  BY <1>1 DEF RecInv, RecFlags
<1>3. /\ queue' \in Seq(Unit) /\ Len(queue') \in Nat /\ Len(queue') <= Len(queue)
      /\ \A i \in 1 .. Len(queue') : queue'[i] = queue[i] /\ i \in 1 .. Len(queue)
  <2>1. Len(queue) \in Nat /\ queue \in Seq(Unit)
    BY RecLengths DEF RecInv, RecTypes
  <2>2. CASE queue' = queue
    BY <2>1, <2>2
  <2>3. CASE queue' = <<>>
    BY <2>1, <2>3, EmptyFacts
  <2> QED
    BY <1>1, <2>2, <2>3
<1>4. /\ Len(hashed) \in Nat /\ nextIndex \in Nat /\ Len(queue) \in Nat
  BY RecLengths DEF RecInv
<1>5. RecTypes'
  <2>1. Len(queue') <= QueueLimit
    BY <1>3, <1>4, RecBounds DEF RecInv, RecTypes
  <2> QED
    BY <1>1, <1>3, <2>1 DEF RecInv, RecTypes
<1>6. RecCounts'
  <2>1. Len(hashed) + Len(queue') <= nextIndex
    <3>1. Len(hashed) + Len(queue) <= nextIndex
      BY DEF RecInv, RecCounts
    <3> QED
      BY <1>3, <1>4, <3>1
  <2>2. \A i \in 1 .. Len(queue') : queue'[i].n = Len(hashed) + i - 1
    BY <1>3 DEF RecInv, RecCounts
  <2> QED
    BY <1>1, <2>1, <2>2 DEF RecInv, RecCounts
<1>7. RecFlags'
  BY <1>1, <1>2 DEF RecInv, RecFlags
<1> QED
  BY <1>1, <1>5, <1>6, <1>7, KeepsFiles DEF RecInv

\* finalize and the destructor.
LEMMA EndStep == ASSUME RecInv, Finalize \/ Destroy PROVE RecInv'
<1>1. /\ caller = "idle" /\ prepared /\ pc # "crashed"
      /\ caller' = "joining" /\ failed' \in BOOLEAN /\ (failed => failed')
      /\ failed' \/ failed' = failed
      /\ stopRequested' = TRUE /\ publishRequested' \in BOOLEAN
      /\ publishRequested' => ~failed'
      /\ UNCHANGED <<files, pc, resume, seen, queue, nextIndex, pending, hashed, described, committed,
                     promised, wall, commitPendingOnFailure, completed, prepared, faults>>
  <2>1. failed \in BOOLEAN /\ publishRequested \in BOOLEAN /\ (publishRequested => caller # "idle")
    BY DEF RecInv, RecTypes, RecFlags
  <2>2. CASE Finalize
    <3>1. (failed \/ nextIndex = 0) \in BOOLEAN
      OBVIOUS
    <3> QED
      BY <2>1, <2>2, <3>1 DEF Finalize, Holding, local, group
  <2>3. CASE Destroy
    BY <2>1, <2>3 DEF Destroy, Holding, local, group
  <2> QED
    BY <2>2, <2>3
<1>2. ~publishRequested /\ ~seen.publish /\ pc \notin Publishing
      /\ ~(pc \in Committing /\ resume = "publish")
  BY <1>1 DEF RecInv, RecFlags
<1>3. files["marker"].at # "final"
  BY <1>1, <1>2 DEF RecInv, RecSealed, Sealed, RecFlags
<1>4. RecTypes'
  BY <1>1 DEF RecInv, RecTypes
<1>5. RecCounts'
  BY <1>1 DEF RecInv, RecCounts
<1>6. RecFlags'
  BY <1>1, <1>2 DEF RecInv, RecFlags
<1> QED
  BY <1>1, <1>3, <1>4, <1>5, <1>6, KeepsFiles DEF RecInv

\* The steps that touch neither the records nor the files.
LEMMA QuietStep == ASSUME RecInv, Return \/ Tick \/ UNCHANGED vars PROVE RecInv'
<1>1. /\ UNCHANGED <<files, pc, resume, seen, queue, nextIndex, pending, hashed, described, committed,
                     promised, failed, stopRequested, publishRequested, commitPendingOnFailure,
                     completed, prepared, faults>>
      /\ caller' \in {"idle", "joining", "returned"} /\ (caller # "idle" => caller' # "idle")
      /\ (caller = "idle" => caller' = "idle")
      /\ wall' \in {"fresh", "due", "late"}
  <2>1. caller \in {"idle", "joining", "returned"} /\ wall \in {"fresh", "due", "late"}
    BY DEF RecInv, RecTypes
  <2>2. CASE Return
    BY <2>1, <2>2 DEF Return, local, group, flags
  <2>3. CASE Tick
    BY <2>1, <2>3 DEF Tick, local, flags
  <2>4. CASE UNCHANGED vars
    BY <2>1, <2>4 DEF vars, local, group, flags
  <2> QED
    BY <2>2, <2>3, <2>4
<1>2. RecTypes'
  BY <1>1 DEF RecInv, RecTypes
<1>3. RecCounts'
  BY <1>1 DEF RecInv, RecCounts
<1>4. RecFlags'
  BY <1>1 DEF RecInv, RecFlags
<1>5. failed \in BOOLEAN
  BY DEF RecInv, RecTypes
<1> QED
  BY <1>1, <1>2, <1>3, <1>4, <1>5, KeepsFiles DEF RecInv

\* Where commit_group returns to.
LEMMA AfterCommitFacts ==
  ASSUME NEW from \in {"loop", "timer", "stopping", "publish"}, NEW passed \in BOOLEAN
  PROVE  /\ AfterCommit(from, passed) \in {"loop", "stopping", "decide", "suffix", "exited"}
         /\ from = "publish" => AfterCommit(from, passed) = IF passed THEN "suffix" ELSE "exited"
         /\ from # "publish" => AfterCommit(from, passed) \in {"loop", "stopping", "decide"}
<1>1. CASE from = "loop"
  BY <1>1 DEF AfterCommit
<1>2. CASE from = "timer"
  BY <1>2 DEF AfterCommit
<1>3. CASE from = "stopping"
  BY <1>3 DEF AfterCommit
<1>4. CASE from = "publish"
  BY <1>4 DEF AfterCommit
<1> QED
  BY <1>1, <1>2, <1>3, <1>4

\* The worker goes from one of its own steps to another.
LEMMA MoveStep ==
  ASSUME RecInv, NoUnit \/ Stopping \/ Decide PROVE RecInv'
<1>1. /\ pc \in {"loop", "stopping", "decide"} /\ resume' \in {"loop", "timer", "stopping", "publish"}
      /\ pc' \in {"loop", "stopping", "decide", "syncMedia", "suffix", "exited"}
      /\ pc' = "syncMedia" => pending # <<>>
      /\ pc' = "syncMedia" /\ resume' = "publish" => seen'.publish /\ ~failed
      /\ pc' = "suffix" => pending = <<>> /\ seen'.publish /\ ~failed
      /\ seen' \in [stop : BOOLEAN, publish : BOOLEAN, commit : BOOLEAN]
      /\ seen'.publish => seen.publish \/ (publishRequested /\ ~failed /\ queue = <<>>)
      /\ UNCHANGED <<files, queue, nextIndex, pending, hashed, described, committed,
                     promised, wall, failed, stopRequested, publishRequested, commitPendingOnFailure,
                     completed, prepared, caller, faults>>
  <2>1. /\ resume \in {"loop", "timer", "stopping", "publish"}
        /\ seen \in [stop : BOOLEAN, publish : BOOLEAN, commit : BOOLEAN]
        /\ failed \in BOOLEAN /\ stopRequested \in BOOLEAN /\ publishRequested \in BOOLEAN
        /\ commitPendingOnFailure \in BOOLEAN
    BY DEF RecInv, RecTypes
  <2>2. CASE NoUnit
    <3>1. /\ pc = "loop" /\ (failed \/ queue = <<>>)
          /\ seen' = [stop |-> failed \/ stopRequested, publish |-> publishRequested /\ ~failed,
                      commit |-> failed /\ commitPendingOnFailure]
      BY <2>2 DEF NoUnit
    <3>2. /\ seen' \in [stop : BOOLEAN, publish : BOOLEAN, commit : BOOLEAN]
          /\ seen'.publish <=> publishRequested /\ ~failed
      <4>1. /\ (failed \/ stopRequested) \in BOOLEAN /\ (publishRequested /\ ~failed) \in BOOLEAN
            /\ (failed /\ commitPendingOnFailure) \in BOOLEAN
        OBVIOUS
      <4> QED
        BY <3>1, <4>1
    <3>3. CASE pending # <<>> /\ wall # "fresh"
      <4>1. pc' = "syncMedia" /\ resume' = "timer"
        BY <2>2, <3>3 DEF NoUnit
      <4> QED
        BY <2>1, <2>2, <3>1, <3>2, <3>3, <4>1 DEF NoUnit, group, flags
    <3>4. CASE ~(pending # <<>> /\ wall # "fresh")
      <4>1. pc' \in {"stopping", "loop"} /\ resume' = resume
        BY <2>2, <3>4 DEF NoUnit
      <4> QED
        BY <2>1, <2>2, <3>1, <3>2, <4>1 DEF NoUnit, group, flags
    <3> QED
      BY <3>3, <3>4
  <2>3. CASE Stopping
    <3>1. pc = "stopping" /\ seen' = seen
      BY <2>3 DEF Stopping
    <3>2. \/ pc' = "decide" /\ resume' \in {"stopping", resume}
          \/ pc' = "syncMedia" /\ pending # <<>> /\ resume' = "stopping"
      <4>1. AfterCommit("stopping", TRUE) = "decide"
        BY DEF AfterCommit
      <4> QED
        BY <2>3, <4>1 DEF Stopping, CommitFrom
    <3> QED
      BY <2>1, <2>3, <3>1, <3>2 DEF Stopping, group, flags
  <2>4. CASE Decide
    <3>1. pc = "decide" /\ seen' = seen
      BY <2>4 DEF Decide
    <3>2. \/ pc' = "exited" /\ resume' = resume
          \/ seen.publish /\ ~failed /\ resume' = "publish"
             /\ pc' = IF pending = <<>> THEN "suffix" ELSE "syncMedia"
      <4>1. AfterCommit("publish", TRUE) = "suffix"
        BY DEF AfterCommit
      <4> QED
        BY <2>4, <4>1 DEF Decide, CommitFrom
    <3> QED
      BY <2>1, <2>4, <3>1, <3>2 DEF Decide, group, flags
  <2> QED
    BY <2>2, <2>3, <2>4
<1>2. pc \in Running /\ pc \notin Committing /\ pc \notin Publishing /\ prepared
      /\ files["marker"].at # "final"
  BY <1>1 DEF RecInv, RecFlags, RecNames, Running, Committing, Publishing
<1>3. /\ pc' \in Steps /\ pc' \notin Closed \cup Preparing
      /\ pc' \in Committing => pc' = "syncMedia"
      /\ pc' \in Publishing => pc' = "suffix"
      /\ pc' \in Running => pc' \in {"loop", "stopping", "decide", "syncMedia"}
  BY <1>1 DEF Steps, Closed, Preparing, Committing, Publishing, Running
<1>4. RecTypes'
  BY <1>1, <1>3 DEF RecInv, RecTypes
<1>5. RecCounts'
  BY <1>1, <1>2, <1>3 DEF RecInv, RecCounts
<1>6. RecFlags'
  <2>1. seen'.publish => publishRequested /\ Len(hashed) = nextIndex
    <3>1. CASE seen.publish
      BY <3>1 DEF RecInv, RecFlags
    <3>2. CASE publishRequested /\ ~failed /\ queue = <<>>
      <4>1. Len(hashed) + Len(queue) = nextIndex /\ Len(queue) = 0 /\ Len(hashed) \in Nat
        BY <3>2, RecLengths, EmptyFacts DEF RecInv, RecCounts
      <4> QED
        BY <3>2, <4>1
    <3> QED
      BY <1>1, <3>1, <3>2
  <2> QED
    BY <1>1, <1>2, <1>3, <2>1 DEF RecInv, RecFlags
<1>7. RecNames'
  BY <1>1, <1>2, <1>3 DEF RecInv, RecNames, Closed, Preparing
<1>8. RecMedia'
  <2>1. pc' \notin Committing \ {"syncMedia"} /\ pc' \notin Preparing
    BY <1>3
  <2> QED
    BY <1>1, <1>2, <2>1 DEF RecInv, RecMedia
<1>9. RecSidecar'
  <2>1. /\ pc' \in Running \cup {"suffix"} => pc' # "syncSidecar"
        /\ pc # "syncSidecar" /\ pc' # "syncSuffix" /\ pc' \notin Publishing \ {"suffix", "syncSuffix"}
        /\ pc' \notin Preparing
    BY <1>1, <1>3
  <2> QED
    BY <1>1, <1>2, <2>1 DEF RecInv, RecSidecar
<1>10. RecMarker'
  BY <1>1, <1>2, <1>3 DEF RecInv, RecMarker
<1>11. RecSealed'
  BY <1>1, <1>2 DEF RecSealed
<1>12. RecJournal'
  <2>1. pc' \notin {"header", "syncHeader", "syncPrepared"}
    BY <1>1
  <2> QED
    BY <1>1, <2>1 DEF RecInv, RecJournal
<1>13. RecHealthy'
  <2>1. pc \notin {"syncJournal", "sidecar", "syncSidecar"}
        /\ pc' \notin {"syncJournal", "sidecar", "syncSidecar"}
    BY <1>1
  <2> QED
    BY <1>1, <1>2, <2>1 DEF RecInv, RecHealthy
<1> QED
  BY <1>4, <1>5, <1>6, <1>7, <1>8, <1>9, <1>10, <1>11, <1>12, <1>13 DEF RecInv

\* The system calls: which part of which file changes.
LEMMA SyncFacts ==
  ASSUME NEW fs \in [File -> FileType], NEW f \in File
  PROVE  /\ Sync(fs, f) \in [File -> FileType]
         /\ \A g \in File : g # f => Sync(fs, f)[g] = fs[g]
         /\ Sync(fs, f)[f].mem = fs[f].mem /\ Sync(fs, f)[f].disk = fs[f].mem
         /\ Sync(fs, f)[f].at = fs[f].at /\ Sync(fs, f)[f].entry = fs[f].entry
<1>1. fs[f] \in FileType
  OBVIOUS
<1>2. /\ fs[f].mem \in Seq(RecordType) /\ fs[f].disk \in Seq(RecordType)
      /\ fs[f].at \in Place /\ fs[f].entry \in Place
  BY <1>1 DEF FileType
<1> DEFINE r == [fs[f] EXCEPT !.disk = fs[f].mem]
<1>3. /\ r \in FileType /\ r.mem = fs[f].mem /\ r.disk = fs[f].mem
      /\ r.at = fs[f].at /\ r.entry = fs[f].entry
  BY <1>1, <1>2 DEF FileType
<1>4. Sync(fs, f) = [fs EXCEPT ![f] = r]
  BY DEF Sync
<1> HIDE DEF r
<1> QED
  BY <1>3, <1>4

\* write_all.
LEMMA WriteFacts ==
  ASSUME NEW fs \in [File -> FileType], NEW f \in File, NEW s \in Seq(RecordType)
  PROVE  /\ Write(fs, f, s) \in [File -> FileType]
         /\ \A g \in File : g # f => Write(fs, f, s)[g] = fs[g]
         /\ Write(fs, f, s)[f].mem = fs[f].mem \o s /\ Write(fs, f, s)[f].disk = fs[f].disk
         /\ Write(fs, f, s)[f].at = fs[f].at /\ Write(fs, f, s)[f].entry = fs[f].entry
         /\ fs[f].mem \o s \in Seq(RecordType) /\ Extends(fs[f].mem, fs[f].mem \o s)
<1>1. fs[f] \in FileType
  OBVIOUS
<1>2. /\ fs[f].mem \in Seq(RecordType) /\ fs[f].disk \in Seq(RecordType)
      /\ fs[f].at \in Place /\ fs[f].entry \in Place
  BY <1>1 DEF FileType
<1>3. fs[f].mem \o s \in Seq(RecordType)
  BY <1>2, ConcatProperties
<1> DEFINE r == [fs[f] EXCEPT !.mem = fs[f].mem \o s]
<1>4. /\ r \in FileType /\ r.mem = fs[f].mem \o s /\ r.disk = fs[f].disk
      /\ r.at = fs[f].at /\ r.entry = fs[f].entry
  BY <1>1, <1>2, <1>3 DEF FileType
<1>5. Write(fs, f, s) = [fs EXCEPT ![f] = r]
  BY DEF Write
<1>6. Extends(fs[f].mem, fs[f].mem \o s)
  BY <1>2, ExtendsFacts
<1> HIDE DEF r
<1> QED
  BY <1>3, <1>4, <1>5, <1>6

\* rename_noreplace.
LEMMA RenameFacts ==
  ASSUME NEW fs \in [File -> FileType], NEW f \in File
  PROVE  /\ Rename(fs, f) \in [File -> FileType]
         /\ \A g \in File : g # f => Rename(fs, f)[g] = fs[g]
         /\ Rename(fs, f)[f].mem = fs[f].mem /\ Rename(fs, f)[f].disk = fs[f].disk
         /\ Rename(fs, f)[f].at = "final" /\ Rename(fs, f)[f].entry = fs[f].entry
<1>1. fs[f] \in FileType
  OBVIOUS
<1> DEFINE r == [fs[f] EXCEPT !.at = "final"]
<1>2. /\ r \in FileType /\ r.mem = fs[f].mem /\ r.disk = fs[f].disk
      /\ r.at = "final" /\ r.entry = fs[f].entry
  BY <1>1 DEF FileType, Place
<1>3. Rename(fs, f) = [fs EXCEPT ![f] = r]
  BY DEF Rename
<1> HIDE DEF r
<1> QED
  BY <1>2, <1>3

\* unlink_if_present.
LEMMA UnlinkFacts ==
  ASSUME NEW fs \in [File -> FileType]
  PROVE  /\ UnlinkJournal(fs) \in [File -> FileType]
         /\ \A g \in File : g # "journal" => UnlinkJournal(fs)[g] = fs[g]
         /\ UnlinkJournal(fs)["journal"].mem = fs["journal"].mem
         /\ UnlinkJournal(fs)["journal"].disk = fs["journal"].disk
         /\ UnlinkJournal(fs)["journal"].at = "none"
         /\ UnlinkJournal(fs)["journal"].entry = fs["journal"].entry
<1>1. "journal" \in File /\ fs["journal"] \in FileType
  BY DEF File
<1> DEFINE r == [fs["journal"] EXCEPT !.at = "none"]
<1>2. /\ r \in FileType /\ r.mem = fs["journal"].mem /\ r.disk = fs["journal"].disk
      /\ r.at = "none" /\ r.entry = fs["journal"].entry
  BY <1>1 DEF FileType, Place
<1>3. UnlinkJournal(fs) = [fs EXCEPT !["journal"] = r]
  BY DEF UnlinkJournal
<1> HIDE DEF r
<1> QED
  BY <1>1, <1>2, <1>3

\* sync_file of the directory.
LEMMA SyncDirectoryFacts ==
  ASSUME NEW fs \in [File -> FileType]
  PROVE  /\ SyncDirectory(fs) \in [File -> FileType]
         /\ \A g \in File :
              /\ SyncDirectory(fs)[g].mem = fs[g].mem /\ SyncDirectory(fs)[g].disk = fs[g].disk
              /\ SyncDirectory(fs)[g].at = fs[g].at /\ SyncDirectory(fs)[g].entry = fs[g].at
<1>1. ASSUME NEW g \in File
      PROVE  /\ [fs[g] EXCEPT !.entry = fs[g].at] \in FileType
             /\ [fs[g] EXCEPT !.entry = fs[g].at].mem = fs[g].mem
             /\ [fs[g] EXCEPT !.entry = fs[g].at].disk = fs[g].disk
             /\ [fs[g] EXCEPT !.entry = fs[g].at].at = fs[g].at
             /\ [fs[g] EXCEPT !.entry = fs[g].at].entry = fs[g].at
  <2>1. fs[g] \in FileType
    OBVIOUS
  <2>2. fs[g].at \in Place
    BY <2>1 DEF FileType
  <2> QED
    BY <2>1, <2>2 DEF FileType
<1> QED
  BY <1>1 DEF SyncDirectory

\* A file that is not there.
LEMMA NoFileFacts ==
  /\ NoFile \in FileType /\ NoFile.mem = <<>> /\ NoFile.disk = <<>>
  /\ NoFile.at = "none" /\ NoFile.entry = "none"
<1>1. <<>> \in Seq(RecordType)
  BY EmptyFacts
<1> QED
  BY <1>1 DEF NoFile, FileType, Place

\* open_new of all the files.
LEMMA CreateFacts ==
  ASSUME NEW created \in SUBSET File
  PROVE  LET fs == Create([f \in File |-> NoFile], created)
         IN  /\ fs \in [File -> FileType]
             /\ \A g \in File :
                  /\ fs[g].mem = <<>> /\ fs[g].disk = <<>> /\ fs[g].entry = "none"
                  /\ fs[g].at = IF g \in created THEN (IF g = "journal" THEN "final" ELSE "tmp")
                                ELSE "none"
<1> DEFINE none == [f \in File |-> NoFile]
<1> DEFINE r(g) == IF g \in created
                     THEN [NoFile EXCEPT !.at = IF g = "journal" THEN "final" ELSE "tmp"]
                     ELSE NoFile
<1>1. Create(none, created) = [g \in File |-> r(g)]
  BY DEF Create
<1>2. ASSUME NEW g \in File
      PROVE  /\ r(g) \in FileType /\ r(g).mem = <<>> /\ r(g).disk = <<>> /\ r(g).entry = "none"
             /\ r(g).at = IF g \in created THEN (IF g = "journal" THEN "final" ELSE "tmp")
                          ELSE "none"
  <2>1. CASE g \notin created
    BY <2>1, NoFileFacts
  <2>2. CASE g \in created /\ g = "journal"
    BY <2>2, NoFileFacts DEF FileType, Place
  <2>3. CASE g \in created /\ g # "journal"
    BY <2>3, NoFileFacts DEF FileType, Place
  <2> QED
    BY <2>1, <2>2, <2>3
<1> HIDE DEF r
<1> QED
  BY <1>1, <1>2

\* The contents of the files and of the memory of the worker are records.
LEMMA EntriesAreRecords ==
  /\ \A s \in Seq(EntryType) : s \in Seq(RecordType)
  /\ \A e \in EntryType : e \in RecordType /\ <<e>> \in Seq(RecordType) /\ <<e>> \in Seq(EntryType)
<1>1. EntryType \subseteq RecordType
  BY DEF RecordType
<1>2. \A s \in Seq(EntryType) : s \in Seq(RecordType)
  BY <1>1, SeqMonotonic
<1>3. \A e \in EntryType : <<e>> \in Seq(EntryType)
  OBVIOUS
<1> QED
  BY <1>1, <1>2, <1>3

\* The completion marker is a record.
LEMMA MarkerFacts ==
  ASSUME RecTypes
  PROVE  /\ TheMarker \in Seq(RecordType) /\ Len(TheMarker) = 1
         /\ SidecarSuffix(committed) \in EntryType
         /\ <<SidecarSuffix(committed)>> \in Seq(RecordType)
<1>1. committed \in Nat /\ hashed \in Seq(EntryType) /\ described \in Seq(EntryType)
  BY DEF RecTypes
<1>2. Marker(committed, committed, hashed, described) \in MarkerType
  BY <1>1 DEF Marker, MarkerType
<1>3. Marker(committed, committed, hashed, described) \in RecordType
  BY <1>2 DEF RecordType
<1>4. SidecarSuffix(committed) \in EntryType
  BY <1>1, RecordFacts
<1>5. <<SidecarSuffix(committed)>> \in Seq(RecordType)
  BY <1>4, EntriesAreRecords
<1> QED
  BY <1>3, <1>4, <1>5 DEF TheMarker

\* Nothing is open yet, or a recording is being prepared.
LEMMA NotPrepared ==
  ASSUME RecInv, pc \in Closed \cup Preparing
  PROVE  /\ ~prepared /\ ~failed /\ caller = "idle" /\ ~publishRequested /\ ~seen.publish
         /\ ~completed /\ hashed = <<>> /\ pending = <<>> /\ described = <<>> /\ promised = 0
         /\ committed = 0 /\ Len(queue) = nextIndex
<1>1. /\ ~prepared /\ ~failed
  BY DEF RecInv, RecFlags
<1>2. /\ caller = "idle" /\ ~completed /\ hashed = <<>> /\ pending = <<>> /\ described = <<>>
      /\ promised = 0
  BY <1>1 DEF RecInv, RecFlags
<1>3. ~publishRequested /\ ~seen.publish
  BY <1>2 DEF RecInv, RecFlags
<1>4. Len(hashed) = 0 /\ Len(queue) \in Nat /\ committed \in Nat
  BY <1>2, EmptyFacts, RecLengths DEF RecInv
<1>5. committed <= Len(hashed) /\ Len(hashed) + Len(queue) = nextIndex
  BY <1>1 DEF RecInv, RecCounts
<1>6. committed = 0
  <2>1. committed <= 0
    BY <1>4, <1>5
  <2> QED
    BY <1>4, <2>1
<1>7. Len(queue) = nextIndex
  BY <1>4, <1>5
<1> QED
  BY <1>1, <1>2, <1>3, <1>6, <1>7

\* The initial state satisfies the invariant, whatever files are on the disk.
LEMMA InitFiles == Init => RecInv
<1> SUFFICES ASSUME Init PROVE RecInv
  OBVIOUS
<1>1. \A f \in File : files[f] = NoFile
  BY DEF Init
<1>2. files \in [File -> FileType]
  BY NoFileFacts DEF Init
<1>3. pc = "open" /\ pc \in Steps /\ pc \notin Preparing /\ pc \notin Running /\ pc \notin Publishing
  BY DEF Init, Steps, Preparing, Running, Publishing, Committing
<1>4. pc \notin Committing /\ pc \in Closed
  BY <1>3 DEF Committing, Closed
<1>5. RecTypes
  <2>1. /\ queue \in Seq(Unit) /\ pending \in Seq(EntryType) /\ hashed \in Seq(EntryType)
        /\ described \in Seq(EntryType) /\ Len(queue) = 0
    BY EmptyFacts DEF Init
  <2>2. /\ Len(queue) <= QueueLimit /\ nextIndex \in 0 .. MaxUnits /\ committed \in Nat
        /\ promised \in Nat /\ faults \in 0 .. MaxFaults
    BY <2>1, RecBounds DEF Init
  <2>3. /\ seen \in [stop : BOOLEAN, publish : BOOLEAN, commit : BOOLEAN]
        /\ resume \in {"loop", "timer", "stopping", "publish"}
    BY DEF Init
  <2>4. /\ failed \in BOOLEAN /\ stopRequested \in BOOLEAN /\ publishRequested \in BOOLEAN
        /\ commitPendingOnFailure \in BOOLEAN /\ completed \in BOOLEAN /\ prepared \in BOOLEAN
        /\ wall \in {"fresh", "due", "late"} /\ caller \in {"idle", "joining", "returned"}
    BY DEF Init
  <2> QED
    BY <1>2, <1>3, <2>1, <2>2, <2>3, <2>4 DEF RecTypes
<1>6. RecCounts
  BY <1>3, <1>4, EmptyFacts DEF Init, RecCounts
<1>7. RecFlags
  BY <1>3, <1>4 DEF Init, RecFlags
<1>8. RecNames
  BY <1>1, <1>3, NoFileFacts DEF Init, RecNames, Companions, File
<1>9. Extends(<<>>, <<>>)
  BY ExtendsFacts, EmptyFacts
<1>10. RecMedia
  BY <1>1, <1>3, <1>9, NoFileFacts DEF RecMedia, File
<1>11. RecSidecar
  BY <1>3 DEF RecSidecar
<1>12. RecMarker
  BY <1>3 DEF RecMarker
<1>13. RecSealed
  BY <1>4 DEF RecSealed
<1>14. RecJournal
  BY <1>1, <1>3, <1>9, NoFileFacts DEF Init, RecJournal, File
<1>15. RecHealthy
  BY <1>3 DEF RecHealthy
<1> QED
  BY <1>5, <1>6, <1>7, <1>8, <1>10, <1>11, <1>12, <1>13, <1>14, <1>15 DEF RecInv

\* The checks of initialize.
LEMMA OpenStep == ASSUME RecInv, OpenPath PROVE RecInv'
<1>1. /\ pc = "open" /\ pc' \in {"refused", "create"}
      /\ pc' = "refused" => files' = files
      /\ pc' = "create" => files' = [f \in File |-> NoFile]
      /\ UNCHANGED <<resume, seen, queue, pending, hashed, described, committed, promised, wall,
                     nextIndex, failed, stopRequested, publishRequested, commitPendingOnFailure,
                     completed, prepared, caller, faults>>
  BY DEF OpenPath, local, group, flags
<1>2. /\ pc \in Closed /\ pc \notin Running \cup Publishing \cup Committing
      /\ pc' \notin Running \cup Publishing \cup Committing
      /\ pc' \in Steps /\ pc' \in Closed \cup Preparing /\ (pc' \in Preparing => pc' = "create")
  BY <1>1 DEF Closed, Running, Publishing, Committing, Preparing, Steps
<1>3. /\ ~prepared /\ ~failed /\ caller = "idle" /\ ~publishRequested /\ ~seen.publish
      /\ ~completed /\ hashed = <<>> /\ pending = <<>> /\ described = <<>> /\ promised = 0
  BY <1>2, NotPrepared
<1>4. files' \in [File -> FileType]
  BY <1>1, NoFileFacts DEF RecInv, RecTypes
<1>5. RecTypes'
  BY <1>1, <1>2, <1>4 DEF RecInv, RecTypes
<1>6. RecCounts'
  BY <1>1, <1>2, <1>3 DEF RecInv, RecCounts
<1>7. RecFlags'
  BY <1>1, <1>2, <1>3 DEF RecFlags
<1>8. Extends(<<>>, <<>>)
  BY ExtendsFacts, EmptyFacts
<1>9. CASE pc' = "refused"
  <2>1. pc' \notin Preparing
    BY <1>9 DEF Preparing
  <2>2. RecNames'
    BY <1>1, <1>2, <1>3, <1>9, <2>1 DEF RecInv, RecNames
  <2>3. RecMedia' /\ RecSidecar' /\ RecMarker'
    BY <1>1, <1>2, <1>9, <2>1 DEF RecInv, RecMedia, RecSidecar, RecMarker
  <2>4. RecSealed' /\ RecHealthy'
    BY <1>2, <1>9 DEF RecSealed, RecHealthy, Closed
  <2>5. RecJournal'
    BY <1>1, <1>3, <1>9 DEF RecInv, RecJournal
  <2> QED
    BY <1>5, <1>6, <1>7, <2>2, <2>3, <2>4, <2>5 DEF RecInv
<1>10. CASE pc' = "create"
  <2>1. /\ \A f \in File : /\ files'[f].mem = <<>> /\ files'[f].disk = <<>>
                           /\ files'[f].at = "none" /\ files'[f].entry = "none"
        /\ "journal" \in File /\ "media" \in File /\ "sidecar" \in File /\ "marker" \in File
        /\ Companions \subseteq File
    BY <1>1, <1>10, NoFileFacts DEF File, Companions
  <2>2. RecNames'
    BY <1>1, <1>2, <1>3, <1>10, <2>1 DEF RecNames
  <2>3. RecMedia' /\ RecSidecar' /\ RecMarker'
    BY <1>2, <1>8, <1>10, <2>1 DEF RecMedia, RecSidecar, RecMarker
  <2>4. RecSealed' /\ RecHealthy'
    BY <1>2, <2>1 DEF RecSealed, RecHealthy
  <2>5. RecJournal'
    BY <1>1, <1>3, <1>8, <1>10, <2>1 DEF RecJournal
  <2> QED
    BY <1>5, <1>6, <1>7, <2>2, <2>3, <2>4, <2>5 DEF RecInv
<1> QED
  BY <1>1, <1>9, <1>10

\* A preparation that fails leaves an unprepared recorder behind.
LEMMA PreparationFails ==
  ASSUME RecInv, pc \in Preparing, pc' = "exited", failed' = TRUE, faults' \in 0 .. MaxFaults,
         files' \in [File -> FileType],
         files'["marker"].at # "final", \A f \in Companions : files'[f].entry # "final",
         Extends(files'["media"].disk, files'["media"].mem),
         Extends(files'["journal"].disk, files'["journal"].mem),
         UNCHANGED <<resume, seen, queue, pending, hashed, described, committed, promised, wall,
                     nextIndex, stopRequested, publishRequested, commitPendingOnFailure,
                     completed, prepared, caller>>
  PROVE  RecInv'
<1>1. /\ ~prepared /\ ~failed /\ caller = "idle" /\ ~publishRequested /\ ~seen.publish
      /\ ~completed /\ hashed = <<>> /\ pending = <<>> /\ described = <<>> /\ promised = 0
  BY NotPrepared
<1>2. /\ pc' \in Steps
      /\ pc' \notin Closed \cup Preparing \cup Running \cup Publishing \cup Committing
      /\ pc' \notin {"sidecar", "syncSidecar"} /\ "marker" \in Companions
  BY DEF Steps, Closed, Preparing, Running, Publishing, Committing, Companions
<1>3. RecTypes'
  BY <1>2 DEF RecInv, RecTypes
<1>4. RecCounts'
  BY <1>1, <1>2 DEF RecInv, RecCounts
<1>5. RecFlags'
  BY <1>1, <1>2 DEF RecFlags
<1>6. RecNames'
  BY <1>1, <1>2 DEF RecNames
<1>7. RecMedia' /\ RecSidecar' /\ RecMarker'
  BY <1>2 DEF RecMedia, RecSidecar, RecMarker
<1>8. RecSealed' /\ RecHealthy'
  BY <1>2 DEF RecSealed, RecHealthy
<1>9. RecJournal'
  BY <1>1 DEF RecJournal
<1> QED
  BY <1>3, <1>4, <1>5, <1>6, <1>7, <1>8, <1>9 DEF RecInv

\* A preparation that goes on has files without any contents but a header.
LEMMA PreparationGoesOn ==
  ASSUME RecInv, pc \in Preparing, pc' \in {"header", "syncHeader", "syncPrepared", "loop"},
         prepared' = (pc' = "loop"), failed' = failed,
         files' \in [File -> FileType], files'["journal"].at = "final",
         \A f \in Companions : /\ files'[f].at = "tmp"
                               /\ files'[f].mem = <<>>
                               /\ f # "marker" => files'[f].disk = <<>>
                               /\ files'[f].entry # "final"
                               /\ pc' = "loop" => files'[f].entry = "tmp",
         Extends(files'["journal"].disk, files'["journal"].mem),
         pc' = "header" => files'["journal"].mem = <<>> /\ files'["journal"].disk = <<>>,
         pc' # "header" => files'["journal"].mem = <<Header>>,
         pc' \in {"syncPrepared", "loop"} => files'["journal"].disk = <<Header>>,
         pc' = "loop" => files'["journal"].entry = "final",
         UNCHANGED <<resume, seen, queue, pending, hashed, described, committed, promised, wall,
                     nextIndex, stopRequested, publishRequested, commitPendingOnFailure,
                     completed, caller, faults>>
  PROVE  RecInv'
<1>1. /\ ~prepared /\ ~failed /\ caller = "idle" /\ ~publishRequested /\ ~seen.publish
      /\ ~completed /\ hashed = <<>> /\ pending = <<>> /\ described = <<>> /\ promised = 0
  BY NotPrepared
<1>2. /\ pc' \in Steps /\ pc' \notin Publishing \cup Committing \cup Closed
      /\ pc' \notin {"sidecar", "syncSidecar"} /\ (pc' \in Running => pc' = "loop")
      /\ pc' = "loop" => pc' \in Running
      /\ pc' \in Preparing <=> pc' # "loop"
      /\ Companions \subseteq File /\ "marker" \in Companions /\ "media" \in Companions
      /\ "sidecar" \in Companions
  BY DEF Steps, Closed, Preparing, Running, Publishing, Committing, Companions, File
<1>3. prepared' \in BOOLEAN
  OBVIOUS
<1>4. RecTypes'
  BY <1>2, <1>3 DEF RecInv, RecTypes
<1>5. RecCounts'
  BY <1>1, <1>2 DEF RecInv, RecCounts
<1>6. RecFlags'
  BY <1>1, <1>2 DEF RecFlags
<1>7. RecNames'
  BY <1>1, <1>2 DEF RecNames
<1>8. Extends(<<>>, <<>>)
  BY ExtendsFacts, EmptyFacts
<1>9. RecMedia'
  BY <1>1, <1>2, <1>8 DEF RecMedia
<1>10. RecSidecar'
  BY <1>1, <1>2, EmptyFacts DEF RecSidecar
<1>11. RecMarker'
  BY <1>2 DEF RecMarker
<1>12. RecSealed'
  BY <1>2 DEF RecSealed
<1>13. Len(<<Header>>) = 1 /\ Len(<<Header>>) >= 1 /\ <<Header>>[1] = Header /\ Header.kind = "header"
  BY RecordFacts
<1>14. RecJournal'
  <2>1. UnitsOnDisk(<<Header>>, <<>>)
    <3>1. \A k \in 1 .. Len(<<Header>>) : k = 1
      BY <1>13
    <3>2. <<Header>>[1].kind # "unit"
      BY <1>13
    <3> HIDE <1>13
    <3> QED
      BY <3>1, <3>2 DEF UnitsOnDisk
  <2>2. Kept(<<Header>>, <<>>, 0)
    BY DEF Kept
  <2> DEFINE h == <<Header>>
  <2>3. UnitsOnDisk(h, <<>>) /\ Kept(h, <<>>, 0) /\ Len(h) >= 1 /\ h[1] = Header
    BY <1>13, <2>1, <2>2
  <2> HIDE DEF h
  <2>4. CASE pc' = "loop"
    <3>1. /\ files'["journal"].mem = h /\ files'["journal"].disk = h
          /\ files'["media"].disk = <<>> /\ promised' = 0
      BY <1>1, <1>2, <2>4 DEF h
    <3>2. /\ Len(files'["journal"].disk) >= 1 /\ files'["journal"].disk[1] = Header
      BY <2>3, <3>1
    <3>3. /\ UnitsOnDisk(files'["journal"].mem, files'["media"].disk)
          /\ Kept(files'["journal"].disk, files'["media"].disk, promised')
      BY <2>3, <3>1
    <3> QED
      BY <2>4, <3>1, <3>2, <3>3 DEF RecJournal
  <2>5. CASE pc' # "loop"
    BY <1>1, <2>5 DEF RecJournal
  <2> QED
    BY <2>4, <2>5
<1>15. RecHealthy'
  <2> SUFFICES ASSUME pc' = "loop" PROVE RecHealthy'
    BY <1>2 DEF RecHealthy
  <2>1. files'["journal"].mem = <<Header>>
    OBVIOUS
  <2>2. UnitsBefore(<<Header>>, 2) = 0
    <3>1. {k \in 2 .. 2 - 1 : <<Header>>[k].kind = "unit"} = {}
      OBVIOUS
    <3> QED
      BY <3>1, FS_EmptySet DEF UnitsBefore
  <2>3. Len(files'["journal"].mem) = 1 /\ Len(hashed') = 0 /\ Len(pending') = 0
    BY <1>1, <1>13, <2>1, EmptyFacts
  <2>4. UnitsBefore(files'["journal"].mem, Len(files'["journal"].mem) + 1) = 0
    BY <1>13, <2>1, <2>2
  <2>5. \A k \in 2 .. Len(files'["journal"].mem) :
          Accepted(files'["journal"].mem, files'["media"].disk, k)
    BY <2>3
  <2> QED
    BY <2>3, <2>4, <2>5 DEF RecHealthy
<1> QED
  BY <1>4, <1>5, <1>6, <1>7, <1>9, <1>10, <1>11, <1>12, <1>14, <1>15 DEF RecInv

\* A failure of the environment is counted.
LEMMA FaultBound == ASSUME RecTypes, Fault PROVE faults' \in 0 .. MaxFaults
BY RecBounds DEF RecTypes, Fault

\* A write that fails on a file without contents leaves what is sound.
LEMMA PartOnEmpty ==
  ASSUME NEW fs \in [File -> FileType], NEW f \in File, NEW s \in Seq(RecordType),
         fs[f].disk = <<>>, NEW p \in PartWritten(fs, f, s)
  PROVE  /\ p \in [File -> FileType] /\ \A g \in File : g # f => p[g] = fs[g]
         /\ p[f].at = fs[f].at /\ p[f].entry = fs[f].entry /\ Extends(p[f].disk, p[f].mem)
<1>1. PICK part \in Seq(RecordType) : p = Write(fs, f, part)
  BY PartFacts
<1>2. p[f].mem \in Seq(RecordType) /\ p[f].disk = <<>>
  <2>1. p[f].mem = fs[f].mem \o part /\ fs[f].mem \o part \in Seq(RecordType)
    BY <1>1, WriteFacts
  <2>2. p[f].disk = <<>>
    BY <1>1, WriteFacts
  <2> QED
    BY <2>1, <2>2
<1>3. Extends(p[f].disk, p[f].mem)
  BY <1>2, ExtendsFacts
<1> QED
  BY <1>1, <1>3, WriteFacts

\* initialize, from the files it creates to the prepared recorder.
LEMMA InitializeStep == ASSUME RecInv, Initialize PROVE RecInv'
<1>1. /\ "journal" \in File /\ "media" \in File /\ "sidecar" \in File /\ "marker" \in File
      /\ Companions \subseteq File /\ "marker" \in Companions /\ "media" \in Companions
      /\ "sidecar" \in Companions /\ "journal" \notin Companions
      /\ \A f \in File : f # "journal" => f \in Companions
  BY DEF File, Companions
<1>2. files \in [File -> FileType]
  BY DEF RecInv, RecTypes
<1>3. \A f \in File : files[f].mem \in Seq(RecordType) /\ files[f].disk \in Seq(RecordType)
  BY RecLengths DEF RecInv
<1>4. \A s \in Seq(RecordType) : Extends(s, s) /\ Extends(<<>>, s)
  BY ExtendsFacts
<1>5. /\ <<Header>> \in Seq(RecordType) /\ <<>> \o <<Header>> = <<Header>> /\ Header \in RecordType
      /\ <<>> \in Seq(RecordType)
  BY RecordFacts, EmptyFacts, ConcatEmptySeq
<1>6. CASE Prepare("create", "header", Create(files, File),
                   {Create(files, created) : created \in CreatedBefore})
  <2>1. pc = "create" /\ pc \in Preparing /\ files = [f \in File |-> NoFile]
    BY <1>6 DEF Prepare, Preparing, RecInv, RecNames
  <2>2. CASE pc' = "header" /\ files' = Create(files, File) /\ prepared' = ("header" = "loop")
             /\ UNCHANGED <<failed, faults>>
    <3>1. /\ files' \in [File -> FileType]
          /\ \A g \in File : /\ files'[g].mem = <<>> /\ files'[g].disk = <<>>
                             /\ files'[g].entry = "none"
                             /\ files'[g].at = IF g = "journal" THEN "final" ELSE "tmp"
      BY <2>1, <2>2, CreateFacts
    <3>2. Extends(files'["journal"].disk, files'["journal"].mem)
      BY <1>1, <1>4, <1>5, <3>1
    <3> QED
      BY <1>1, <1>6, <2>1, <2>2, <3>1, <3>2, PreparationGoesOn DEF Prepare, local, group
  <2>3. CASE Fault /\ pc' = "exited" /\ failed' = TRUE /\ UNCHANGED prepared
             /\ files' \in {Create(files, created) : created \in CreatedBefore}
    <3>1. PICK created \in CreatedBefore : files' = Create(files, created)
      BY <2>3
    <3>2. created \in SUBSET File
      BY <3>1 DEF CreatedBefore, File
    <3>3. /\ files' \in [File -> FileType]
          /\ \A g \in File : /\ files'[g].mem = <<>> /\ files'[g].disk = <<>>
                             /\ files'[g].entry = "none"
                             /\ g # "journal" => files'[g].at # "final"
      BY <2>1, <3>1, <3>2, CreateFacts
    <3>4. /\ files'["marker"].at # "final" /\ \A f \in Companions : files'[f].entry # "final"
          /\ Extends(files'["media"].disk, files'["media"].mem)
          /\ Extends(files'["journal"].disk, files'["journal"].mem)
      BY <1>1, <1>4, <1>5, <3>3
    <3>5. faults' \in 0 .. MaxFaults
      BY <2>3, FaultBound DEF RecInv
    <3> QED
      BY <1>6, <2>1, <2>3, <3>3, <3>4, <3>5, PreparationFails DEF Prepare, local, group
  <2> QED
    BY <1>6, <2>2, <2>3 DEF Prepare
<1>7. ASSUME pc \in Preparing, pc # "create"
      PROVE  /\ files["journal"].at = "final"
             /\ \A f \in Companions : files[f].at = "tmp" /\ files[f].entry # "final"
             /\ \A f \in Companions : files[f].mem \in Seq(RecordType) /\ files[f].disk \in Seq(RecordType)
             /\ Extends(files["media"].disk, files["media"].mem)
             /\ Extends(files["journal"].disk, files["journal"].mem)
  <2>1. pc \in Preparing \ {"create"}
    BY <1>7
  <2>2. files["journal"].at = "final" /\ \A f \in Companions : files[f].at = "tmp"
    BY <2>1 DEF RecInv, RecNames
  <2>3. \A f \in Companions : files[f].entry = "final" => files[f].at = "final"
    BY DEF RecInv, RecNames
  <2>4. \A f \in Companions : files[f].entry # "final"
    BY <2>2, <2>3
  <2>5. /\ Extends(files["media"].disk, files["media"].mem)
        /\ Extends(files["journal"].disk, files["journal"].mem)
    BY DEF RecInv, RecMedia, RecJournal
  <2> QED
    BY <1>1, <1>3, <2>2, <2>4, <2>5
<1>8. ASSUME pc \in Preparing
      PROVE  /\ files["media"].mem = <<>> /\ files["media"].disk = <<>>
             /\ files["sidecar"].mem = <<>> /\ files["sidecar"].disk = <<>>
             /\ files["marker"].mem = <<>>
  BY <1>8 DEF RecInv, RecMedia, RecSidecar, RecMarker
<1>9. CASE Prepare("header", "syncHeader", Write(files, "journal", <<Header>>),
                   PartWritten(files, "journal", <<Header>>))
  <2>1. pc = "header" /\ pc \in Preparing /\ pc # "create"
    BY <1>9 DEF Prepare, Preparing
  <2>2. files["journal"].mem = <<>> /\ files["journal"].disk = <<>>
    BY <2>1 DEF RecInv, RecJournal
  <2>3. CASE pc' = "syncHeader" /\ files' = Write(files, "journal", <<Header>>)
             /\ prepared' = ("syncHeader" = "loop") /\ UNCHANGED <<failed, faults>>
    <3>1. /\ files' \in [File -> FileType] /\ \A g \in File : g # "journal" => files'[g] = files[g]
          /\ files'["journal"].mem = <<Header>> /\ files'["journal"].disk = <<>>
          /\ files'["journal"].at = files["journal"].at
      <4>1. files["journal"].mem \o <<Header>> = <<Header>>
        BY <1>5, <2>2
      <4> DEFINE h == <<Header>>
      <4> DEFINE w == Write(files, "journal", h)
      <4>2. h \in Seq(RecordType)
        BY <1>5
      <4> HIDE DEF h
      <4>3. /\ w \in [File -> FileType] /\ \A g \in File : g # "journal" => w[g] = files[g]
            /\ w["journal"].mem = files["journal"].mem \o h
            /\ w["journal"].disk = files["journal"].disk
            /\ w["journal"].at = files["journal"].at
        BY <1>1, <1>2, <4>2, WriteFacts
      <4>4. files' = w
        BY <2>3 DEF h
      <4>5. files["journal"].mem \o h = <<Header>>
        BY <4>1 DEF h
      <4> HIDE DEF w
      <4> QED
        BY <2>2, <4>3, <4>4, <4>5
    <3>2. Extends(files'["journal"].disk, files'["journal"].mem)
      BY <1>4, <1>5, <3>1
    <3>3. /\ files'["journal"].at = "final"
          /\ \A f \in Companions : /\ files'[f].at = "tmp" /\ files'[f].entry # "final"
                                   /\ files'[f].mem = <<>>
                                   /\ f # "marker" => files'[f].disk = <<>>
      BY <1>1, <1>7, <1>8, <2>1, <3>1 DEF Companions
    <3> QED
      BY <1>9, <2>1, <2>3, <3>1, <3>2, <3>3, PreparationGoesOn DEF Prepare, local, group
  <2>4. CASE Fault /\ pc' = "exited" /\ failed' = TRUE /\ UNCHANGED prepared
             /\ files' \in PartWritten(files, "journal", <<Header>>)
    <3>1. /\ files' \in [File -> FileType] /\ \A g \in File : g # "journal" => files'[g] = files[g]
          /\ Extends(files'["journal"].disk, files'["journal"].mem)
      <4> DEFINE h == <<Header>>
      <4>1. h \in Seq(RecordType) /\ files' \in PartWritten(files, "journal", h)
        BY <1>5, <2>4
      <4> HIDE DEF h
      <4> QED
        BY <1>1, <1>2, <2>2, <4>1, PartOnEmpty
    <3>2. /\ files'["marker"].at # "final" /\ \A f \in Companions : files'[f].entry # "final"
          /\ Extends(files'["media"].disk, files'["media"].mem)
      BY <1>1, <1>7, <2>1, <3>1
    <3>3. faults' \in 0 .. MaxFaults
      BY <2>4, FaultBound DEF RecInv
    <3> QED
      BY <1>9, <2>1, <2>4, <3>1, <3>2, <3>3, PreparationFails DEF Prepare, local, group
  <2> QED
    BY <1>9, <2>3, <2>4 DEF Prepare
<1>10. CASE Prepare("syncHeader", "syncPrepared", Sync(files, "journal"),
                    {files, Sync(files, "journal")})
  <2>1. pc = "syncHeader" /\ pc \in Preparing /\ pc # "create"
    BY <1>10 DEF Prepare, Preparing
  <2>2. files["journal"].mem = <<Header>>
    BY <2>1 DEF RecInv, RecJournal
  <2>3. LET fs == Sync(files, "journal")
        IN  /\ fs \in [File -> FileType] /\ \A g \in File : g # "journal" => fs[g] = files[g]
            /\ fs["journal"].mem = <<Header>> /\ fs["journal"].disk = <<Header>>
            /\ fs["journal"].at = files["journal"].at
            /\ Extends(fs["journal"].disk, fs["journal"].mem)
    BY <1>1, <1>2, <1>4, <1>5, <2>2, SyncFacts
  <2>4. CASE pc' = "syncPrepared" /\ files' = Sync(files, "journal")
             /\ prepared' = ("syncPrepared" = "loop") /\ UNCHANGED <<failed, faults>>
    <3>1. /\ files'["journal"].at = "final"
          /\ \A f \in Companions : /\ files'[f].at = "tmp" /\ files'[f].entry # "final"
                                   /\ files'[f].mem = <<>>
                                   /\ f # "marker" => files'[f].disk = <<>>
      BY <1>1, <1>7, <1>8, <2>1, <2>3, <2>4 DEF Companions
    <3> QED
      BY <1>10, <2>1, <2>3, <2>4, <3>1, PreparationGoesOn DEF Prepare, local, group
  <2>5. CASE Fault /\ pc' = "exited" /\ failed' = TRUE /\ UNCHANGED prepared
             /\ files' \in {files, Sync(files, "journal")}
    <3>1. /\ files' \in [File -> FileType] /\ \A g \in File : g # "journal" => files'[g] = files[g]
          /\ Extends(files'["journal"].disk, files'["journal"].mem)
      BY <1>2, <1>7, <2>1, <2>3, <2>5
    <3>2. /\ files'["marker"].at # "final" /\ \A f \in Companions : files'[f].entry # "final"
          /\ Extends(files'["media"].disk, files'["media"].mem)
      BY <1>1, <1>7, <2>1, <3>1
    <3>3. faults' \in 0 .. MaxFaults
      BY <2>5, FaultBound DEF RecInv
    <3> QED
      BY <1>10, <2>1, <2>5, <3>1, <3>2, <3>3, PreparationFails DEF Prepare, local, group
  <2> QED
    BY <1>10, <2>4, <2>5 DEF Prepare
<1>11. CASE Prepare("syncPrepared", "loop", SyncDirectory(files), {files, SyncDirectory(files)})
  <2>1. pc = "syncPrepared" /\ pc \in Preparing /\ pc # "create"
    BY <1>11 DEF Prepare, Preparing
  <2>2. files["journal"].mem = <<Header>> /\ files["journal"].disk = <<Header>>
    BY <2>1 DEF RecInv, RecJournal
  <2>3. /\ SyncDirectory(files) \in [File -> FileType]
        /\ \A g \in File :
             /\ SyncDirectory(files)[g].mem = files[g].mem
             /\ SyncDirectory(files)[g].disk = files[g].disk
             /\ SyncDirectory(files)[g].at = files[g].at
             /\ SyncDirectory(files)[g].entry = files[g].at
    BY <1>2, SyncDirectoryFacts
  <2>4. CASE pc' = "loop" /\ files' = SyncDirectory(files)
             /\ prepared' = ("loop" = "loop") /\ UNCHANGED <<failed, faults>>
    <3>1. /\ files'["journal"].at = "final" /\ files'["journal"].entry = "final"
          /\ files'["journal"].mem = <<Header>> /\ files'["journal"].disk = <<Header>>
          /\ \A f \in Companions : /\ files'[f].at = "tmp" /\ files'[f].entry = "tmp"
                                   /\ files'[f].mem = <<>>
                                   /\ f # "marker" => files'[f].disk = <<>>
      BY <1>1, <1>7, <1>8, <2>1, <2>2, <2>3, <2>4 DEF Companions
    <3>2. Extends(files'["journal"].disk, files'["journal"].mem)
      BY <1>4, <1>5, <3>1
    <3> QED
      BY <1>11, <2>1, <2>3, <2>4, <3>1, <3>2, PreparationGoesOn DEF Prepare, local, group
  <2>5. CASE Fault /\ pc' = "exited" /\ failed' = TRUE /\ UNCHANGED prepared
             /\ files' \in {files, SyncDirectory(files)}
    <3>1. /\ files' \in [File -> FileType]
          /\ \A g \in File : /\ files'[g].mem = files[g].mem /\ files'[g].disk = files[g].disk
                             /\ files'[g].at = files[g].at
                             /\ files'[g].entry \in {files[g].at, files[g].entry}
      BY <1>2, <2>3, <2>5
    <3>2. /\ files'["marker"].at # "final" /\ \A f \in Companions : files'[f].entry # "final"
          /\ Extends(files'["media"].disk, files'["media"].mem)
          /\ Extends(files'["journal"].disk, files'["journal"].mem)
      BY <1>1, <1>7, <2>1, <3>1
    <3>3. faults' \in 0 .. MaxFaults
      BY <2>5, FaultBound DEF RecInv
    <3> QED
      BY <1>11, <2>1, <2>5, <3>1, <3>2, <3>3, PreparationFails DEF Prepare, local, group
  <2> QED
    BY <1>11, <2>4, <2>5 DEF Prepare
<1> QED
  BY <1>6, <1>9, <1>10, <1>11 DEF Initialize

\* The four files are different ones.
LEMMA FileNames ==
  /\ "journal" \in File /\ "media" \in File /\ "sidecar" \in File /\ "marker" \in File
  /\ Companions \subseteq File /\ "marker" \in Companions /\ "media" \in Companions
  /\ "sidecar" \in Companions /\ "journal" \notin Companions
  /\ \A f \in File : f # "journal" => f \in Companions
BY DEF File, Companions

\* What a running worker has.
LEMMA RunningFacts ==
  ASSUME RecInv, pc \in Running
  PROVE  /\ prepared /\ ~completed /\ files["marker"].at # "final" /\ files["marker"].entry # "final"
         /\ files["marker"].mem = <<>>
         /\ files["journal"].at = "final" /\ files["journal"].entry = "final"
         /\ \A f \in Companions : files[f].at # "none" /\ files[f].entry # "none"
         /\ Len(files["journal"].disk) >= 1 /\ files["journal"].disk[1] = Header
         /\ UnitsOnDisk(files["journal"].mem, files["media"].disk)
         /\ Kept(files["journal"].disk, files["media"].disk, promised)
         /\ Extends(files["journal"].disk, files["journal"].mem)
         /\ Extends(files["media"].disk, files["media"].mem)
         /\ Extends(hashed, files["media"].mem)
<1>1. pc \in Running \cup Publishing
  OBVIOUS
<1>2. prepared
  BY <1>1 DEF RecInv, RecFlags
<1>3. files["marker"].at # "final"
  BY DEF RecInv, RecNames
<1>4. files["marker"].entry # "final" /\ ~completed
  BY <1>3, FileNames DEF RecInv, RecNames
<1>5. files["marker"].mem = <<>>
  BY DEF RecInv, RecMarker
<1>6. /\ files["journal"].at = "final" /\ files["journal"].entry = "final"
      /\ \A f \in Companions : files[f].at # "none" /\ files[f].entry # "none"
  BY <1>2, <1>4 DEF RecInv, RecNames
<1>7. /\ Len(files["journal"].disk) >= 1 /\ files["journal"].disk[1] = Header
      /\ UnitsOnDisk(files["journal"].mem, files["media"].disk)
      /\ Kept(files["journal"].disk, files["media"].disk, promised)
  BY <1>2, <1>4 DEF RecInv, RecJournal
<1>8. /\ Extends(files["journal"].disk, files["journal"].mem)
      /\ Extends(files["media"].disk, files["media"].mem)
  BY DEF RecInv, RecJournal, RecMedia
<1>9. Extends(hashed, files["media"].mem)
  BY <1>1 DEF RecInv, RecMedia
<1> QED
  BY <1>2, <1>3, <1>4, <1>5, <1>6, <1>7, <1>8, <1>9

\* The names of the files while the worker runs.
LEMMA RunningNames ==
  ASSUME RecInv, pc \in Running, pc' \in Running \cup {"suffix", "exited"},
         files'["marker"] = files["marker"],
         \A f \in File : files'[f].at = files[f].at /\ files'[f].entry = files[f].entry,
         UNCHANGED <<prepared, completed>>
  PROVE  RecNames' /\ RecMarker' /\ RecSealed'
<1>1. /\ prepared /\ ~completed /\ files["marker"].at # "final" /\ files["marker"].entry # "final"
      /\ files["marker"].mem = <<>>
      /\ files["journal"].at = "final" /\ files["journal"].entry = "final"
      /\ \A f \in Companions : files[f].at # "none" /\ files[f].entry # "none"
  BY RunningFacts
<1>2. /\ pc' \notin Preparing /\ pc' # "create"
      /\ pc' \notin {"syncSuffix", "renameMedia", "renameSidecar", "syncNames", "marker",
                     "syncMarker", "renameMarker", "syncMarkerName", "unlink", "syncUnlink"}
  BY DEF Running, Committing, Preparing
<1>3. \A f \in Companions : files[f].entry = "final" => files[f].at = "final"
  BY DEF RecInv, RecNames
<1>4. RecNames'
  BY <1>1, <1>2, <1>3, FileNames DEF RecNames
<1>5. RecMarker'
  BY <1>1, <1>2 DEF RecMarker
<1>6. RecSealed'
  BY <1>1, FileNames DEF RecSealed
<1> QED
  BY <1>4, <1>5, <1>6

\* The flags while the worker runs.
LEMMA RunningFlags ==
  ASSUME RecInv, pc \in Running, pc' \in Running \cup {"suffix", "exited"},
         pc' = "suffix" \/ (pc' \in Committing /\ resume' = "publish") =>
           pc \in Committing /\ resume = "publish" /\ ~failed',
         seen.publish => hashed' = hashed,
         UNCHANGED <<nextIndex, seen, publishRequested, caller, prepared, completed>>
  PROVE  RecFlags'
<1>1. prepared
  BY RunningFacts
<1>2. /\ pc' \notin Closed \cup Preparing /\ (pc' \in Publishing => pc' = "suffix")
  BY DEF Running, Committing, Preparing, Closed, Publishing
<1>3. /\ publishRequested => caller # "idle"
      /\ seen.publish => publishRequested /\ Len(hashed) = nextIndex
      /\ pc \in Committing /\ resume = "publish" => seen.publish
  BY DEF RecInv, RecFlags
<1> QED
  BY <1>1, <1>2, <1>3 DEF RecFlags

\* A step of the running worker that fails.
LEMMA RunningFails ==
  ASSUME RecInv, pc \in Running, pc' \in {"loop", "stopping", "decide", "exited"},
         failed' = TRUE, queue' = <<>>, faults' \in 0 .. MaxFaults, described' \in Seq(EntryType),
         files' \in [File -> FileType], files'["marker"] = files["marker"],
         \A f \in File : files'[f].at = files[f].at /\ files'[f].entry = files[f].entry,
         Extends(files["media"].mem, files'["media"].mem),
         Extends(files["media"].disk, files'["media"].disk),
         Extends(files'["media"].disk, files'["media"].mem),
         Extends(files["journal"].disk, files'["journal"].disk),
         Extends(files'["journal"].disk, files'["journal"].mem),
         UnitsOnDisk(files'["journal"].mem, files'["media"].disk),
         UNCHANGED <<resume, seen, pending, hashed, committed, promised, wall, nextIndex,
                     stopRequested, publishRequested, commitPendingOnFailure, completed, prepared,
                     caller>>
  PROVE  RecInv'
<1>1. /\ pc' \in Running \cup {"suffix", "exited"} /\ pc' \in Steps /\ pc' # "suffix"
      /\ pc' \notin Committing /\ pc' \notin Publishing /\ pc' \notin Preparing /\ pc' # "syncSuffix"
      /\ pc' \notin {"sidecar", "syncSidecar", "header", "syncHeader", "syncPrepared"}
  BY DEF Running, Steps, Committing, Publishing, Preparing
<1>2. RecTypes'
  <2>1. Len(queue') <= QueueLimit /\ queue' \in Seq(Unit)
    BY EmptyFacts, RecBounds
  <2> QED
    BY <1>1, <2>1 DEF RecInv, RecTypes
<1>3. RecCounts'
  <2>1. Len(queue') = 0 /\ Len(hashed) \in Nat /\ Len(queue) \in Nat /\ nextIndex \in Nat
    BY EmptyFacts, RecLengths DEF RecInv
  <2>2. Len(hashed) + Len(queue) <= nextIndex
    BY DEF RecInv, RecCounts
  <2>3. Len(hashed) + Len(queue') <= nextIndex
    BY <2>1, <2>2
  <2>4. \A i \in 1 .. Len(queue') : queue'[i].n = Len(hashed) + i - 1
    BY <2>1
  <2>5. /\ \A i \in 1 .. Len(hashed) : hashed[i] = Payload(i - 1)
        /\ Len(pending) <= Len(hashed)
        /\ \A i \in 1 .. Len(pending) :
             pending[i] = AccessUnitRecord(Len(hashed) - Len(pending) + i - 1,
                                           Len(hashed) - Len(pending) + i - 1)
        /\ promised <= committed /\ committed <= Len(hashed)
        /\ pending = <<>> => committed = Len(hashed)
    BY DEF RecInv, RecCounts
  <2> QED
    BY <1>1, <2>3, <2>4, <2>5 DEF RecCounts
<1>4. RecFlags'
  BY <1>1, RunningFlags
<1>5. RecNames' /\ RecMarker' /\ RecSealed'
  BY <1>1, RunningNames
<1>6. /\ hashed \in Seq(RecordType) /\ files["media"].mem \in Seq(RecordType)
      /\ files'["media"].mem \in Seq(RecordType)
      /\ files["media"].disk \in Seq(RecordType) /\ files'["media"].disk \in Seq(RecordType)
      /\ files["journal"].disk \in Seq(RecordType) /\ files'["journal"].disk \in Seq(RecordType)
  <2>1. hashed \in Seq(RecordType)
    BY EntriesAreRecords DEF RecInv, RecTypes
  <2>2. RecTypes
    BY DEF RecInv
  <2>3. \A f \in File : files[f].mem \in Seq(RecordType) /\ files[f].disk \in Seq(RecordType)
    BY <2>2 DEF RecTypes, FileType
  <2>4. \A f \in File : files'[f].mem \in Seq(RecordType) /\ files'[f].disk \in Seq(RecordType)
    BY DEF FileType
  <2> QED
    BY <2>1, <2>3, <2>4, FileNames
<1>7. RecMedia'
  <2>1. Extends(hashed, files'["media"].mem)
    BY <1>6, RunningFacts, ExtendsFacts
  <2> QED
    BY <1>1, <2>1 DEF RecMedia
<1>8. RecSidecar'
  BY <1>1 DEF RecSidecar
<1>9. RecJournal'
  <2>1. Len(files["journal"].disk) >= 1 /\ files["journal"].disk[1] = Header
    BY RunningFacts
  <2>2. Len(files["journal"].disk) \in Nat /\ Len(files'["journal"].disk) \in Nat
    BY <1>6, LenProperties
  <2>3. Len(files'["journal"].disk) >= 1 /\ files'["journal"].disk[1] = Header
    BY <2>1, <2>2 DEF Extends
  <2>4. Kept(files["journal"].disk, files["media"].disk, promised)
    BY RunningFacts
  <2>5. Len(files["media"].disk) <= Len(files'["media"].disk)
    BY DEF Extends
  <2>6. Kept(files'["journal"].disk, files'["media"].disk, promised)
    BY <1>6, <2>4, <2>5, KeptGrows
  <2> QED
    BY <1>1, <2>3, <2>6 DEF RecJournal
<1>10. RecHealthy'
  BY DEF RecHealthy
<1> QED
  BY <1>2, <1>3, <1>4, <1>5, <1>7, <1>8, <1>9, <1>10 DEF RecInv

\* Instances of ExtendsFacts.
LEMMA ExtendsTransitive ==
  ASSUME NEW s \in Seq(RecordType), NEW t \in Seq(RecordType), NEW u \in Seq(RecordType),
         Extends(s, t), Extends(t, u)
  PROVE  Extends(s, u)
BY ExtendsFacts

\* A sequence extends itself.
LEMMA ExtendsItself == ASSUME NEW s \in Seq(RecordType) PROVE Extends(s, s)
BY ExtendsFacts

\* A unit that is written moves from the queue to the pending group.
LEMMA UnitWritten ==
  ASSUME RecInv, pc = "loop", ~failed, queue # <<>>,
         files' = Write(files, "media", <<Payload(Head(queue).n)>>),
         hashed' = Append(hashed, Payload(Head(queue).n)),
         pending' = Append(pending, AccessUnitRecord(Head(queue).n, Len(hashed))),
         queue' = Tail(queue), resume' = "loop", pc' \in {"loop", "syncMedia"},
         UNCHANGED <<seen, described, committed, promised, wall, nextIndex, failed, stopRequested,
                     publishRequested, commitPendingOnFailure, completed, prepared, caller, faults>>
  PROVE  RecInv'
<1> DEFINE n == Head(queue).n
<1>1. /\ Len(hashed) \in Nat /\ Len(queue) \in Nat /\ Len(pending) \in Nat /\ nextIndex \in Nat
      /\ queue \in Seq(Unit) /\ hashed \in Seq(EntryType) /\ pending \in Seq(EntryType)
      /\ committed \in Nat /\ Len(queue) <= QueueLimit /\ files \in [File -> FileType]
  BY RecLengths DEF RecInv, RecTypes
<1>2. Len(queue) >= 1
  <2>1. Len(queue) # 0
    BY <1>1, EmptyFacts
  <2> QED
    BY <1>1, <2>1
<1>3. n = Len(hashed)
  <2>1. queue[1].n = Len(hashed) + 1 - 1
    BY <1>1, <1>2 DEF RecInv, RecCounts
  <2>2. Head(queue) = queue[1]
    BY <1>1, <1>2, HeadTailProperties
  <2>3. Len(hashed) + 1 - 1 = Len(hashed)
    BY <1>1
  <2> QED
    BY <2>1, <2>2, <2>3
<1> DEFINE p == Payload(n)
<1> DEFINE r == AccessUnitRecord(n, Len(hashed))
<1>4. p \in EntryType /\ r \in EntryType
  BY <1>1, <1>3, RecordFacts
<1>5. p = Payload(Len(hashed)) /\ r = AccessUnitRecord(Len(hashed), Len(hashed))
  BY <1>3
<1>6. hashed' = Append(hashed, p) /\ pending' = Append(pending, r) /\ files' = Write(files, "media", <<p>>)
  OBVIOUS
<1> HIDE DEF p, r, n
<1>7. /\ hashed' \in Seq(EntryType) /\ Len(hashed') = Len(hashed) + 1
      /\ \A i \in 1 .. Len(hashed) : hashed'[i] = hashed[i]
      /\ hashed'[Len(hashed) + 1] = p
  BY <1>1, <1>4, <1>6, AppendProperties
<1>8. /\ pending' \in Seq(EntryType) /\ Len(pending') = Len(pending) + 1
      /\ \A i \in 1 .. Len(pending) : pending'[i] = pending[i]
      /\ pending'[Len(pending) + 1] = r
  BY <1>1, <1>4, <1>6, AppendProperties
<1>9. /\ queue' \in Seq(Unit) /\ Len(queue') = Len(queue) - 1
      /\ \A i \in 1 .. Len(queue') : queue'[i] = queue[i + 1]
  BY <1>1, <1>2, HeadTailProperties
<1>10. pending' # <<>>
  BY <1>1, <1>8, EmptyFacts
<1>11. <<p>> \in Seq(RecordType)
  BY <1>4, EntriesAreRecords
<1>12. /\ files' \in [File -> FileType] /\ \A g \in File : g # "media" => files'[g] = files[g]
       /\ files'["media"].mem = files["media"].mem \o <<p>>
       /\ files'["media"].disk = files["media"].disk
       /\ files'["media"].at = files["media"].at /\ files'["media"].entry = files["media"].entry
       /\ files["media"].mem \o <<p>> \in Seq(RecordType)
       /\ Extends(files["media"].mem, files["media"].mem \o <<p>>)
  <2> DEFINE ps == <<p>>
  <2>1. ps \in Seq(RecordType) /\ files' = Write(files, "media", ps)
    BY <1>6, <1>11
  <2> HIDE DEF ps
  <2> DEFINE w == Write(files, "media", ps)
  <2>2. /\ w \in [File -> FileType] /\ \A g \in File : g # "media" => w[g] = files[g]
        /\ w["media"].mem = files["media"].mem \o ps
        /\ w["media"].disk = files["media"].disk
        /\ w["media"].at = files["media"].at /\ w["media"].entry = files["media"].entry
        /\ files["media"].mem \o ps \in Seq(RecordType)
        /\ Extends(files["media"].mem, files["media"].mem \o ps)
    <3>1. "media" \in File /\ files \in [File -> FileType] /\ ps \in Seq(RecordType)
      BY <1>1, <2>1, FileNames
    <3> QED
      BY <3>1, WriteFacts
  <2>3. files' = w
    BY <2>1
  <2> HIDE DEF w
  <2> QED
    BY <2>2, <2>3 DEF ps
<1>13. /\ pc \in Running /\ pc \notin Committing /\ pc' \in Running /\ pc' \in Steps /\ pc' \notin Publishing
       /\ pc' \notin {"sidecar", "syncSidecar", "syncJournal", "journal", "syncSuffix", "suffix"}
       /\ pc' \notin Preparing /\ pc' \notin Committing \ {"syncMedia"}
  BY DEF Running, Committing, Steps, Publishing, Preparing
<1>14. Len(hashed) + Len(queue) = nextIndex
  BY DEF RecInv, RecCounts
<1>15. RecTypes'
  <2>1. Len(queue') <= QueueLimit
    BY <1>1, <1>9, RecBounds
  <2> QED
    BY <1>7, <1>8, <1>9, <1>12, <1>13, <2>1 DEF RecInv, RecTypes
<1>16. RecCounts'
  <2>1. Len(hashed') + Len(queue') = nextIndex'
    <3>1. nextIndex' = nextIndex
      OBVIOUS
    <3>2. \A a, b, c \in Nat : a + b = c => (a + 1) + (b - 1) = c
      OBVIOUS
    <3>3. (Len(hashed) + 1) + (Len(queue) - 1) = nextIndex
      BY <1>1, <1>14, <3>2
    <3>4. Len(hashed') = Len(hashed) + 1 /\ Len(queue') = Len(queue) - 1
      BY <1>7, <1>9
    <3> QED
      BY <3>1, <3>3, <3>4
  <2>2. \A i \in 1 .. Len(hashed') : hashed'[i] = Payload(i - 1)
    <3> TAKE i \in 1 .. Len(hashed')
    <3>1. CASE i \in 1 .. Len(hashed)
      BY <1>7, <3>1 DEF RecInv, RecCounts
    <3>2. CASE i = Len(hashed) + 1
      <4>1. i - 1 = Len(hashed)
        BY <1>1, <3>2
      <4> QED
        BY <1>5, <1>7, <3>2, <4>1
    <3> QED
      BY <1>1, <1>7, <3>1, <3>2
  <2>3. Len(pending) <= Len(hashed)
    BY DEF RecInv, RecCounts
  <2>4. Len(pending') <= Len(hashed')
    BY <1>1, <1>7, <1>8, <2>3
  <2>5. \A i \in 1 .. Len(pending') :
          pending'[i] = AccessUnitRecord(Len(hashed') - Len(pending') + i - 1,
                                         Len(hashed') - Len(pending') + i - 1)
    <3> TAKE i \in 1 .. Len(pending')
    <3>1. Len(hashed') - Len(pending') = Len(hashed) - Len(pending)
      BY <1>1, <1>7, <1>8
    <3>2. CASE i \in 1 .. Len(pending)
      <4>1. pending[i] = AccessUnitRecord(Len(hashed) - Len(pending) + i - 1,
                                          Len(hashed) - Len(pending) + i - 1)
        BY <3>2 DEF RecInv, RecCounts
      <4> QED
        BY <1>8, <3>1, <3>2, <4>1
    <3>3. CASE i = Len(pending) + 1
      <4>1. Len(hashed) - Len(pending) + i - 1 = Len(hashed)
        BY <1>1, <3>3
      <4> QED
        BY <1>5, <1>8, <3>1, <3>3, <4>1
    <3> QED
      BY <1>1, <1>8, <3>2, <3>3
  <2>6. \A i \in 1 .. Len(queue') : queue'[i].n = Len(hashed') + i - 1
    <3> TAKE i \in 1 .. Len(queue')
    <3>1. i + 1 \in 1 .. Len(queue)
      BY <1>1, <1>9
    <3>2. queue[i + 1].n = Len(hashed) + (i + 1) - 1
      BY <3>1 DEF RecInv, RecCounts
    <3> QED
      BY <1>1, <1>7, <1>9, <3>2
  <2>7. promised' <= committed' /\ committed' <= Len(hashed')
    <3>1. promised <= committed /\ committed <= Len(hashed)
      BY DEF RecInv, RecCounts
    <3> QED
      BY <1>1, <1>7, <3>1
  <2>8. Len(hashed') + Len(queue') <= nextIndex'
    BY <1>1, <2>1
  <2> QED
    BY <1>10, <1>13, <2>1, <2>2, <2>4, <2>5, <2>6, <2>7, <2>8 DEF RecCounts
<1>17. ~seen.publish
  <2>1. Len(hashed) # nextIndex
    BY <1>1, <1>2, <1>14
  <2> QED
    BY <2>1 DEF RecInv, RecFlags
<1>18. RecFlags'
  BY <1>13, <1>17, RunningFlags
<1>19. RecNames' /\ RecMarker' /\ RecSealed'
  BY <1>12, <1>13, RunningNames, FileNames
<1>20. RecMedia'
  <2>1. files["media"].mem = hashed
    BY <1>13 DEF RecInv, RecMedia
  <2>2. hashed \in Seq(RecordType) /\ hashed' \in Seq(RecordType) /\ hashed' = hashed \o <<p>>
    <3>1. Append(hashed, p) = hashed \o <<p>>
      BY <1>1, <1>4
    <3> QED
      BY <1>1, <1>6, <1>7, <3>1, EntriesAreRecords
  <2>3. files'["media"].mem = hashed'
    BY <1>12, <2>1, <2>2
  <2>4. Extends(hashed', files'["media"].mem)
    BY <2>2, <2>3, ExtendsFacts
  <2>5. Extends(files'["media"].disk, files'["media"].mem)
    <3>1. Extends(files["media"].disk, files["media"].mem)
      BY <1>13, RunningFacts
    <3>2. files["media"].disk \in Seq(RecordType) /\ files["media"].mem \in Seq(RecordType)
      BY RecLengths, FileNames DEF RecInv
    <3> QED
      BY <1>12, <3>1, <3>2, ExtendsTransitive
  <2> QED
    BY <1>10, <1>13, <2>3, <2>4, <2>5 DEF RecMedia
<1>21. Len(hashed') - Len(pending') = Len(hashed) - Len(pending)
  BY <1>1, <1>7, <1>8
<1>22. RecSidecar'
  <2>1. /\ Len(described) = Len(hashed) - Len(pending)
        /\ files["sidecar"].mem = described
    BY <1>13 DEF RecInv, RecSidecar
  <2>2. files'["sidecar"] = files["sidecar"]
    BY <1>12, FileNames
  <2> QED
    BY <1>13, <1>21, <2>1, <2>2 DEF RecSidecar
<1>23. files'["journal"] = files["journal"]
  BY <1>12, FileNames
<1>24. RecJournal'
  BY <1>12, <1>13, <1>23, RunningFacts DEF RecJournal
<1>25. RecHealthy'
  BY <1>12, <1>13, <1>21, <1>23 DEF RecInv, RecHealthy
<1> QED
  BY <1>15, <1>16, <1>18, <1>19, <1>20, <1>22, <1>24, <1>25 DEF RecInv

\* write_access_unit, and the failure of its write.
LEMMA WriteUnitStep == ASSUME RecInv, WriteAccessUnit PROVE RecInv'
<1>1. pc = "loop" /\ ~failed /\ queue # <<>>
      /\ UNCHANGED <<seen, described, committed, promised, wall, nextIndex,
                     stopRequested, publishRequested, commitPendingOnFailure,
                     completed, prepared, caller>>
  BY DEF WriteAccessUnit
<1> DEFINE p == Payload(Head(queue).n)
<1>2. CASE /\ files' = Write(files, "media", <<p>>)
           /\ hashed' = Append(hashed, p)
           /\ pending' = Append(pending, AccessUnitRecord(Head(queue).n, Len(hashed)))
           /\ queue' = Tail(queue) /\ resume' = "loop" /\ pc' \in {"loop", "syncMedia"}
           /\ UNCHANGED <<failed, faults>>
  BY <1>1, <1>2, UnitWritten
<1>3. CASE /\ Fault /\ FailRuntime /\ files' \in PartWritten(files, "media", <<p>>)
           /\ UNCHANGED <<pc, resume, hashed, pending>>
  <2>1. p \in EntryType
    <3>1. queue \in Seq(Unit) /\ Len(queue) \in Nat /\ Len(queue) # 0
      BY <1>1, RecLengths, EmptyFacts DEF RecInv, RecTypes
    <3>2. Head(queue) \in Unit
      BY <3>1, HeadTailProperties
    <3>3. Head(queue).n \in Nat
      BY <3>2, RecBounds DEF Unit
    <3> QED
      BY <3>3, RecordFacts
  <2> HIDE DEF p
  <2>2. <<p>> \in Seq(RecordType)
    BY <2>1, EntriesAreRecords
  <2> DEFINE ps == <<p>>
  <2>3. ps \in Seq(RecordType) /\ files' \in PartWritten(files, "media", ps)
    BY <1>3, <2>2
  <2> HIDE DEF ps
  <2>4. PICK part \in Seq(RecordType) : files' = Write(files, "media", part)
    BY <2>3, PartFacts, FileNames
  <2>5. files \in [File -> FileType]
    BY DEF RecInv, RecTypes
  <2>6. /\ files' \in [File -> FileType] /\ \A g \in File : g # "media" => files'[g] = files[g]
        /\ files'["media"].mem = files["media"].mem \o part
        /\ files'["media"].disk = files["media"].disk
        /\ files'["media"].at = files["media"].at /\ files'["media"].entry = files["media"].entry
        /\ files["media"].mem \o part \in Seq(RecordType)
        /\ Extends(files["media"].mem, files["media"].mem \o part)
    BY <2>4, <2>5, WriteFacts, FileNames
  <2>7. pc \in Running /\ pc' \in {"loop", "stopping", "decide", "exited"}
    BY <1>1, <1>3 DEF Running
  <2>8. failed' = TRUE /\ queue' = <<>> /\ faults' \in 0 .. MaxFaults
    BY <1>3, FaultBound DEF FailRuntime, RecInv
  <2>9. files["media"].disk \in Seq(RecordType) /\ files["media"].mem \in Seq(RecordType)
        /\ files["journal"].disk \in Seq(RecordType) /\ files["journal"].mem \in Seq(RecordType)
        /\ described \in Seq(EntryType)
    BY RecLengths, FileNames DEF RecInv, RecTypes
  <2>10. files'["journal"] = files["journal"] /\ files'["marker"] = files["marker"]
    BY <2>6, FileNames
  <2>11. /\ Extends(files["journal"].disk, files["journal"].mem)
         /\ Extends(files["media"].disk, files["media"].mem)
         /\ UnitsOnDisk(files["journal"].mem, files["media"].disk)
    BY <2>7, RunningFacts
  <2>12. /\ Extends(files["media"].disk, files'["media"].mem)
         /\ Extends(files["media"].disk, files["media"].disk)
         /\ Extends(files["journal"].disk, files["journal"].disk)
    BY <2>6, <2>9, <2>11, ExtendsTransitive, ExtendsItself
  <2>13. described' \in Seq(EntryType)
    BY <1>1, <2>9
  <2> QED
    BY <1>1, <1>3, <2>6, <2>7, <2>8, <2>10, <2>11, <2>12, <2>13, RunningFails
<1> QED
  <2> HIDE DEF p
  <2>1. \/ /\ files' = Write(files, "media", <<p>>)
           /\ hashed' = Append(hashed, p)
           /\ pending' = Append(pending, AccessUnitRecord(Head(queue).n, Len(hashed)))
           /\ queue' = Tail(queue) /\ resume' = "loop" /\ pc' \in {"loop", "syncMedia"}
           /\ UNCHANGED <<failed, faults>>
        \/ /\ Fault /\ FailRuntime /\ files' \in PartWritten(files, "media", <<p>>)
           /\ UNCHANGED <<pc, resume, hashed, pending>>
    BY DEF WriteAccessUnit, p
  <2> QED
    BY <1>2, <1>3, <2>1

\* Units that are on disk stay there when the media file grows.
LEMMA UnitsOnDiskGrows ==
  ASSUME NEW j \in Seq(RecordType), NEW m \in Seq(RecordType), NEW m2 \in Seq(RecordType),
         UnitsOnDisk(j, m), Extends(m, m2)
  PROVE  UnitsOnDisk(j, m2)
<1>1. Len(m) \in Nat /\ Len(m2) \in Nat /\ Len(m) <= Len(m2) /\ \A i \in 1 .. Len(m) : m2[i] = m[i]
  BY LenProperties DEF Extends
<1> SUFFICES ASSUME NEW k \in 1 .. Len(j), j[k].kind = "unit"
             PROVE  /\ j[k].at = j[k].n /\ j[k].n < Len(m2)
                    /\ m2[j[k].n + 1] = Payload(j[k].n)
  BY DEF UnitsOnDisk
<1>2. j[k].at = j[k].n /\ j[k].n < Len(m) /\ m[j[k].n + 1] = Payload(j[k].n)
  BY DEF UnitsOnDisk
<1>3. j[k] \in RecordType
  BY ElementOfSeq
<1>4. j[k].n \in Nat
  BY <1>3 DEF RecordType, EntryType, MarkerType
<1>5. j[k].n < Len(m2) /\ j[k].n + 1 \in 1 .. Len(m)
  BY <1>1, <1>2, <1>4
<1> QED
  BY <1>1, <1>2, <1>5

\* A group of units on disk may be appended to the journal.
LEMMA UnitsOnDiskAppend ==
  ASSUME NEW j \in Seq(RecordType), NEW m \in Seq(RecordType), NEW s \in Seq(RecordType),
         UnitsOnDisk(j, m),
         \A i \in 1 .. Len(s) : s[i].kind = "unit" =>
           s[i].at = s[i].n /\ s[i].n < Len(m) /\ m[s[i].n + 1] = Payload(s[i].n)
  PROVE  UnitsOnDisk(j \o s, m)
<1>1. /\ Len(j) \in Nat /\ Len(s) \in Nat /\ Len(j \o s) = Len(j) + Len(s)
      /\ \A i \in 1 .. Len(j) + Len(s) : (j \o s)[i] = IF i <= Len(j) THEN j[i] ELSE s[i - Len(j)]
  BY LenProperties, ConcatProperties
<1> SUFFICES ASSUME NEW k \in 1 .. Len(j \o s), (j \o s)[k].kind = "unit"
             PROVE  /\ (j \o s)[k].at = (j \o s)[k].n /\ (j \o s)[k].n < Len(m)
                    /\ m[(j \o s)[k].n + 1] = Payload((j \o s)[k].n)
  BY DEF UnitsOnDisk
<1>2. k \in 1 .. Len(j) + Len(s)
  BY <1>1
<1>3. CASE k <= Len(j)
  <2>1. k \in 1 .. Len(j) /\ (j \o s)[k] = j[k]
    BY <1>1, <1>2, <1>3
  <2> QED
    BY <2>1 DEF UnitsOnDisk
<1>4. CASE ~(k <= Len(j))
  <2>1. k - Len(j) \in 1 .. Len(s) /\ (j \o s)[k] = s[k - Len(j)]
    BY <1>1, <1>2, <1>4
  <2> QED
    BY <2>1
<1> QED
  BY <1>3, <1>4

\* What the pending group and its commit record say.
LEMMA GroupFacts ==
  ASSUME RecTypes, RecCounts, pending # <<>>
  PROVE  /\ GroupRecords \in Seq(RecordType) /\ Len(GroupRecords) = Len(pending) + 1
         /\ Len(pending) \in Nat /\ Len(pending) >= 1 /\ Len(hashed) \in Nat
         /\ Len(hashed) - Len(pending) \in Nat /\ Len(hashed) <= MaxUnits
         /\ \A i \in 1 .. Len(pending) :
              /\ GroupRecords[i].kind = "unit"
              /\ GroupRecords[i].n = Len(hashed) - Len(pending) + i - 1
              /\ GroupRecords[i].at = Len(hashed) - Len(pending) + i - 1
         /\ GroupRecords[Len(pending) + 1].kind = "commit"
         /\ GroupRecords[Len(pending) + 1].n = Len(hashed) - 1
         /\ GroupRecords[Len(pending) + 1].at = Len(hashed)
         /\ pending[Len(pending)].n + 1 = Len(hashed)
<1>1. /\ Len(pending) \in Nat /\ Len(hashed) \in Nat /\ pending \in Seq(EntryType)
      /\ nextIndex \in Nat /\ nextIndex <= MaxUnits /\ Len(queue) \in Nat
  BY RecLengths DEF RecTypes
<1>2. Len(pending) >= 1
  <2>1. Len(pending) # 0
    BY <1>1, EmptyFacts
  <2> QED
    BY <1>1, <2>1
<1>3. Len(pending) <= Len(hashed) /\ Len(hashed) + Len(queue) <= nextIndex
  BY DEF RecCounts
<1>4. Len(hashed) - Len(pending) \in Nat /\ Len(hashed) <= MaxUnits /\ Len(hashed) - 1 \in Nat
  BY <1>1, <1>2, <1>3, RecBounds
<1>5. \A i \in 1 .. Len(pending) : pending[i] = AccessUnitRecord(Len(hashed) - Len(pending) + i - 1,
                                                            Len(hashed) - Len(pending) + i - 1)
  BY DEF RecCounts
<1>6. \A i \in 1 .. Len(pending) : Len(hashed) - Len(pending) + i - 1 \in Nat
  BY <1>1, <1>4
<1>7. \A i \in 1 .. Len(pending) : /\ pending[i].kind = "unit"
                                   /\ pending[i].n = Len(hashed) - Len(pending) + i - 1
                                   /\ pending[i].at = Len(hashed) - Len(pending) + i - 1
  <2> TAKE i \in 1 .. Len(pending)
  <2>1. Len(hashed) - Len(pending) + i - 1 \in Nat
    BY <1>6
  <2>2. pending[i] = AccessUnitRecord(Len(hashed) - Len(pending) + i - 1,
                                      Len(hashed) - Len(pending) + i - 1)
    BY <1>5
  <2> HIDE <1>5, <1>6
  <2> QED
    BY <2>1, <2>2, RecordFacts
<1>8. pending[Len(pending)].n = Len(hashed) - 1
  <2>1. Len(pending) \in 1 .. Len(pending)
    BY <1>1, <1>2
  <2>2. Len(hashed) - Len(pending) + Len(pending) - 1 = Len(hashed) - 1
    BY <1>1
  <2> QED
    BY <1>7, <2>1, <2>2
<1> DEFINE c == CommitRecord(Len(hashed) - 1, Len(hashed))
<1>9. /\ c \in EntryType /\ c.kind = "commit" /\ c.n = Len(hashed) - 1 /\ c.at = Len(hashed)
  BY <1>1, <1>4, RecordFacts
<1>10. GroupRecords = Append(pending, c)
  BY <1>8 DEF GroupRecords
<1> HIDE DEF c
<1>11. /\ GroupRecords \in Seq(EntryType) /\ Len(GroupRecords) = Len(pending) + 1
       /\ \A i \in 1 .. Len(pending) : GroupRecords[i] = pending[i]
       /\ GroupRecords[Len(pending) + 1] = c
  BY <1>1, <1>9, <1>10, AppendProperties
<1>12. GroupRecords \in Seq(RecordType)
  BY <1>11, EntriesAreRecords
<1>13. pending[Len(pending)].n + 1 = Len(hashed)
  BY <1>1, <1>8
<1> QED
  BY <1>1, <1>2, <1>4, <1>7, <1>9, <1>11, <1>12, <1>13

\* The units of the pending group are on disk once the media is.
LEMMA GroupOnDisk ==
  ASSUME RecTypes, RecCounts, pending # <<>>, NEW m \in Seq(RecordType), Extends(hashed, m),
         NEW i \in 1 .. Len(GroupRecords), GroupRecords[i].kind = "unit"
  PROVE  /\ GroupRecords[i].at = GroupRecords[i].n /\ GroupRecords[i].n < Len(m)
         /\ m[GroupRecords[i].n + 1] = Payload(GroupRecords[i].n)
<1>1. /\ Len(GroupRecords) = Len(pending) + 1
      /\ Len(pending) \in Nat /\ Len(pending) >= 1 /\ Len(hashed) \in Nat
      /\ Len(hashed) - Len(pending) \in Nat
      /\ \A k \in 1 .. Len(pending) :
              /\ GroupRecords[k].kind = "unit"
              /\ GroupRecords[k].n = Len(hashed) - Len(pending) + k - 1
              /\ GroupRecords[k].at = Len(hashed) - Len(pending) + k - 1
      /\ GroupRecords[Len(pending) + 1].kind = "commit"
  BY GroupFacts
<1>2. i \in 1 .. Len(pending)
  BY <1>1
<1>3. GroupRecords[i].n + 1 \in 1 .. Len(hashed) /\ GroupRecords[i].n \in Nat
  BY <1>1, <1>2
<1>4. Len(m) \in Nat /\ Len(hashed) <= Len(m) /\ \A k \in 1 .. Len(hashed) : m[k] = hashed[k]
  BY LenProperties DEF Extends
<1>5. m[GroupRecords[i].n + 1] = Payload(GroupRecords[i].n + 1 - 1)
  BY <1>3, <1>4 DEF RecCounts
<1>6. GroupRecords[i].n + 1 - 1 = GroupRecords[i].n /\ GroupRecords[i].n < Len(m)
  BY <1>1, <1>3, <1>4
<1> QED
  BY <1>1, <1>2, <1>5, <1>6

\* A journal that is read to its end and then continued by the group.
LEMMA GroupIsRead ==
  ASSUME RecTypes, RecCounts, pending # <<>>,
         NEW j \in Seq(RecordType), Len(j) >= 1,
         NEW m \in Seq(RecordType), Len(hashed) <= Len(m),
         \A k \in 2 .. Len(j) : Accepted(j, m, k),
         UnitsBefore(j, Len(j) + 1) = Len(hashed) - Len(pending)
  PROVE  LET n == j \o GroupRecords
         IN  /\ n \in Seq(RecordType) /\ Len(n) = Len(j) + Len(pending) + 1
             /\ \A k \in 2 .. Len(n) : Accepted(n, m, k)
             /\ UnitsBefore(n, Len(n) + 1) = Len(hashed)
             /\ n[Len(n)].kind = "commit" /\ n[Len(n)].n + 1 = Len(hashed)
<1> DEFINE n == j \o GroupRecords
<1> DEFINE b == Len(hashed) - Len(pending)
<1>1. /\ GroupRecords \in Seq(RecordType) /\ Len(GroupRecords) = Len(pending) + 1
      /\ Len(pending) \in Nat /\ Len(pending) >= 1 /\ Len(hashed) \in Nat
      /\ b \in Nat
      /\ \A i \in 1 .. Len(pending) :
           /\ GroupRecords[i].kind = "unit"
           /\ GroupRecords[i].n = b + i - 1
           /\ GroupRecords[i].at = b + i - 1
      /\ GroupRecords[Len(pending) + 1].kind = "commit"
      /\ GroupRecords[Len(pending) + 1].n = Len(hashed) - 1
      /\ GroupRecords[Len(pending) + 1].at = Len(hashed)
  BY GroupFacts
<1>2. /\ Len(j) \in Nat /\ n \in Seq(RecordType) /\ Len(n) = Len(j) + Len(GroupRecords)
      /\ \A i \in 1 .. Len(j) + Len(GroupRecords) :
           n[i] = IF i <= Len(j) THEN j[i] ELSE GroupRecords[i - Len(j)]
  <2>1. Len(j) \in Nat
    BY LenProperties
  <2>2. GroupRecords \in Seq(RecordType)
    BY <1>1
  <2>3. /\ n \in Seq(RecordType) /\ Len(n) = Len(j) + Len(GroupRecords)
        /\ \A i \in 1 .. Len(j) + Len(GroupRecords) :
             n[i] = IF i <= Len(j) THEN j[i] ELSE GroupRecords[i - Len(j)]
    BY <2>2, ConcatProperties
  <2> HIDE DEF n
  <2> QED
    BY <2>1, <2>3
<1>3. Len(hashed) = b + Len(pending)
  BY <1>1
<1>4. Extends(j, n)
  BY <1>1, ExtendsFacts
<1> HIDE DEF n, b
<1>5. Len(n) = Len(j) + Len(pending) + 1
  BY <1>1, <1>2
<1>6. \A i \in 1 .. Len(pending) + 1 : n[Len(j) + i] = GroupRecords[i]
  <2> TAKE i \in 1 .. Len(pending) + 1
  <2>1. Len(j) + i \in 1 .. Len(j) + Len(GroupRecords) /\ ~(Len(j) + i <= Len(j)) /\ Len(j) + i - Len(j) = i
    BY <1>1, <1>2
  <2> QED
    BY <1>2, <2>1
<1>7. ASSUME NEW p \in 1 .. Len(pending) + 1 PROVE UnitsBefore(n, Len(j) + p) = b + p - 1
  <2> DEFINE S == {k \in 2 .. Len(j) + 1 - 1 : j[k].kind = "unit"}
  <2> DEFINE T == Len(j) + 1 .. Len(j) + p - 1
  <2>1. IsFiniteSet(S) /\ Cardinality(S) = b
    <3>1. UnitsBefore(j, Len(j) + 1) = b
      BY DEF b
    <3>2. Len(j) + 1 \in Nat
      BY <1>2
    <3>3. IsFiniteSet(S)
      BY <3>2, UnitsCount
    <3>4. UnitsBefore(j, Len(j) + 1) = Cardinality(S)
      BY DEF UnitsBefore
    <3> QED
      BY <3>1, <3>3, <3>4
  <2>2. IsFiniteSet(T) /\ Cardinality(T) = p - 1
    <3>1. Len(j) + 1 \in Int /\ Len(j) + p - 1 \in Int
      BY <1>1, <1>2
    <3>2. (IF Len(j) + 1 > Len(j) + p - 1 THEN 0 ELSE (Len(j) + p - 1) - (Len(j) + 1) + 1) = p - 1
      BY <1>1, <1>2
    <3> QED
      BY <3>1, <3>2, FS_Interval
  <2>3. {k \in 2 .. Len(j) + p - 1 : n[k].kind = "unit"} = S \cup T
    <3>1. ASSUME NEW k \in 2 .. Len(j) + p - 1, n[k].kind = "unit" PROVE k \in S \cup T
      <4>1. CASE k <= Len(j)
        <5>1. k \in 2 .. Len(j) + 1 - 1 /\ n[k] = j[k]
          BY <1>1, <1>2, <4>1
        <5> QED
          BY <3>1, <5>1
      <4>2. CASE ~(k <= Len(j))
        BY <1>1, <1>2, <4>2
      <4> QED
        BY <4>1, <4>2
    <3>2. ASSUME NEW k \in S PROVE k \in 2 .. Len(j) + p - 1 /\ n[k].kind = "unit"
      <4>1. k \in 2 .. Len(j) + 1 - 1 /\ j[k].kind = "unit"
        OBVIOUS
      <4>2. k \in 2 .. Len(j) + p - 1 /\ k \in 1 .. Len(j) + Len(GroupRecords) /\ k <= Len(j)
        BY <1>1, <1>2, <4>1
      <4> QED
        BY <1>2, <4>1, <4>2
    <3>3. ASSUME NEW k \in T PROVE k \in 2 .. Len(j) + p - 1 /\ n[k].kind = "unit"
      <4>1. k \in 2 .. Len(j) + p - 1 /\ k - Len(j) \in 1 .. Len(pending) /\ Len(j) + (k - Len(j)) = k
            /\ k - Len(j) \in 1 .. Len(pending) + 1
        BY <1>1, <1>2
      <4> QED
        BY <1>1, <1>6, <4>1
    <3> HIDE DEF S, T
    <3> QED
      BY <3>1, <3>2, <3>3
  <2>4. S \cap T = {}
    BY <1>1, <1>2
  <2>5. Cardinality(S \cup T) = b + (p - 1)
    <3>1. Cardinality(S \cap T) = 0
      BY <2>4, FS_EmptySet
    <3>2. Cardinality(S \cup T) = Cardinality(S) + Cardinality(T) - Cardinality(S \cap T)
      BY <2>1, <2>2, FS_Union
    <3> HIDE DEF S, T
    <3> QED
      BY <1>1, <2>1, <2>2, <3>1, <3>2
  <2> HIDE DEF S, T
  <2>6. b + (p - 1) = b + p - 1
    BY <1>1
  <2>7. UnitsBefore(n, Len(j) + p) = Cardinality({k \in 2 .. Len(j) + p - 1 : n[k].kind = "unit"})
    BY DEF UnitsBefore
  <2> QED
    BY <2>3, <2>5, <2>6, <2>7
<1>8. ASSUME NEW k \in 2 .. Len(n) PROVE Accepted(n, m, k)
  <2>1. CASE k <= Len(j)
    <3>1. k \in 2 .. Len(j) /\ Accepted(j, m, k)
      BY <1>2, <2>1
    <3>2. Len(m) <= Len(m)
      BY LenProperties
    <3> QED
      BY <1>2, <1>4, <3>1, <3>2, AcceptedGrows
  <2>2. CASE ~(k <= Len(j)) /\ k - Len(j) \in 1 .. Len(pending)
    <3> DEFINE p == k - Len(j)
    <3>1. p \in 1 .. Len(pending) /\ p \in 1 .. Len(pending) + 1 /\ Len(j) + p = k
      BY <1>1, <1>2, <2>2
    <3> HIDE DEF p
    <3>2. n[k].kind = "unit" /\ n[k].n = b + p - 1 /\ UnitsBefore(n, k) = b + p - 1
      BY <1>1, <1>6, <1>7, <3>1
    <3> QED
      BY <3>2 DEF Accepted
  <2>3. CASE k = Len(j) + (Len(pending) + 1)
    <3>1. Len(pending) + 1 \in 1 .. Len(pending) + 1 /\ Len(pending) \in 1 .. Len(pending) + 1
          /\ Len(pending) \in 1 .. Len(pending) /\ k - 1 = Len(j) + Len(pending)
      BY <1>1, <1>2, <2>3
    <3>2. n[k].kind = "commit" /\ n[k].n = Len(hashed) - 1 /\ n[k].at = Len(hashed)
      BY <1>1, <1>6, <2>3, <3>1
    <3>3. /\ n[k - 1].kind = "unit" /\ n[k - 1].n = b + Len(pending) - 1
          /\ n[k - 1].at = b + Len(pending) - 1
      BY <1>1, <1>6, <3>1
    <3>4. UnitsBefore(n, k) = b + (Len(pending) + 1) - 1
      BY <1>7, <2>3, <3>1
    <3>5. /\ Len(hashed) - 1 = b + Len(pending) - 1 /\ (Len(hashed) - 1) + 1 = Len(hashed)
          /\ b + (Len(pending) + 1) - 1 = Len(hashed) /\ (b + Len(pending) - 1) + 1 = Len(hashed)
      BY <1>1, <1>3
    <3> QED
      BY <3>2, <3>3, <3>4, <3>5 DEF Accepted
  <2>4. k - Len(j) \in 1 .. Len(pending) + 1 \/ k <= Len(j)
    BY <1>1, <1>2, <1>5
  <2>5. k - Len(j) = Len(pending) + 1 => k = Len(j) + (Len(pending) + 1)
    BY <1>1, <1>2
  <2>6. k - Len(j) \in 1 .. Len(pending) \/ k - Len(j) = Len(pending) + 1 \/ k <= Len(j)
    <3>1. \A l \in Nat : \A x \in 1 .. l + 1 : x \in 1 .. l \/ x = l + 1
      OBVIOUS
    <3> QED
      BY <1>1, <2>4, <3>1
  <2> QED
    BY <2>1, <2>2, <2>3, <2>5, <2>6
<1>9. UnitsBefore(n, Len(n) + 1) = Len(hashed)
  <2>1. Len(pending) + 1 \in 1 .. Len(pending) + 1 /\ b + (Len(pending) + 1) - 1 = Len(hashed)
        /\ Len(n) = Len(j) + (Len(pending) + 1)
    BY <1>1, <1>2, <1>3
  <2>2. UnitsBefore(n, Len(n)) = Len(hashed) /\ n[Len(n)].kind = "commit"
    BY <1>1, <1>6, <1>7, <2>1
  <2>3. Len(n) \in Nat /\ Len(n) + 1 - 1 = Len(n)
    BY <1>2, LenProperties
  <2>4. {k \in 2 .. Len(n) : n[k].kind = "unit"} = {k \in 2 .. Len(n) - 1 : n[k].kind = "unit"}
    <3>1. \A k \in 2 .. Len(n) : k # Len(n) => k \in 2 .. Len(n) - 1
      <4>1. \A l \in Nat : \A k \in 2 .. l : k # l => k \in 2 .. l - 1
        OBVIOUS
      <4> QED
        BY <2>3, <4>1
    <3>2. \A k \in 2 .. Len(n) - 1 : k \in 2 .. Len(n)
      <4>1. \A l \in Nat : \A k \in 2 .. l - 1 : k \in 2 .. l
        OBVIOUS
      <4> QED
        BY <2>3, <4>1
    <3>3. n[Len(n)].kind # "unit"
      BY <2>2
    <3> QED
      BY <3>1, <3>2, <3>3
  <2>5. /\ UnitsBefore(n, Len(n)) = Cardinality({k \in 2 .. Len(n) - 1 : n[k].kind = "unit"})
        /\ UnitsBefore(n, Len(n) + 1) = Cardinality({k \in 2 .. Len(n) + 1 - 1 : n[k].kind = "unit"})
    BY DEF UnitsBefore
  <2> QED
    BY <2>2, <2>3, <2>4, <2>5
<1>10. n[Len(n)].kind = "commit" /\ n[Len(n)].n + 1 = Len(hashed)
  <2>1. Len(pending) + 1 \in 1 .. Len(pending) + 1
        /\ Len(n) = Len(j) + (Len(pending) + 1) /\ (Len(hashed) - 1) + 1 = Len(hashed)
    BY <1>1, <1>2
  <2> QED
    BY <1>1, <1>6, <2>1
<1> QED
  BY <1>2, <1>5, <1>8, <1>9, <1>10 DEF n

\* What a commit that goes on leaves alone.
LEMMA CommitGoesOn ==
  ASSUME RecInv, pc \in Committing, pc' \in Committing,
         files' \in [File -> FileType], files'["marker"] = files["marker"],
         \A f \in File : files'[f].at = files[f].at /\ files'[f].entry = files[f].entry,
         committed' \in Nat, promised' \in Nat,
         promised' <= committed', committed' <= Len(hashed),
         pc' \in {"sidecar", "syncSidecar"} => committed' = Len(hashed),
         UNCHANGED <<resume, seen, queue, pending, hashed, described, wall, nextIndex, failed,
                     stopRequested, publishRequested, commitPendingOnFailure, completed, prepared,
                     caller, faults>>
  PROVE  /\ RecTypes' /\ RecCounts' /\ RecFlags' /\ RecNames' /\ RecMarker' /\ RecSealed'
         /\ pc \in Running /\ pending # <<>>
<1>1. /\ pc \in Running /\ pc' \in Running \cup {"suffix", "exited"} /\ pc' \in Steps /\ pc' # "suffix"
      /\ pc' \notin Publishing
  BY DEF Running, Steps, Committing, Publishing
<1>2. pending # <<>>
  BY DEF RecInv, RecCounts
<1>3. RecTypes'
  BY <1>1 DEF RecInv, RecTypes
<1>4. RecCounts'
  BY <1>1, <1>2 DEF RecInv, RecCounts
<1>5. pc \in Committing /\ resume = "publish" => ~failed
  BY DEF RecInv, RecFlags
<1>6. RecFlags'
  BY <1>1, <1>5, RunningFlags
<1>7. RecNames' /\ RecMarker' /\ RecSealed'
  BY <1>1, RunningNames
<1> QED
  BY <1>1, <1>2, <1>3, <1>4, <1>6, <1>7

\* The counts of a commit that goes on.
LEMMA CommitCounts ==
  ASSUME RecInv
  PROVE  /\ committed \in Nat /\ promised \in Nat /\ promised <= committed /\ committed <= Len(hashed)
         /\ pc \in {"sidecar", "syncSidecar"} => committed = Len(hashed)
         /\ faults \in 0 .. MaxFaults /\ described \in Seq(EntryType)
         /\ files \in [File -> FileType]
         /\ \A f \in File : files[f].mem \in Seq(RecordType) /\ files[f].disk \in Seq(RecordType)
         /\ hashed \in Seq(RecordType) /\ pending \in Seq(RecordType)
BY RecLengths, EntriesAreRecords DEF RecInv, RecTypes, RecCounts

\* A commit that fails.
LEMMA CommitGivesUp ==
  ASSUME RecInv, pc \in Committing, FailRuntime, pc' = AfterCommit(resume, FALSE)
  PROVE  /\ pc \in Running /\ failed' = TRUE /\ queue' = <<>>
         /\ pc' \in {"loop", "stopping", "decide", "exited"}
         /\ pc' \notin Committing
<1>1. resume \in {"loop", "timer", "stopping", "publish"}
  BY DEF RecInv, RecTypes
<1>2. pc' \in {"loop", "stopping", "decide", "exited"}
  BY <1>1, AfterCommitFacts
<1>3. pc' \notin Committing /\ pc \in Running
  BY <1>2 DEF Committing, Running
<1> QED
  BY <1>2, <1>3 DEF FailRuntime

\* commit_group synchronizes the media file.
LEMMA SyncMediaStep ==
  ASSUME RecInv, SyncMediaGroup,
         UNCHANGED <<resume, seen, nextIndex, stopRequested, publishRequested,
                     commitPendingOnFailure, completed, prepared, caller>>
  PROVE  RecInv'
<1> DEFINE s == Sync(files, "media")
<1>1. /\ pc = "syncMedia" /\ pc \in Committing /\ pc \in Running
      /\ UNCHANGED <<pending, hashed, described, committed, promised, wall>>
  BY DEF SyncMediaGroup, CommitStep, group, Committing, Running
<1>2. /\ committed \in Nat /\ promised \in Nat /\ promised <= committed /\ committed <= Len(hashed)
      /\ faults \in 0 .. MaxFaults /\ described \in Seq(EntryType)
      /\ files \in [File -> FileType]
      /\ \A f \in File : files[f].mem \in Seq(RecordType) /\ files[f].disk \in Seq(RecordType)
      /\ hashed \in Seq(RecordType) /\ pending \in Seq(RecordType)
  BY CommitCounts
<1>3. /\ Extends(files["journal"].disk, files["journal"].mem)
      /\ Extends(files["media"].disk, files["media"].mem)
      /\ Extends(hashed, files["media"].mem)
      /\ UnitsOnDisk(files["journal"].mem, files["media"].disk)
      /\ Kept(files["journal"].disk, files["media"].disk, promised)
      /\ Len(files["journal"].disk) >= 1 /\ files["journal"].disk[1] = Header
  BY <1>1, RunningFacts
<1>4. /\ s \in [File -> FileType] /\ \A g \in File : g # "media" => s[g] = files[g]
      /\ s["media"].mem = files["media"].mem /\ s["media"].disk = files["media"].mem
      /\ s["media"].at = files["media"].at /\ s["media"].entry = files["media"].entry
  BY <1>2, SyncFacts, FileNames
<1>5. ASSUME files' \in {files, s}
      PROVE  /\ files' \in [File -> FileType] /\ \A g \in File : g # "media" => files'[g] = files[g]
             /\ files'["media"].mem = files["media"].mem
             /\ files'["media"].disk \in {files["media"].mem, files["media"].disk}
             /\ \A f \in File : files'[f].at = files[f].at /\ files'[f].entry = files[f].entry
             /\ Extends(files["media"].disk, files'["media"].disk)
             /\ Extends(files'["media"].disk, files'["media"].mem)
             /\ Extends(files["media"].mem, files'["media"].mem)
             /\ files'["journal"] = files["journal"] /\ files'["marker"] = files["marker"]
             /\ files'["sidecar"] = files["sidecar"]
             /\ UnitsOnDisk(files'["journal"].mem, files'["media"].disk)
  <2> HIDE DEF s
  <2>1. /\ files' \in [File -> FileType] /\ \A g \in File : g # "media" => files'[g] = files[g]
        /\ files'["media"].mem = files["media"].mem
        /\ files'["media"].disk \in {files["media"].mem, files["media"].disk}
        /\ files'["media"].at = files["media"].at /\ files'["media"].entry = files["media"].entry
    BY <1>2, <1>4, <1>5, FileNames
  <2>2. files'["journal"] = files["journal"] /\ files'["marker"] = files["marker"]
        /\ files'["sidecar"] = files["sidecar"]
    BY <2>1, FileNames
  <2>3. files["media"].mem \in Seq(RecordType) /\ files["media"].disk \in Seq(RecordType)
        /\ files["journal"].mem \in Seq(RecordType)
    BY <1>2, FileNames
  <2>4. /\ Extends(files["media"].disk, files'["media"].disk)
        /\ Extends(files'["media"].disk, files'["media"].mem)
        /\ Extends(files["media"].mem, files'["media"].mem)
    BY <1>3, <2>1, <2>3, ExtendsItself
  <2>5. UnitsOnDisk(files'["journal"].mem, files'["media"].disk)
    BY <1>3, <2>1, <2>2, <2>3, <2>4, UnitsOnDiskGrows
  <2> QED
    BY <2>1, <2>2, <2>4, <2>5
<1>6. CASE pc' = "journal" /\ files' = s /\ Healthy /\ UNCHANGED faults
  <2>1. pc' \in Committing /\ pc' \in Committing \ {"syncMedia"}
        /\ pc' \notin {"syncJournal", "sidecar", "syncSidecar"}
        /\ pc' \notin Preparing /\ pc' \notin Publishing /\ pc' # "syncSuffix" /\ pc' \in Running
    BY <1>6 DEF Committing, Preparing, Publishing, Running
  <2>2. /\ RecTypes' /\ RecCounts' /\ RecFlags' /\ RecNames' /\ RecMarker' /\ RecSealed'
        /\ pending # <<>>
    BY <1>1, <1>2, <1>5, <1>6, <2>1, CommitGoesOn DEF Healthy
  <2>3. RecMedia'
    <3>1. ~failed => files["media"].mem = hashed
      BY <1>1 DEF RecInv, RecMedia
    <3>2. Extends(hashed, files'["media"].mem) /\ Extends(hashed, files'["media"].disk)
      BY <1>3, <1>4, <1>6
    <3> QED
      BY <1>1, <1>5, <1>6, <2>1, <2>2, <3>1, <3>2 DEF RecMedia, Healthy
  <2>4. RecSidecar'
    BY <1>1, <1>5, <1>6, <2>1 DEF RecInv, RecSidecar, Healthy
  <2>5. files["media"].disk \in Seq(RecordType) /\ files'["media"].disk \in Seq(RecordType)
        /\ files["journal"].disk \in Seq(RecordType) /\ files["journal"].mem \in Seq(RecordType)
        /\ Len(files["media"].disk) <= Len(files'["media"].disk)
    <3>1. Extends(files["media"].disk, files'["media"].disk)
      BY <1>5, <1>6
    <3> QED
      BY <1>2, <1>4, <1>6, <3>1, FileNames DEF Extends
  <2>6. RecJournal'
    <3>1. Kept(files'["journal"].disk, files'["media"].disk, promised)
      BY <1>3, <1>5, <1>6, <2>5, KeptGrows, ExtendsItself
    <3> QED
      BY <1>1, <1>3, <1>5, <1>6, <2>1, <3>1 DEF RecJournal
  <2>7. RecHealthy'
    <3> SUFFICES ASSUME ~failed PROVE RecHealthy'
      BY <1>6 DEF RecHealthy, Healthy
    <3> DEFINE j == files["journal"].mem
    <3>1. /\ \A k \in 2 .. Len(j) : Accepted(j, files["media"].disk, k)
          /\ UnitsBefore(j, Len(j) + 1) = Len(hashed) - Len(pending)
          /\ Len(j) <= 2 * UnitsBefore(j, Len(j) + 1) + 1
      BY <1>1 DEF RecInv, RecHealthy
    <3>2. j \in Seq(RecordType) /\ files'["journal"].mem = j
      BY <1>5, <1>6, <2>5
    <3> HIDE DEF j
    <3>3. \A k \in 2 .. Len(j) : Accepted(j, files'["media"].disk, k)
      BY <2>5, <3>1, <3>2, AcceptedGrows, ExtendsItself
    <3> QED
      BY <1>1, <2>1, <3>1, <3>2, <3>3 DEF RecHealthy
  <2> QED
    BY <2>2, <2>3, <2>4, <2>6, <2>7 DEF RecInv
<1>7. CASE Fault /\ files' \in {files, s} /\ FailRuntime /\ pc' = AfterCommit(resume, FALSE)
  <2>1. /\ pc \in Running /\ failed' = TRUE /\ queue' = <<>>
        /\ pc' \in {"loop", "stopping", "decide", "exited"}
    BY <1>1, <1>7, CommitGivesUp
  <2>2. faults' \in 0 .. MaxFaults
    BY <1>7, FaultBound DEF RecInv
  <2>3. Extends(files["journal"].disk, files'["journal"].disk)
    BY <1>2, <1>5, <1>7, ExtendsItself, FileNames
  <2>4. Extends(files'["journal"].disk, files'["journal"].mem)
    BY <1>3, <1>5, <1>7
  <2>5. described' \in Seq(EntryType)
    BY <1>1, <1>2
  <2> HIDE DEF s
  <2> QED
    BY <1>1, <1>5, <1>7, <2>1, <2>2, <2>3, <2>4, <2>5, RunningFails
<1> QED
  BY <1>6, <1>7 DEF SyncMediaGroup, CommitStep

\* What the worker's files are while a group is committed.
LEMMA CommitFiles ==
  ASSUME RecInv, pc \in Committing
  PROVE  /\ pc \in Running /\ pending # <<>>
         /\ Extends(files["journal"].disk, files["journal"].mem)
         /\ Extends(files["media"].disk, files["media"].mem)
         /\ Extends(hashed, files["media"].mem)
         /\ pc # "syncMedia" => Extends(hashed, files["media"].disk)
         /\ UnitsOnDisk(files["journal"].mem, files["media"].disk)
         /\ Kept(files["journal"].disk, files["media"].disk, promised)
         /\ Len(files["journal"].disk) >= 1 /\ files["journal"].disk[1] = Header
         /\ ~failed => files["media"].mem = hashed
<1>1. pc \in Running
  BY DEF Committing, Running
<1>2. pc # "syncMedia" => Extends(hashed, files["media"].disk)
  BY <1>1 DEF RecInv, RecMedia
<1>3. ~failed => files["media"].mem = hashed
  BY <1>1 DEF RecInv, RecMedia
<1>4. pending # <<>>
  BY DEF RecInv, RecCounts
<1> QED
  BY <1>1, <1>2, <1>3, <1>4, RunningFacts

\* A healthy worker's files stay below the bound of the model.
LEMMA BelowCap ==
  ASSUME RecInv, pc \in Committing, ~failed
  PROVE  /\ pc = "journal" => ~(Len(files["journal"].mem) > FileCap)
         /\ pc = "sidecar" => ~(Len(files["sidecar"].mem) > FileCap)
         /\ pc = "syncSidecar" => ~(Len(described) > FileCap)
<1>1. pc \in Running
  BY DEF Committing, Running
<1>2. /\ Len(hashed) \in Nat /\ Len(pending) \in Nat /\ Len(pending) <= Len(hashed)
      /\ Len(hashed) <= MaxUnits /\ MaxUnits \in Nat
  <2>1. pending # <<>> /\ RecTypes /\ RecCounts
    BY DEF RecInv, RecCounts
  <2> QED
    BY <2>1, GroupFacts, RecBounds DEF RecCounts
<1>3. FileCap = 2 * MaxUnits + 1
  BY RecBounds
<1>4. CASE pc = "journal"
  <2> DEFINE j == files["journal"].mem
  <2> DEFINE u == UnitsBefore(j, Len(j) + 1)
  <2>1. Len(j) \in Nat
    BY RecLengths, FileNames DEF RecInv
  <2>2. u = Len(hashed) - Len(pending) /\ Len(j) <= 2 * u + 1
    BY <1>1, <1>4 DEF RecInv, RecHealthy
  <2> HIDE DEF j, u
  <2>3. Len(j) <= 2 * MaxUnits + 1
    BY <1>2, <2>1, <2>2
  <2>4. ~(Len(j) > FileCap)
    BY <1>2, <1>3, <2>1, <2>3
  <2> QED
    BY <1>4, <2>4 DEF j
<1>5. CASE pc \in {"sidecar", "syncSidecar"}
  <2>1. Len(described) = Len(hashed) - Len(pending)
    BY <1>1, <1>5 DEF RecInv, RecSidecar
  <2>2. pc = "sidecar" => files["sidecar"].mem = described
    BY <1>1, <1>5 DEF RecInv, RecSidecar
  <2>3. ~(Len(described) > FileCap)
    BY <1>2, <1>3, <2>1
  <2> QED
    BY <1>5, <2>2, <2>3
<1> QED
  BY <1>4, <1>5

\* commit_group appends the group and its commit record to the journal.
LEMMA WriteJournalStep ==
  ASSUME RecInv, WriteJournalGroup,
         UNCHANGED <<resume, seen, nextIndex, stopRequested, publishRequested,
                     commitPendingOnFailure, completed, prepared, caller>>
  PROVE  RecInv'
<1> DEFINE j == files["journal"].mem
<1>1. /\ pc = "journal" /\ pc \in Committing
      /\ UNCHANGED <<pending, hashed, described, committed, promised, wall>>
  BY DEF WriteJournalGroup, CommitStep, group, Committing
<1>2. /\ committed \in Nat /\ promised \in Nat /\ promised <= committed /\ committed <= Len(hashed)
      /\ faults \in 0 .. MaxFaults /\ described \in Seq(EntryType)
      /\ files \in [File -> FileType]
      /\ \A f \in File : files[f].mem \in Seq(RecordType) /\ files[f].disk \in Seq(RecordType)
      /\ hashed \in Seq(RecordType) /\ pending \in Seq(RecordType)
  BY CommitCounts
<1>3. /\ pc \in Running /\ pending # <<>>
      /\ Extends(files["journal"].disk, files["journal"].mem)
      /\ Extends(files["media"].disk, files["media"].mem)
      /\ Extends(hashed, files["media"].mem)
      /\ Extends(hashed, files["media"].disk)
      /\ UnitsOnDisk(files["journal"].mem, files["media"].disk)
      /\ Kept(files["journal"].disk, files["media"].disk, promised)
      /\ Len(files["journal"].disk) >= 1 /\ files["journal"].disk[1] = Header
      /\ ~failed => files["media"].mem = hashed
  BY <1>1, CommitFiles
<1>4. /\ j \in Seq(RecordType) /\ files["journal"].disk \in Seq(RecordType)
      /\ files["media"].mem \in Seq(RecordType) /\ files["media"].disk \in Seq(RecordType)
      /\ RecTypes /\ RecCounts
  BY <1>2, FileNames DEF RecInv
<1> HIDE DEF j
<1>5. GroupRecords \in Seq(RecordType)
  BY <1>3, <1>4, GroupFacts
<1>6. ASSUME files' \in Written("journal", GroupRecords) \cup Broken("journal", GroupRecords)
      PROVE  /\ files' \in [File -> FileType] /\ \A g \in File : g # "journal" => files'[g] = files[g]
             /\ files'["journal"].disk = files["journal"].disk
             /\ \A f \in File : files'[f].at = files[f].at /\ files'[f].entry = files[f].entry
             /\ Extends(j, files'["journal"].mem)
             /\ files'["journal"].mem \in Seq(RecordType)
             /\ UnitsOnDisk(files'["journal"].mem, files["media"].disk)
  <2>1. \A i \in 1 .. Len(GroupRecords) : GroupRecords[i].kind = "unit" =>
          /\ GroupRecords[i].at = GroupRecords[i].n /\ GroupRecords[i].n < Len(files["media"].disk)
          /\ files["media"].disk[GroupRecords[i].n + 1] = Payload(GroupRecords[i].n)
    BY <1>3, <1>4, GroupOnDisk
  <2>2. \/ files' = files
        \/ files' = Write(files, "journal", GroupRecords)
        \/ files' \in PartWritten(files, "journal", GroupRecords)
    BY <1>6 DEF Written, Broken
  <2>3. ASSUME NEW part \in Seq(RecordType), files' = Write(files, "journal", part),
               \A i \in 1 .. Len(part) : part[i].kind = "unit" =>
                 i \in 1 .. Len(GroupRecords) /\ part[i] = GroupRecords[i]
        PROVE  /\ files' \in [File -> FileType] /\ \A g \in File : g # "journal" => files'[g] = files[g]
               /\ files'["journal"].disk = files["journal"].disk
               /\ \A f \in File : files'[f].at = files[f].at /\ files'[f].entry = files[f].entry
               /\ Extends(j, files'["journal"].mem)
               /\ files'["journal"].mem \in Seq(RecordType)
               /\ UnitsOnDisk(files'["journal"].mem, files["media"].disk)
    <3>1. /\ files' \in [File -> FileType] /\ \A g \in File : g # "journal" => files'[g] = files[g]
          /\ files'["journal"].mem = files["journal"].mem \o part
          /\ files'["journal"].disk = files["journal"].disk
          /\ files'["journal"].at = files["journal"].at /\ files'["journal"].entry = files["journal"].entry
          /\ files["journal"].mem \o part \in Seq(RecordType)
          /\ Extends(files["journal"].mem, files["journal"].mem \o part)
      <4> DEFINE w == Write(files, "journal", part)
      <4>1. "journal" \in File /\ files \in [File -> FileType]
        BY <1>2, FileNames
      <4>2. /\ w \in [File -> FileType] /\ \A g \in File : g # "journal" => w[g] = files[g]
            /\ w["journal"].mem = files["journal"].mem \o part
            /\ w["journal"].disk = files["journal"].disk
            /\ w["journal"].at = files["journal"].at /\ w["journal"].entry = files["journal"].entry
            /\ files["journal"].mem \o part \in Seq(RecordType)
            /\ Extends(files["journal"].mem, files["journal"].mem \o part)
        BY <4>1, WriteFacts
      <4>3. files' = w
        BY <2>3
      <4> HIDE DEF w
      <4> QED
        BY <4>2, <4>3
    <3>2. \A i \in 1 .. Len(part) : part[i].kind = "unit" =>
            /\ part[i].at = part[i].n /\ part[i].n < Len(files["media"].disk)
            /\ files["media"].disk[part[i].n + 1] = Payload(part[i].n)
      <4> TAKE i \in 1 .. Len(part)
      <4> HAVE part[i].kind = "unit"
      <4>1. i \in 1 .. Len(GroupRecords) /\ part[i] = GroupRecords[i]
        BY <2>3
      <4> HIDE <2>3
      <4> QED
        BY <2>1, <4>1
    <3>3. UnitsOnDisk(files["journal"].mem \o part, files["media"].disk)
      BY <1>3, <1>4, <3>2, UnitsOnDiskAppend DEF j
    <3> QED
      BY <3>1, <3>3 DEF j
  <2>4. CASE files' = files
    BY <1>2, <1>3, <1>4, <2>4, ExtendsItself DEF j
  <2>5. CASE files' = Write(files, "journal", GroupRecords)
    BY <1>5, <2>3, <2>5
  <2>6. CASE files' \in PartWritten(files, "journal", GroupRecords)
    <3>1. PICK part \in Seq(RecordType) :
            /\ files' = Write(files, "journal", part)
            /\ \A i \in 1 .. Len(part) : part[i].kind = "unit" =>
                 i <= Len(GroupRecords) /\ part[i] = GroupRecords[i]
      <4>1. "journal" \in File
        BY FileNames
      <4> QED
        BY <1>5, <2>6, <4>1, PartFacts
    <3>2. \A i \in 1 .. Len(part) : part[i].kind = "unit" =>
            i \in 1 .. Len(GroupRecords) /\ part[i] = GroupRecords[i]
      <4>1. Len(GroupRecords) \in Nat /\ Len(part) \in Nat
        BY <1>5, LenProperties
      <4> QED
        BY <3>1, <4>1
    <3> QED
      BY <2>3, <3>1, <3>2
  <2> QED
    BY <2>2, <2>4, <2>5, <2>6
<1>7. ASSUME files' \in Written("journal", GroupRecords) \cup Broken("journal", GroupRecords)
      PROVE  files'["media"] = files["media"] /\ files'["sidecar"] = files["sidecar"]
             /\ files'["marker"] = files["marker"]
  BY <1>6, <1>7, FileNames
<1>8. CASE pc' = "syncJournal" /\ files' \in Written("journal", GroupRecords) /\ Healthy /\ UNCHANGED faults
  <2>1. pc' \in Committing /\ pc' \in Committing \ {"syncMedia"}
        /\ pc' \notin {"sidecar", "syncSidecar"}
        /\ pc' \notin Preparing /\ pc' \notin Publishing /\ pc' # "syncSuffix" /\ pc' \in Running
    BY <1>8 DEF Committing, Preparing, Publishing, Running
  <2>2. /\ files' \in [File -> FileType] /\ files'["journal"].disk = files["journal"].disk
        /\ \A f \in File : files'[f].at = files[f].at /\ files'[f].entry = files[f].entry
        /\ Extends(j, files'["journal"].mem)
        /\ files'["journal"].mem \in Seq(RecordType)
        /\ UnitsOnDisk(files'["journal"].mem, files["media"].disk)
        /\ files'["media"] = files["media"] /\ files'["sidecar"] = files["sidecar"]
        /\ files'["marker"] = files["marker"]
    BY <1>6, <1>7, <1>8
  <2>3. /\ RecTypes' /\ RecCounts' /\ RecFlags' /\ RecNames' /\ RecMarker' /\ RecSealed'
    BY <1>1, <1>2, <1>8, <2>1, <2>2, CommitGoesOn DEF Healthy
  <2>4. RecMedia'
    BY <1>1, <1>3, <1>8, <2>1, <2>2 DEF RecMedia, Healthy
  <2>5. RecSidecar'
    BY <1>1, <1>3, <1>8, <2>1, <2>2 DEF RecInv, RecSidecar, Healthy
  <2>6. RecJournal'
    <3>1. Extends(files'["journal"].disk, files'["journal"].mem)
      BY <1>3, <1>4, <2>2, ExtendsTransitive DEF j
    <3> QED
      BY <1>1, <1>3, <1>8, <2>1, <2>2, <3>1 DEF RecJournal
  <2>7. RecHealthy'
    <3> SUFFICES ASSUME ~failed PROVE RecHealthy'
      BY <1>8 DEF RecHealthy, Healthy
    <3>1. /\ \A k \in 2 .. Len(j) : Accepted(j, files["media"].disk, k)
          /\ UnitsBefore(j, Len(j) + 1) = Len(hashed) - Len(pending)
          /\ Len(j) <= 2 * UnitsBefore(j, Len(j) + 1) + 1
      BY <1>1, <1>3 DEF RecInv, RecHealthy, j
    <3>2. ~(Len(files["journal"].mem) > FileCap)
      BY <1>1, BelowCap
    <3>3. files' = Write(files, "journal", GroupRecords)
      BY <1>8, <3>2 DEF Written
    <3>4. files'["journal"].mem = j \o GroupRecords
      BY <1>2, <1>5, <3>3, WriteFacts, FileNames DEF j
    <3>5. Len(j) \in Nat /\ Len(j) >= 1
      <4>1. Len(files["journal"].disk) \in Nat /\ Len(j) \in Nat /\ Len(files["journal"].disk) <= Len(j)
        BY <1>3, <1>4, LenProperties DEF Extends, j
      <4> QED
        BY <1>3, <4>1
    <3>6. Len(hashed) <= Len(files["media"].disk)
      BY <1>3 DEF Extends
    <3> DEFINE n == j \o GroupRecords
    <3>7. /\ n \in Seq(RecordType) /\ Len(n) = Len(j) + Len(pending) + 1
          /\ \A k \in 2 .. Len(n) : Accepted(n, files["media"].disk, k)
          /\ UnitsBefore(n, Len(n) + 1) = Len(hashed)
          /\ n[Len(n)].kind = "commit" /\ n[Len(n)].n + 1 = Len(hashed)
      BY <1>3, <1>4, <3>1, <3>5, <3>6, GroupIsRead
    <3> HIDE DEF n
    <3>8. Len(n) >= 2 /\ Len(n) <= 2 * Len(hashed) + 1
      <4>1. /\ Len(pending) \in Nat /\ Len(pending) >= 1 /\ Len(hashed) \in Nat
            /\ Len(hashed) - Len(pending) \in Nat
        BY <1>3, <1>4, GroupFacts
      <4>2. Len(j) <= 2 * (Len(hashed) - Len(pending)) + 1
        BY <3>1
      <4>3. \A a, p, h \in Nat : a >= 1 /\ p >= 1 /\ a <= 2 * (h - p) + 1 =>
              a + p + 1 >= 2 /\ a + p + 1 <= 2 * h + 1
        OBVIOUS
      <4> QED
        BY <3>5, <3>7, <4>1, <4>2, <4>3
    <3>9. files'["journal"].mem = n /\ files'["media"].disk = files["media"].disk /\ hashed' = hashed
      BY <1>1, <2>2, <3>4 DEF n
    <3> QED
      BY <1>8, <2>1, <3>7, <3>8, <3>9 DEF RecHealthy
  <2> QED
    BY <2>3, <2>4, <2>5, <2>6, <2>7 DEF RecInv
<1>9. CASE Fault /\ files' \in Broken("journal", GroupRecords) /\ FailRuntime
           /\ pc' = AfterCommit(resume, FALSE)
  <2>1. /\ pc \in Running /\ failed' = TRUE /\ queue' = <<>>
        /\ pc' \in {"loop", "stopping", "decide", "exited"}
    BY <1>1, <1>9, CommitGivesUp
  <2>2. faults' \in 0 .. MaxFaults
    BY <1>9, FaultBound DEF RecInv
  <2>3. /\ files' \in [File -> FileType] /\ files'["journal"].disk = files["journal"].disk
        /\ \A f \in File : files'[f].at = files[f].at /\ files'[f].entry = files[f].entry
        /\ Extends(j, files'["journal"].mem)
        /\ files'["journal"].mem \in Seq(RecordType)
        /\ UnitsOnDisk(files'["journal"].mem, files["media"].disk)
        /\ files'["media"] = files["media"] /\ files'["marker"] = files["marker"]
    BY <1>6, <1>7, <1>9
  <2>4. /\ Extends(files["journal"].disk, files'["journal"].disk)
        /\ Extends(files["media"].mem, files'["media"].mem)
        /\ Extends(files["media"].disk, files'["media"].disk)
    BY <1>4, <2>3, ExtendsItself
  <2>5. Extends(files'["journal"].disk, files'["journal"].mem)
    BY <1>3, <1>4, <2>3, ExtendsTransitive DEF j
  <2>6. Extends(files'["media"].disk, files'["media"].mem)
        /\ UnitsOnDisk(files'["journal"].mem, files'["media"].disk)
    BY <1>3, <2>3
  <2>7. described' \in Seq(EntryType)
    BY <1>1, <1>2
  <2> QED
    BY <1>1, <2>1, <2>2, <2>3, <2>4, <2>5, <2>6, <2>7, RunningFails
<1> QED
  BY <1>8, <1>9 DEF WriteJournalGroup, CommitStep

\* commit_group synchronizes the journal: the group is committed.
LEMMA SyncJournalStep ==
  ASSUME RecInv, SyncJournalGroup,
         UNCHANGED <<resume, seen, nextIndex, stopRequested, publishRequested,
                     commitPendingOnFailure, completed, prepared, caller>>
  PROVE  RecInv'
<1> DEFINE s == Sync(files, "journal")
<1> DEFINE j == files["journal"].mem
<1>1. /\ pc = "syncJournal" /\ pc \in Committing
      /\ UNCHANGED <<pending, hashed, described, wall>>
  BY DEF SyncJournalGroup, CommitStep, Committing
<1>2. /\ committed \in Nat /\ promised \in Nat /\ promised <= committed /\ committed <= Len(hashed)
      /\ faults \in 0 .. MaxFaults /\ described \in Seq(EntryType)
      /\ files \in [File -> FileType]
      /\ \A f \in File : files[f].mem \in Seq(RecordType) /\ files[f].disk \in Seq(RecordType)
      /\ hashed \in Seq(RecordType) /\ pending \in Seq(RecordType)
  BY CommitCounts
<1>3. /\ pc \in Running /\ pending # <<>>
      /\ Extends(files["journal"].disk, files["journal"].mem)
      /\ Extends(files["media"].disk, files["media"].mem)
      /\ Extends(hashed, files["media"].mem)
      /\ Extends(hashed, files["media"].disk)
      /\ UnitsOnDisk(files["journal"].mem, files["media"].disk)
      /\ Kept(files["journal"].disk, files["media"].disk, promised)
      /\ Len(files["journal"].disk) >= 1 /\ files["journal"].disk[1] = Header
      /\ ~failed => files["media"].mem = hashed
  BY <1>1, CommitFiles
<1>4. /\ j \in Seq(RecordType) /\ files["journal"].disk \in Seq(RecordType)
      /\ files["media"].mem \in Seq(RecordType) /\ files["media"].disk \in Seq(RecordType)
      /\ RecTypes /\ RecCounts /\ Len(j) \in Nat /\ Len(files["journal"].disk) \in Nat
  BY <1>2, FileNames, LenProperties DEF RecInv
<1>5. /\ s \in [File -> FileType] /\ \A g \in File : g # "journal" => s[g] = files[g]
      /\ s["journal"].mem = files["journal"].mem /\ s["journal"].disk = files["journal"].mem
      /\ s["journal"].at = files["journal"].at /\ s["journal"].entry = files["journal"].entry
  BY <1>2, SyncFacts, FileNames
<1> HIDE DEF s, j
<1>6. ASSUME files' \in {files, s}
      PROVE  /\ files' \in [File -> FileType]
             /\ files'["media"] = files["media"] /\ files'["sidecar"] = files["sidecar"]
             /\ files'["marker"] = files["marker"]
             /\ files'["journal"].mem = j /\ files'["journal"].disk \in {j, files["journal"].disk}
             /\ \A f \in File : files'[f].at = files[f].at /\ files'[f].entry = files[f].entry
             /\ Extends(files["journal"].disk, files'["journal"].disk)
             /\ Extends(files'["journal"].disk, files'["journal"].mem)
  <2>1. /\ files' \in [File -> FileType] /\ \A g \in File : g # "journal" => files'[g] = files[g]
        /\ files'["journal"].mem = j /\ files'["journal"].disk \in {j, files["journal"].disk}
        /\ files'["journal"].at = files["journal"].at /\ files'["journal"].entry = files["journal"].entry
    BY <1>2, <1>5, <1>6, FileNames DEF j
  <2>2. files'["media"] = files["media"] /\ files'["sidecar"] = files["sidecar"]
        /\ files'["marker"] = files["marker"]
    BY <2>1, FileNames
  <2>3. /\ Extends(files["journal"].disk, files'["journal"].disk)
        /\ Extends(files'["journal"].disk, files'["journal"].mem)
    BY <1>3, <1>4, <2>1, ExtendsItself DEF j
  <2> QED
    BY <2>1, <2>2, <2>3
<1>7. Len(hashed) \in Nat /\ pending[Len(pending)].n + 1 = Len(hashed)
  BY <1>3, <1>4, GroupFacts
<1>8. CASE pc' = "sidecar" /\ files' = s /\ Healthy /\ UNCHANGED faults
  <2>1. pc' \in Committing /\ pc' \in Committing \ {"syncMedia"}
        /\ pc' \notin Preparing /\ pc' \notin Publishing /\ pc' # "syncSuffix" /\ pc' \in Running
    BY <1>8 DEF Committing, Preparing, Publishing, Running
  <2>2. committed' = Len(hashed) /\ promised' = IF failed THEN promised ELSE Len(hashed)
    BY <1>7, <1>8 DEF SyncJournalGroup
  <2>3. committed' \in Nat /\ promised' \in Nat /\ promised' <= committed' /\ committed' <= Len(hashed)
    BY <1>2, <1>7, <2>2
  <2>4. /\ files' \in [File -> FileType]
        /\ files'["media"] = files["media"] /\ files'["sidecar"] = files["sidecar"]
        /\ files'["marker"] = files["marker"]
        /\ files'["journal"].mem = j /\ files'["journal"].disk = j
        /\ \A f \in File : files'[f].at = files[f].at /\ files'[f].entry = files[f].entry
        /\ Extends(files["journal"].disk, j) /\ Extends(j, j)
    BY <1>4, <1>5, <1>6, <1>8, ExtendsItself DEF j
  <2>5. /\ RecTypes' /\ RecCounts' /\ RecFlags' /\ RecNames' /\ RecMarker' /\ RecSealed'
    BY <1>1, <1>8, <2>1, <2>2, <2>3, <2>4, CommitGoesOn DEF Healthy
  <2>6. RecMedia'
    BY <1>1, <1>3, <1>8, <2>1, <2>4 DEF RecMedia, Healthy
  <2>7. RecSidecar'
    BY <1>1, <1>3, <1>8, <2>1, <2>4 DEF RecInv, RecSidecar, Healthy
  <2>8. ~failed =>
          /\ \A k \in 2 .. Len(j) : Accepted(j, files["media"].disk, k)
          /\ UnitsBefore(j, Len(j) + 1) = Len(hashed)
          /\ Len(j) <= 2 * UnitsBefore(j, Len(j) + 1) + 1
          /\ Len(j) >= 2 /\ j[Len(j)].kind = "commit" /\ j[Len(j)].n + 1 = Len(hashed)
    BY <1>1, <1>3 DEF RecInv, RecHealthy, j
  <2>9. Kept(j, files["media"].disk, promised')
    <3>1. CASE failed
      <4> DEFINE kept == files["journal"].disk
                 media == files["media"].disk
      <4>1. promised' = promised
        BY <2>2, <3>1
      <4>2. /\ kept \in Seq(RecordType) /\ j \in Seq(RecordType) /\ media \in Seq(RecordType)
            /\ Extends(kept, j) /\ Kept(kept, media, promised)
        BY <1>3, <1>4, <2>4
      <4> HIDE DEF j, kept, media
      <4>3. Len(media) <= Len(media)
        BY <4>2, LenProperties
      <4>4. Kept(j, media, promised)
        BY <4>2, <4>3, KeptGrows
      <4> QED
        BY <4>1, <4>4 DEF media
    <3>2. CASE ~failed
      <4>1. promised' = Len(hashed) /\ Len(j) \in 2 .. Len(j)
        BY <1>4, <2>2, <2>8, <3>2
      <4> QED
        BY <2>8, <3>2, <4>1 DEF Kept
    <3> QED
      BY <3>1, <3>2
  <2>10. RecJournal'
    <3>1. Len(j) >= 1 /\ j[1] = Header
      BY <1>3, <1>4, <2>4 DEF Extends
    <3>2. UnitsOnDisk(j, files["media"].disk)
      BY <1>3 DEF j
    <3> QED
      BY <1>8, <2>4, <2>9, <3>1, <3>2 DEF RecJournal
  <2>11. RecHealthy'
    <3> SUFFICES ASSUME ~failed PROVE RecHealthy'
      BY <1>8 DEF RecHealthy, Healthy
    <3> QED
      BY <1>1, <1>8, <2>4, <2>8 DEF RecHealthy
  <2> QED
    BY <2>5, <2>6, <2>7, <2>10, <2>11 DEF RecInv
<1>9. CASE Fault /\ files' \in {files, s} /\ FailRuntime /\ pc' = AfterCommit(resume, FALSE)
  <2>1. /\ pc \in Running /\ failed' = TRUE /\ queue' = <<>>
        /\ pc' \in {"loop", "stopping", "decide", "exited"} /\ pc' \notin Committing
    BY <1>1, <1>9, CommitGivesUp
  <2>2. faults' \in 0 .. MaxFaults
    BY <1>9, FaultBound DEF RecInv
  <2>3. UNCHANGED <<committed, promised>>
    BY <2>1 DEF SyncJournalGroup
  <2>4. /\ files' \in [File -> FileType]
        /\ files'["media"] = files["media"] /\ files'["marker"] = files["marker"]
        /\ files'["journal"].mem = j
        /\ \A f \in File : files'[f].at = files[f].at /\ files'[f].entry = files[f].entry
        /\ Extends(files["journal"].disk, files'["journal"].disk)
        /\ Extends(files'["journal"].disk, files'["journal"].mem)
    BY <1>6, <1>9
  <2>5. /\ Extends(files["media"].mem, files'["media"].mem)
        /\ Extends(files["media"].disk, files'["media"].disk)
        /\ Extends(files'["media"].disk, files'["media"].mem)
        /\ UnitsOnDisk(files'["journal"].mem, files'["media"].disk)
    BY <1>3, <1>4, <2>4, ExtendsItself DEF j
  <2>6. described' \in Seq(EntryType)
    BY <1>1, <1>2
  <2> QED
    BY <1>1, <2>1, <2>2, <2>3, <2>4, <2>5, <2>6, RunningFails
<1> QED
  BY <1>8, <1>9 DEF SyncJournalGroup, CommitStep, s

\* Only the sidecar changes.
OnlySidecar ==
  /\ files' \in [File -> FileType] /\ \A g \in File : g # "sidecar" => files'[g] = files[g]
  /\ files'["sidecar"].at = files["sidecar"].at /\ files'["sidecar"].entry = files["sidecar"].entry

\* A failure at the sidecar leaves the committed journal as it is.
LEMMA SidecarFails ==
  ASSUME RecInv, pc \in Committing, OnlySidecar, FailRuntime, pc' = AfterCommit(resume, FALSE),
         faults' \in 0 .. MaxFaults, described' \in Seq(EntryType),
         UNCHANGED <<resume, seen, pending, hashed, committed, promised, wall, nextIndex,
                     stopRequested, publishRequested, commitPendingOnFailure, completed, prepared,
                     caller>>
  PROVE  RecInv'
<1>1. /\ pc \in Running /\ failed' = TRUE /\ queue' = <<>>
      /\ pc' \in {"loop", "stopping", "decide", "exited"}
  BY CommitGivesUp
<1>2. /\ files' \in [File -> FileType]
      /\ files'["media"] = files["media"] /\ files'["marker"] = files["marker"]
      /\ files'["journal"] = files["journal"]
      /\ \A f \in File : files'[f].at = files[f].at /\ files'[f].entry = files[f].entry
  BY FileNames DEF OnlySidecar
<1>3. /\ files["journal"].disk \in Seq(RecordType)
      /\ files["media"].mem \in Seq(RecordType) /\ files["media"].disk \in Seq(RecordType)
  BY CommitCounts, FileNames
<1>4. /\ Extends(files["journal"].disk, files["journal"].mem)
      /\ Extends(files["media"].disk, files["media"].mem)
      /\ UnitsOnDisk(files["journal"].mem, files["media"].disk)
  BY CommitFiles
<1>5. /\ Extends(files["media"].mem, files'["media"].mem)
      /\ Extends(files["media"].disk, files'["media"].disk)
      /\ Extends(files["journal"].disk, files'["journal"].disk)
      /\ Extends(files'["journal"].disk, files'["journal"].mem)
      /\ Extends(files'["media"].disk, files'["media"].mem)
      /\ UnitsOnDisk(files'["journal"].mem, files'["media"].disk)
  BY <1>2, <1>3, <1>4, ExtendsItself
<1> QED
  BY <1>1, <1>2, <1>5, RunningFails

\* commit_group appends the group to the sidecar.
LEMMA WriteSidecarStep ==
  ASSUME RecInv, WriteSidecarGroup,
         UNCHANGED <<resume, seen, nextIndex, stopRequested, publishRequested,
                     commitPendingOnFailure, completed, prepared, caller>>
  PROVE  RecInv'
<1>1. /\ pc = "sidecar" /\ pc \in Committing /\ pc \in Running
      /\ UNCHANGED <<pending, hashed, described, committed, promised, wall>>
  BY DEF WriteSidecarGroup, CommitStep, group, Committing, Running
<1>2. /\ committed \in Nat /\ promised \in Nat /\ promised <= committed /\ committed <= Len(hashed)
      /\ faults \in 0 .. MaxFaults /\ described \in Seq(EntryType)
      /\ files \in [File -> FileType]
      /\ pending \in Seq(RecordType) /\ committed = Len(hashed)
  BY <1>1, CommitCounts
<1>3. ASSUME NEW part \in Seq(RecordType), files' = Write(files, "sidecar", part) PROVE OnlySidecar
  <2> DEFINE w == Write(files, "sidecar", part)
  <2>1. "sidecar" \in File /\ files \in [File -> FileType]
    BY <1>2, FileNames
  <2>2. /\ w \in [File -> FileType] /\ \A g \in File : g # "sidecar" => w[g] = files[g]
        /\ w["sidecar"].at = files["sidecar"].at /\ w["sidecar"].entry = files["sidecar"].entry
    BY <2>1, WriteFacts
  <2>3. files' = w
    BY <1>3
  <2> HIDE DEF w
  <2> QED
    BY <2>2, <2>3 DEF OnlySidecar
<1>4. ASSUME files' \in Written("sidecar", pending) \cup Broken("sidecar", pending) PROVE OnlySidecar
  <2>1. \/ files' = files
        \/ files' = Write(files, "sidecar", pending)
        \/ files' \in PartWritten(files, "sidecar", pending)
    BY <1>4 DEF Written, Broken
  <2>2. CASE files' = files
    BY <1>2, <2>2 DEF OnlySidecar
  <2>3. CASE files' = Write(files, "sidecar", pending)
    BY <1>2, <1>3, <2>3
  <2>4. CASE files' \in PartWritten(files, "sidecar", pending)
    <3>1. "sidecar" \in File
      BY FileNames
    <3>2. PICK part \in Seq(RecordType) : files' = Write(files, "sidecar", part)
      BY <1>2, <2>4, <3>1, PartFacts
    <3> QED
      BY <1>3, <3>2
  <2> QED
    BY <2>1, <2>2, <2>3, <2>4
<1>5. CASE pc' = "syncSidecar" /\ files' \in Written("sidecar", pending) /\ Healthy /\ UNCHANGED faults
  <2>1. pc' \in Committing /\ pc' \in Committing \ {"syncMedia"}
        /\ pc' \notin Preparing /\ pc' \notin Publishing /\ pc' # "syncSuffix" /\ pc' \in Running
    BY <1>5 DEF Committing, Preparing, Publishing, Running
  <2>2. OnlySidecar
    BY <1>4, <1>5
  <2>3. /\ files' \in [File -> FileType] /\ files'["marker"] = files["marker"]
        /\ files'["media"] = files["media"] /\ files'["journal"] = files["journal"]
        /\ \A f \in File : files'[f].at = files[f].at /\ files'[f].entry = files[f].entry
    BY <2>2, FileNames DEF OnlySidecar
  <2>4. /\ RecTypes' /\ RecCounts' /\ RecFlags' /\ RecNames' /\ RecMarker' /\ RecSealed'
    BY <1>1, <1>2, <1>5, <2>1, <2>3, CommitGoesOn DEF Healthy
  <2>5. pending # <<>>
    BY <1>1, CommitFiles
  <2>6. RecMedia'
    BY <1>1, <1>5, <2>1, <2>3, <2>5 DEF RecInv, RecMedia, Healthy
  <2>7. RecSidecar'
    <3> SUFFICES ASSUME ~failed PROVE RecSidecar'
      BY <1>5, <2>1 DEF RecSidecar, Healthy
    <3>1. Len(described) = Len(hashed) - Len(pending) /\ files["sidecar"].mem = described
      BY <1>1 DEF RecInv, RecSidecar
    <3>2. ~(Len(files["sidecar"].mem) > FileCap)
      BY <1>1, BelowCap
    <3>3. files' = Write(files, "sidecar", pending)
      BY <1>5, <3>2 DEF Written
    <3>4. "sidecar" \in File
      BY FileNames
    <3>5. Write(files, "sidecar", pending)["sidecar"].mem = files["sidecar"].mem \o pending
      BY <1>2, <3>4, WriteFacts
    <3>6. files'["sidecar"].mem = described \o pending
      BY <3>1, <3>3, <3>5
    <3> QED
      BY <1>1, <1>5, <2>1, <3>1, <3>6 DEF RecSidecar
  <2>8. RecJournal'
    BY <1>1, <1>5, <2>3 DEF RecInv, RecJournal
  <2>9. RecHealthy'
    BY <1>1, <1>5, <2>1, <2>3 DEF RecInv, RecHealthy, Healthy
  <2> QED
    BY <2>4, <2>6, <2>7, <2>8, <2>9 DEF RecInv
<1>6. CASE Fault /\ files' \in Broken("sidecar", pending) /\ FailRuntime
           /\ pc' = AfterCommit(resume, FALSE)
  <2>1. faults' \in 0 .. MaxFaults
    BY <1>6, FaultBound DEF RecInv
  <2>2. OnlySidecar
    BY <1>4, <1>6
  <2>3. described' \in Seq(EntryType)
    BY <1>1, <1>2
  <2> QED
    BY <1>1, <1>6, <2>1, <2>2, <2>3, SidecarFails
<1> QED
  BY <1>5, <1>6 DEF WriteSidecarGroup, CommitStep

\* What the sidecar is made of stays a sequence of records.
LEMMA GrowFacts ==
  ASSUME RecTypes
  PROVE  /\ Grow(described, pending) \in Seq(EntryType)
         /\ ~(Len(described) > FileCap) =>
              /\ Grow(described, pending) = described \o pending
              /\ Len(Grow(described, pending)) = Len(described) + Len(pending)
<1>1. described \in Seq(EntryType) /\ pending \in Seq(EntryType)
  BY DEF RecTypes
<1>2. /\ described \o pending \in Seq(EntryType)
      /\ Len(described \o pending) = Len(described) + Len(pending)
  BY <1>1, ConcatProperties
<1> QED
  BY <1>1, <1>2 DEF Grow

\* commit_group synchronizes the sidecar and returns: the group is promised.
LEMMA SyncSidecarStep ==
  ASSUME RecInv, SyncSidecarGroup,
         UNCHANGED <<resume, seen, nextIndex, stopRequested, publishRequested,
                     commitPendingOnFailure, completed, prepared, caller>>
  PROVE  RecInv'
<1> DEFINE s == Sync(files, "sidecar")
<1>1. /\ pc = "syncSidecar" /\ pc \in Committing /\ pc \in Running
      /\ UNCHANGED <<hashed, committed, promised>>
  BY DEF SyncSidecarGroup, Committing, Running
<1>2. /\ committed \in Nat /\ promised \in Nat /\ promised <= committed /\ committed = Len(hashed)
      /\ faults \in 0 .. MaxFaults /\ described \in Seq(EntryType)
      /\ files \in [File -> FileType] /\ hashed \in Seq(RecordType)
      /\ files["media"].disk \in Seq(RecordType)
  BY <1>1, CommitCounts, FileNames
<1>3. /\ Grow(described, pending) \in Seq(EntryType)
      /\ ~(Len(described) > FileCap) =>
              /\ Grow(described, pending) = described \o pending
              /\ Len(Grow(described, pending)) = Len(described) + Len(pending)
  BY GrowFacts DEF RecInv
<1>4. /\ s \in [File -> FileType] /\ \A g \in File : g # "sidecar" => s[g] = files[g]
      /\ s["sidecar"].mem = files["sidecar"].mem /\ s["sidecar"].disk = files["sidecar"].mem
      /\ s["sidecar"].at = files["sidecar"].at /\ s["sidecar"].entry = files["sidecar"].entry
  BY <1>2, SyncFacts, FileNames
<1> HIDE DEF s
<1>5. ASSUME files' \in {files, s} PROVE OnlySidecar
  BY <1>2, <1>4, <1>5 DEF OnlySidecar
<1>6. CASE /\ files' = s /\ described' = Grow(described, pending) /\ wall # "late"
           /\ Healthy /\ pending' = <<>> /\ wall' = "fresh" /\ pc' = AfterCommit(resume, TRUE)
           /\ UNCHANGED faults
  <2>1. resume \in {"loop", "timer", "stopping", "publish"} /\ failed \in BOOLEAN
    BY DEF RecInv, RecTypes
  <2>2. /\ pc' \in {"loop", "stopping", "decide", "suffix"}
        /\ pc' = "suffix" => resume = "publish"
    BY <1>6, <2>1, AfterCommitFacts
  <2>3. /\ pc' \in Steps /\ pc' \in Running \cup {"suffix", "exited"} /\ pc' \notin Committing
        /\ pc' \in Running \cup {"suffix"}
        /\ pc' \in Publishing => pc' = "suffix"
        /\ pc' \notin Preparing
        /\ pc' \notin {"syncJournal", "sidecar", "syncSidecar", "syncSuffix"}
        /\ pc' \notin Publishing \ {"suffix", "syncSuffix"}
    BY <2>2 DEF Steps, Running, Committing, Publishing, Preparing
  <2>4. OnlySidecar
    BY <1>5, <1>6
  <2>5. /\ files' \in [File -> FileType] /\ files'["marker"] = files["marker"]
        /\ files'["media"] = files["media"] /\ files'["journal"] = files["journal"]
        /\ \A f \in File : files'[f].at = files[f].at /\ files'[f].entry = files[f].entry
    BY <2>4, FileNames DEF OnlySidecar
  <2>6. Len(pending') = 0 /\ pending' \in Seq(EntryType)
    BY <1>6, EmptyFacts
  <2>7. RecTypes'
    <3>1. described' \in Seq(EntryType) /\ wall' \in {"fresh", "due", "late"}
      BY <1>3, <1>6
    <3>2. /\ queue' = queue /\ failed' = failed /\ faults' = faults /\ hashed' = hashed
          /\ committed' = committed /\ promised' = promised
      BY <1>1, <1>6 DEF Healthy
    <3>3. RecTypes
      BY DEF RecInv
    <3> QED
      BY <2>3, <2>5, <2>6, <3>1, <3>2, <3>3 DEF RecTypes
  <2>8. Len(hashed) \in Nat /\ Len(pending) \in Nat /\ Len(described) \in Nat /\ Len(described') \in Nat
    BY <2>7, RecLengths, LenProperties DEF RecInv, RecTypes
  <2>9. RecCounts'
    <3>1. \A i \in 1 .. Len(pending') : FALSE
      BY <2>6
    <3>2. Len(pending') <= Len(hashed') /\ committed' <= Len(hashed')
      BY <1>1, <1>2, <2>6, <2>8
    <3> QED
      BY <1>1, <1>2, <1>6, <2>3, <3>1, <3>2 DEF RecInv, RecCounts, Healthy
  <2>10. pc \in Committing /\ resume = "publish" => ~failed
    BY DEF RecInv, RecFlags
  <2>11. RecFlags'
    BY <1>1, <1>6, <2>2, <2>3, <2>10, RunningFlags DEF Healthy
  <2>12. RecNames' /\ RecMarker' /\ RecSealed'
    BY <1>1, <2>3, <2>5, RunningNames
  <2>13. RecMedia'
    <3>1. /\ Extends(files["media"].disk, files["media"].mem) /\ Extends(hashed, files["media"].mem)
          /\ Extends(hashed, files["media"].disk) /\ (~failed => files["media"].mem = hashed)
      BY <1>1, CommitFiles
    <3>2. ASSUME ~failed PROVE files["media"].disk = hashed
      <4>1. Extends(files["media"].disk, hashed)
        BY <3>1, <3>2
      <4>2. Len(files["media"].disk) \in Nat /\ Len(files["media"].disk) <= Len(hashed)
            /\ Len(hashed) <= Len(files["media"].disk)
        BY <1>2, <3>1, <4>1, LenProperties DEF Extends
      <4>3. Len(hashed) = Len(files["media"].disk)
        BY <2>8, <4>2
      <4>4. \A i \in 1 .. Len(hashed) : hashed[i] = files["media"].disk[i]
        BY <3>1 DEF Extends
      <4> QED
        BY <1>2, <4>3, <4>4, SeqEqual
    <3>3. pc' \notin Committing \ {"syncMedia"}
      BY <2>3
    <3> QED
      BY <1>1, <1>6, <2>3, <2>5, <3>1, <3>2, <3>3 DEF RecMedia, Healthy
  <2>14. RecSidecar'
    <3> SUFFICES ASSUME ~failed PROVE RecSidecar'
      BY <1>6, <2>3 DEF RecSidecar, Healthy
    <3>1. Len(described) = Len(hashed) - Len(pending) /\ files["sidecar"].mem = described \o pending
      BY <1>1 DEF RecInv, RecSidecar
    <3>2. ~(Len(described) > FileCap)
      BY <1>1, BelowCap
    <3>3. described' = described \o pending /\ Len(described') = Len(described) + Len(pending)
      BY <1>3, <1>6, <3>2
    <3>4. Len(described') = Len(hashed') - Len(pending')
      BY <1>1, <2>6, <2>8, <3>1, <3>3
    <3>5. files'["sidecar"].mem = described'
      BY <1>4, <1>6, <3>1, <3>3
    <3> QED
      BY <2>3, <3>4, <3>5 DEF RecSidecar
  <2>15. RecJournal'
    BY <1>1, <2>3, <2>5, CommitFiles, RunningFacts DEF RecJournal, Preparing
  <2>16. RecHealthy'
    <3> SUFFICES ASSUME ~failed PROVE RecHealthy'
      BY <1>6 DEF RecHealthy, Healthy
    <3> DEFINE j == files["journal"].mem
    <3>1. /\ \A k \in 2 .. Len(j) : Accepted(j, files["media"].disk, k)
          /\ UnitsBefore(j, Len(j) + 1) = Len(hashed)
          /\ Len(j) <= 2 * UnitsBefore(j, Len(j) + 1) + 1
      BY <1>1 DEF RecInv, RecHealthy
    <3>2. files'["journal"].mem = j /\ files'["media"].disk = files["media"].disk
      BY <2>5
    <3>3. Len(hashed') - Len(pending') = Len(hashed)
      BY <1>1, <2>6, <2>8
    <3> HIDE DEF j
    <3> QED
      BY <2>3, <3>1, <3>2, <3>3 DEF RecHealthy
  <2> QED
    BY <2>7, <2>9, <2>11, <2>12, <2>13, <2>14, <2>15, <2>16 DEF RecInv
<1>7. CASE /\ files' = s /\ described' = Grow(described, pending)
           /\ FailRuntime /\ UNCHANGED <<pending, wall>> /\ pc' = AfterCommit(resume, FALSE)
           /\ UNCHANGED faults
  <2>1. OnlySidecar
    BY <1>5, <1>7
  <2> QED
    BY <1>1, <1>2, <1>3, <1>7, <2>1, SidecarFails
<1>8. CASE /\ Fault /\ files' \in {files, s} /\ FailRuntime /\ pc' = AfterCommit(resume, FALSE)
           /\ UNCHANGED <<described, pending, wall>>
  <2>1. faults' \in 0 .. MaxFaults
    BY <1>8, FaultBound DEF RecInv
  <2>2. OnlySidecar
    BY <1>5, <1>8
  <2>3. described' \in Seq(EntryType)
    BY <1>2, <1>8
  <2> QED
    BY <1>1, <1>8, <2>1, <2>2, <2>3, SidecarFails
<1> QED
  BY <1>6, <1>7, <1>8 DEF SyncSidecarGroup, s

\* commit_group.
LEMMA CommitGroupStep == ASSUME RecInv, CommitGroup PROVE RecInv'
<1>1. UNCHANGED <<resume, seen, nextIndex, stopRequested, publishRequested,
                  commitPendingOnFailure, completed, prepared, caller>>
  BY DEF CommitGroup, local
<1> QED
  BY <1>1, SyncMediaStep, WriteJournalStep, SyncJournalStep, WriteSidecarStep, SyncSidecarStep
     DEF CommitGroup

\* The steps of publish before the marker has its name.
Unsealed == {"suffix", "syncSuffix", "renameMedia", "renameSidecar", "syncNames", "marker",
             "syncMarker", "renameMarker"}

\* What a publishing worker has: everything that was accepted is on disk.
LEMMA PublishFacts ==
  ASSUME RecInv, pc \in Publishing
  PROVE  /\ prepared /\ ~failed /\ seen.publish /\ publishRequested /\ Len(hashed) = nextIndex
         /\ pending = <<>> /\ committed = nextIndex /\ caller # "idle"
         /\ files["media"].mem = hashed /\ files["media"].disk = hashed
         /\ \A f \in Companions : /\ files[f].at # "none" /\ files[f].entry # "none"
                                  /\ files[f].entry = "final" => files[f].at = "final"
         /\ files["marker"].entry # "final" =>
              files["journal"].at = "final" /\ files["journal"].entry = "final"
         /\ pc \in Unsealed => files["marker"].at # "final"
         /\ files["marker"].at = "final" => Sealed
         /\ files \in [File -> FileType] /\ RecTypes
<1>1. prepared /\ seen.publish /\ ~failed
  BY DEF RecInv, RecFlags
<1>2. publishRequested /\ Len(hashed) = nextIndex /\ caller # "idle"
  BY <1>1 DEF RecInv, RecFlags
<1>3. pending = <<>>
  BY DEF RecInv, RecCounts
<1>4. committed = nextIndex
  BY <1>2, <1>3 DEF RecInv, RecCounts
<1>5. files["media"].mem = hashed /\ files["media"].disk = hashed
  BY <1>1, <1>3 DEF RecInv, RecMedia
<1>6. /\ \A f \in Companions : /\ files[f].at # "none" /\ files[f].entry # "none"
                               /\ files[f].entry = "final" => files[f].at = "final"
      /\ files["marker"].entry # "final" =>
           files["journal"].at = "final" /\ files["journal"].entry = "final"
  BY <1>1 DEF RecInv, RecNames
<1>7. pc \in Unsealed => files["marker"].at # "final"
  BY DEF RecInv, RecNames, Unsealed
<1>8. files["marker"].at = "final" => Sealed
  BY StepNames DEF RecInv, RecSealed
<1>9. files \in [File -> FileType] /\ RecTypes
  BY DEF RecInv, RecTypes
<1> QED
  BY <1>1, <1>2, <1>3, <1>4, <1>5, <1>6, <1>7, <1>8, <1>9

PublishFrame ==
  UNCHANGED <<resume, seen, pending, hashed, committed, promised, wall, nextIndex, stopRequested,
              publishRequested, commitPendingOnFailure, prepared, caller>>

\* What no step of publish changes, and what it leaves of the rest.
LEMMA PublishKeeps ==
  ASSUME RecInv, pc \in Publishing, PublishFrame, pc' \in Publishing \cup {"exited"},
         \/ UNCHANGED <<failed, queue>>
         \/ failed' = TRUE /\ queue' = <<>> /\ pc' = "exited",
         faults' \in 0 .. MaxFaults, described' \in Seq(EntryType), completed' \in BOOLEAN,
         files' \in [File -> FileType],
         files'["media"].mem = files["media"].mem, files'["media"].disk = files["media"].disk,
         files'["journal"].mem = files["journal"].mem,
         files'["journal"].disk = files["journal"].disk,
         files["marker"].entry = "final" => files'["marker"].entry = "final",
         RecNames', RecSidecar', RecMarker', RecSealed'
  PROVE  RecInv'
<1>1. /\ prepared /\ ~failed /\ seen.publish /\ publishRequested /\ Len(hashed) = nextIndex
      /\ pending = <<>> /\ committed = nextIndex /\ caller # "idle"
      /\ files["media"].mem = hashed /\ files["media"].disk = hashed
  BY PublishFacts
<1>2. /\ pc' \in Steps /\ pc' \notin Running /\ pc' \notin Closed /\ pc' \notin Preparing
      /\ pc' \notin Committing /\ pc' \notin {"sidecar", "syncSidecar"}
      /\ pc' \notin {"header", "syncHeader", "syncPrepared"}
  BY DEF Publishing, Steps, Running, Closed, Preparing, Committing
<1>3. /\ UNCHANGED <<resume, seen, pending, hashed, committed, promised, wall, nextIndex,
                     stopRequested, publishRequested, commitPendingOnFailure, prepared, caller>>
  BY DEF PublishFrame
<1>4. RecTypes /\ Len(hashed) \in Nat /\ Len(queue) \in Nat /\ nextIndex \in Nat
  BY RecLengths DEF RecInv
<1>5. /\ failed' \in BOOLEAN /\ queue' \in Seq(Unit) /\ Len(queue') <= QueueLimit
      /\ Len(queue') \in Nat /\ Len(queue') <= Len(queue)
      /\ \A i \in 1 .. Len(queue') : queue'[i] = queue[i] /\ i \in 1 .. Len(queue)
      /\ ~failed' => queue' = queue
  <2>1. CASE UNCHANGED <<failed, queue>>
    BY <1>4, <2>1 DEF RecTypes
  <2>2. CASE failed' = TRUE /\ queue' = <<>>
    <3>1. queue' \in Seq(Unit) /\ Len(queue') = 0
      BY <2>2, EmptyFacts
    <3> QED
      BY <1>4, <2>2, <3>1, RecBounds
  <2> QED
    BY <2>1, <2>2
<1>6. RecTypes'
  BY <1>2, <1>3, <1>4, <1>5 DEF RecTypes
<1>7. RecCounts'
  <2>1. RecCounts
    BY DEF RecInv
  <2>2. Len(hashed) + Len(queue') <= nextIndex
    <3>1. Len(hashed) + Len(queue) <= nextIndex
      BY <2>1 DEF RecCounts
    <3> QED
      BY <1>4, <1>5, <3>1
  <2>3. \A i \in 1 .. Len(queue') : queue'[i].n = Len(hashed) + i - 1
    BY <1>5, <2>1 DEF RecCounts
  <2>4. ~failed' => Len(hashed) + Len(queue') = nextIndex
    BY <1>1, <1>5, <2>1 DEF RecCounts
  <2> QED
    BY <1>2, <1>3, <1>1, <2>1, <2>2, <2>3, <2>4 DEF RecCounts
<1>8. RecFlags'
  <2>1. pc' \in Publishing => ~failed'
    BY <1>1 DEF Publishing
  <2> QED
    BY <1>1, <1>2, <1>3, <2>1 DEF RecFlags
<1>9. RecMedia'
  <2>1. hashed \in Seq(RecordType)
    BY CommitCounts
  <2>2. Extends(hashed, hashed)
    BY <2>1, ExtendsItself
  <2> QED
    BY <1>1, <1>2, <1>3, <2>2 DEF RecMedia
<1>10. RecJournal'
  <2>1. RecJournal
    BY DEF RecInv
  <2> QED
    BY <1>1, <1>2, <1>3, <2>1 DEF RecJournal
<1>11. RecHealthy'
  BY <1>2 DEF RecHealthy
<1> QED
  BY <1>6, <1>7, <1>8, <1>9, <1>10, <1>11 DEF RecInv

\* A step of publish that fails ends the worker.
LEMMA PublishFails ==
  ASSUME RecInv, pc \in Publishing, PublishFrame, Fault, FailRuntime, pc' = "exited",
         described' = described, completed' \in BOOLEAN, completed' => completed,
         files' \in [File -> FileType],
         files'["media"].mem = files["media"].mem, files'["media"].disk = files["media"].disk,
         files'["journal"].mem = files["journal"].mem,
         files'["journal"].disk = files["journal"].disk,
         files["marker"].entry = "final" => files'["marker"].entry = "final",
         \A f \in Companions : /\ files'[f].at # "none" /\ files'[f].entry # "none"
                               /\ files'[f].entry = "final" => files'[f].at = "final",
         files'["marker"].entry # "final" =>
           files'["journal"].at = "final" /\ files'["journal"].entry = "final",
         files'["marker"].at = "final" => Sealed'
  PROVE  RecInv'
<1>1. completed => files["marker"].entry = "final"
  BY DEF RecInv, RecNames
<1>2. pc' \notin Running \cup Publishing \cup Preparing \cup Closed
  BY DEF Running, Committing, Publishing, Preparing, Closed
<1>3. RecNames'
  BY <1>1, <1>2 DEF RecNames, Preparing, Running, Committing
<1>4. RecSidecar' /\ RecMarker'
  BY <1>2 DEF RecSidecar, RecMarker
<1>5. RecSealed'
  BY DEF RecSealed
<1>6. faults' \in 0 .. MaxFaults
  BY FaultBound DEF RecInv
<1>7. described' \in Seq(EntryType)
  BY DEF RecInv, RecTypes
<1>8. failed' = TRUE /\ queue' = <<>>
  BY DEF FailRuntime
<1> QED
  BY <1>3, <1>4, <1>5, <1>6, <1>7, <1>8, PublishKeeps

\* Only the contents of one of the last two companions change.
OnlyContents(fs, f) ==
  /\ fs \in [File -> FileType] /\ \A g \in File : g # f => fs[g] = files[g]
  /\ fs[f].at = files[f].at /\ fs[f].entry = files[f].entry

\* A step on the contents of the sidecar or the marker changes no name, no
\* journal and no media file.
LEMMA ContentsFacts ==
  ASSUME NEW f \in {"sidecar", "marker"}, OnlyContents(files', f)
  PROVE  /\ files' \in [File -> FileType]
         /\ files'["media"].mem = files["media"].mem /\ files'["media"].disk = files["media"].disk
         /\ files'["journal"].mem = files["journal"].mem
         /\ files'["journal"].disk = files["journal"].disk
         /\ \A g \in File : files'[g].at = files[g].at /\ files'[g].entry = files[g].entry
<1>1. f # "media" /\ f # "journal"
  OBVIOUS
<1> QED
  BY <1>1, FileNames DEF OnlyContents

\* A write is such a step.
LEMMA WriteContents ==
  ASSUME files \in [File -> FileType], NEW f \in {"sidecar", "marker"}, NEW s \in Seq(RecordType)
  PROVE  OnlyContents(Write(files, f, s), f) /\ Write(files, f, s)[f].mem = files[f].mem \o s
<1>1. f \in File
  BY DEF File
<1> QED
  BY <1>1, WriteFacts DEF OnlyContents

\* So is a write that fails.
LEMMA PartContents ==
  ASSUME files \in [File -> FileType], NEW f \in {"sidecar", "marker"}, NEW s \in Seq(RecordType),
         NEW p \in PartWritten(files, f, s)
  PROVE  OnlyContents(p, f)
<1>1. f \in File
  BY DEF File
<1>2. PICK part \in Seq(RecordType) : p = Write(files, f, part)
  BY <1>1, PartFacts
<1> QED
  BY <1>2, WriteContents

\* So is a synchronization.
LEMMA SyncContents ==
  ASSUME files \in [File -> FileType], NEW f \in {"sidecar", "marker"}
  PROVE  /\ OnlyContents(Sync(files, f), f) /\ OnlyContents(files, f)
         /\ Sync(files, f)[f].mem = files[f].mem /\ Sync(files, f)[f].disk = files[f].mem
<1>1. f \in File
  BY DEF File
<1>2. OnlyContents(files, f)
  BY DEF OnlyContents
<1> QED
  BY <1>1, <1>2, SyncFacts DEF OnlyContents

\* A step on the contents that fails.
LEMMA ContentsFail ==
  ASSUME RecInv, pc \in Unsealed, PublishFrame, Fault, FailRuntime, pc' = "exited",
         described' = described, completed' = completed,
         NEW f \in {"sidecar", "marker"}, OnlyContents(files', f)
  PROVE  RecInv'
<1>1. pc \in Publishing /\ completed' \in BOOLEAN /\ (completed' => completed)
  BY DEF Unsealed, Publishing, RecInv, RecTypes
<1>2. /\ \A g \in Companions : /\ files[g].at # "none" /\ files[g].entry # "none"
                               /\ files[g].entry = "final" => files[g].at = "final"
      /\ files["marker"].entry # "final" =>
           files["journal"].at = "final" /\ files["journal"].entry = "final"
      /\ files["marker"].at # "final"
  BY <1>1, PublishFacts
<1>3. /\ files' \in [File -> FileType]
      /\ files'["media"].mem = files["media"].mem /\ files'["media"].disk = files["media"].disk
      /\ files'["journal"].mem = files["journal"].mem
      /\ files'["journal"].disk = files["journal"].disk
      /\ \A g \in File : files'[g].at = files[g].at /\ files'[g].entry = files[g].entry
  BY ContentsFacts
<1>4. /\ files["marker"].entry = "final" => files'["marker"].entry = "final"
      /\ \A g \in Companions : /\ files'[g].at # "none" /\ files'[g].entry # "none"
                               /\ files'[g].entry = "final" => files'[g].at = "final"
      /\ files'["marker"].entry # "final" =>
           files'["journal"].at = "final" /\ files'["journal"].entry = "final"
      /\ files'["marker"].at # "final"
  BY <1>2, <1>3, FileNames
<1> QED
  BY <1>1, <1>3, <1>4, PublishFails

\* A step on the contents that goes on.
LEMMA ContentsGoOn ==
  ASSUME RecInv, pc \in Unsealed, PublishFrame, Healthy, UNCHANGED <<faults, completed>>,
         \/ pc' \in {"syncSuffix", "renameMedia"}
         \/ pc \in {"marker", "syncMarker"} /\ pc' \in {"syncMarker", "renameMarker"},
         described' \in Seq(EntryType),
         NEW f \in {"sidecar", "marker"}, OnlyContents(files', f),
         RecSidecar', RecMarker'
  PROVE  RecInv'
<1>1. pc \in Publishing /\ completed' \in BOOLEAN /\ faults' \in 0 .. MaxFaults
      /\ pc' \in Publishing \cup {"exited"} /\ UNCHANGED <<failed, queue>>
  BY DEF Unsealed, Publishing, RecInv, RecTypes, Healthy
<1>2. /\ \A g \in Companions : /\ files[g].at # "none" /\ files[g].entry # "none"
                               /\ files[g].entry = "final" => files[g].at = "final"
      /\ files["marker"].entry # "final" =>
           files["journal"].at = "final" /\ files["journal"].entry = "final"
      /\ files["marker"].at # "final" /\ prepared
  BY <1>1, PublishFacts
<1>3. /\ files' \in [File -> FileType]
      /\ files'["media"].mem = files["media"].mem /\ files'["media"].disk = files["media"].disk
      /\ files'["journal"].mem = files["journal"].mem
      /\ files'["journal"].disk = files["journal"].disk
      /\ \A g \in File : files'[g].at = files[g].at /\ files'[g].entry = files[g].entry
  BY ContentsFacts
<1>4. files["marker"].entry = "final" => files'["marker"].entry = "final"
  BY <1>3, FileNames
<1>5. completed => files["marker"].entry = "final"
  BY DEF RecInv, RecNames
<1>6. pc \in {"marker", "syncMarker"} =>
        /\ files["media"].at = "final" /\ files["sidecar"].at = "final"
        /\ files["media"].entry = "final" /\ files["sidecar"].entry = "final"
  BY DEF RecInv, RecNames
<1>7. /\ pc' \notin Preparing /\ pc' # "create"
      /\ pc' \notin {"syncMarkerName", "unlink", "syncUnlink"}
      /\ pc' \in {"renameSidecar", "syncNames", "marker", "syncMarker", "renameMarker"} =>
           pc \in {"marker", "syncMarker"}
  BY DEF Preparing
<1>8. RecNames'
  BY <1>2, <1>3, <1>5, <1>6, <1>7, FileNames DEF RecNames
<1>9. RecSealed'
  BY <1>2, <1>3, FileNames DEF RecSealed
<1> QED
  BY <1>1, <1>3, <1>4, <1>8, <1>9, PublishKeeps

\* publish, up to the marker's name: writes and synchronizations.
LEMMA SuffixStep ==
  ASSUME RecInv, PublishFrame, UNCHANGED <<described, completed>>,
         WriteStep("suffix", "syncSuffix", "sidecar", <<SidecarSuffix(committed)>>)
  PROVE  RecInv'
<1> DEFINE r == <<SidecarSuffix(committed)>>
<1>1. /\ pc = "suffix" /\ pc \in Unsealed /\ pc \in Publishing
      /\ RecTypes /\ files \in [File -> FileType] /\ described \in Seq(EntryType)
  BY DEF WriteStep, PublishStep, Unsealed, Publishing, RecInv, RecTypes
<1>2. r \in Seq(RecordType) /\ SidecarSuffix(committed) \in EntryType
  BY <1>1, MarkerFacts
<1>3. described \o r = Append(described, SidecarSuffix(committed))
  BY <1>1, <1>2
<1>4. WriteStep("suffix", "syncSuffix", "sidecar", r)
  OBVIOUS
<1> HIDE DEF r
<1>5. CASE /\ pc' = "syncSuffix" /\ files' = Write(files, "sidecar", r) /\ Healthy /\ UNCHANGED faults
  <2>1. OnlyContents(files', "sidecar") /\ files'["sidecar"].mem = files["sidecar"].mem \o r
    BY <1>1, <1>2, <1>5, WriteContents
  <2>2. files["sidecar"].mem = described
    BY <1>1, PublishFacts DEF RecInv, RecSidecar
  <2>3. committed' = committed
    BY DEF PublishFrame
  <2>4. RecSidecar'
    BY <1>3, <1>5, <2>1, <2>2, <2>3 DEF RecSidecar, Running, Committing, Publishing, Preparing
  <2>5. files'["marker"] = files["marker"] /\ files["marker"].mem = <<>>
    BY <1>1, <2>1, FileNames DEF OnlyContents, RecInv, RecMarker
  <2>6. RecMarker'
    BY <1>5, <2>5 DEF RecMarker
  <2> QED
    BY <1>1, <1>5, <2>1, <2>4, <2>6, ContentsGoOn
<1>6. CASE Fault /\ files' \in PartWritten(files, "sidecar", r) /\ FailRuntime /\ pc' = "exited"
  <2>1. OnlyContents(files', "sidecar")
    BY <1>1, <1>2, <1>6, PartContents
  <2> QED
    BY <1>1, <1>6, <2>1, ContentsFail
<1> QED
  BY <1>4, <1>5, <1>6 DEF WriteStep, PublishStep

\* publish synchronizes the finished sidecar.
LEMMA SyncSuffixStep ==
  ASSUME RecInv, PublishFrame, completed' = completed,
         SyncFileStep("syncSuffix", "renameMedia", "sidecar"),
         described' = IF pc' = "renameMedia" THEN Append(described, SidecarSuffix(committed))
                      ELSE described
  PROVE  RecInv'
<1>1. /\ pc = "syncSuffix" /\ pc \in Unsealed /\ pc \in Publishing
      /\ RecTypes /\ files \in [File -> FileType] /\ described \in Seq(EntryType)
  BY DEF SyncFileStep, PublishStep, Unsealed, Publishing, RecInv, RecTypes
<1>2. SidecarSuffix(committed) \in EntryType
  BY <1>1, MarkerFacts
<1>3. Append(described, SidecarSuffix(committed)) \in Seq(EntryType)
  BY <1>1, <1>2, AppendProperties
<1>4. /\ OnlyContents(Sync(files, "sidecar"), "sidecar") /\ OnlyContents(files, "sidecar")
      /\ Sync(files, "sidecar")["sidecar"].mem = files["sidecar"].mem
      /\ Sync(files, "sidecar")["sidecar"].disk = files["sidecar"].mem
  BY <1>1, SyncContents
<1>5. CASE /\ pc' = "renameMedia" /\ files' = Sync(files, "sidecar") /\ Healthy /\ UNCHANGED faults
  <2>1. OnlyContents(files', "sidecar")
    BY <1>4, <1>5
  <2>2. files["sidecar"].mem = Append(described, SidecarSuffix(committed))
    BY <1>1 DEF RecInv, RecSidecar
  <2>3. files'["sidecar"].mem = described' /\ files'["sidecar"].disk = described'
    BY <1>4, <1>5, <2>2
  <2>4. RecSidecar'
    BY <1>5, <2>3 DEF RecSidecar, Running, Committing, Publishing, Preparing
  <2>5. files'["marker"] = files["marker"] /\ files["marker"].mem = <<>>
    BY <1>1, <2>1, FileNames DEF OnlyContents, RecInv, RecMarker
  <2>6. RecMarker'
    BY <1>5, <2>5 DEF RecMarker
  <2>7. described' \in Seq(EntryType)
    BY <1>3, <1>5
  <2> QED
    BY <1>1, <1>5, <2>1, <2>4, <2>6, <2>7, ContentsGoOn
<1>6. CASE Fault /\ files' \in {files, Sync(files, "sidecar")} /\ FailRuntime /\ pc' = "exited"
  <2>1. OnlyContents(files', "sidecar") /\ described' = described
    BY <1>4, <1>6
  <2> QED
    BY <1>1, <1>6, <2>1, ContentsFail
<1> QED
  BY <1>5, <1>6 DEF SyncFileStep, PublishStep

\* publish writes the temporary marker.
LEMMA MarkerStep ==
  ASSUME RecInv, PublishFrame, UNCHANGED <<described, completed>>,
         WriteStep("marker", "syncMarker", "marker", TheMarker)
  PROVE  RecInv'
<1>1. /\ pc = "marker" /\ pc \in Unsealed /\ pc \in Publishing
      /\ RecTypes /\ files \in [File -> FileType] /\ described \in Seq(EntryType)
  BY DEF WriteStep, PublishStep, Unsealed, Publishing, RecInv, RecTypes
<1>2. TheMarker \in Seq(RecordType)
  BY <1>1, MarkerFacts
<1>3. <<>> \o TheMarker = TheMarker
  BY <1>2, ConcatEmptySeq
<1>4. TheMarker' = TheMarker
  BY DEF PublishFrame, TheMarker
<1>5. CASE /\ pc' = "syncMarker" /\ files' = Write(files, "marker", TheMarker)
           /\ Healthy /\ UNCHANGED faults
  <2>1. OnlyContents(files', "marker") /\ files'["marker"].mem = files["marker"].mem \o TheMarker
    BY <1>1, <1>2, <1>5, WriteContents
  <2>2. files["marker"].mem = <<>>
    BY <1>1 DEF RecInv, RecMarker
  <2>3. files'["sidecar"] = files["sidecar"]
        /\ files["sidecar"].mem = described /\ files["sidecar"].disk = described
    BY <1>1, <2>1, FileNames DEF OnlyContents, RecInv, RecSidecar
  <2>4. RecSidecar'
    BY <1>5, <2>3 DEF RecSidecar, Running, Committing, Publishing, Preparing
  <2>5. RecMarker'
    BY <1>3, <1>4, <1>5, <2>1, <2>2 DEF RecMarker, Running, Committing, Preparing
  <2> QED
    BY <1>1, <1>5, <2>1, <2>4, <2>5, ContentsGoOn
<1>6. CASE Fault /\ files' \in PartWritten(files, "marker", TheMarker) /\ FailRuntime /\ pc' = "exited"
  <2>1. OnlyContents(files', "marker")
    BY <1>1, <1>2, <1>6, PartContents
  <2> QED
    BY <1>1, <1>6, <2>1, ContentsFail
<1> QED
  BY <1>5, <1>6 DEF WriteStep, PublishStep

\* publish synchronizes the temporary marker.
LEMMA SyncMarkerStep ==
  ASSUME RecInv, PublishFrame, UNCHANGED <<described, completed>>,
         SyncFileStep("syncMarker", "renameMarker", "marker")
  PROVE  RecInv'
<1>1. /\ pc = "syncMarker" /\ pc \in Unsealed /\ pc \in Publishing
      /\ RecTypes /\ files \in [File -> FileType] /\ described \in Seq(EntryType)
  BY DEF SyncFileStep, PublishStep, Unsealed, Publishing, RecInv, RecTypes
<1>2. /\ OnlyContents(Sync(files, "marker"), "marker") /\ OnlyContents(files, "marker")
      /\ Sync(files, "marker")["marker"].mem = files["marker"].mem
      /\ Sync(files, "marker")["marker"].disk = files["marker"].mem
  BY <1>1, SyncContents
<1>3. TheMarker' = TheMarker
  BY DEF PublishFrame, TheMarker
<1>4. CASE /\ pc' = "renameMarker" /\ files' = Sync(files, "marker") /\ Healthy /\ UNCHANGED faults
  <2>1. OnlyContents(files', "marker")
    BY <1>2, <1>4
  <2>2. files["marker"].mem = TheMarker
    BY <1>1 DEF RecInv, RecMarker
  <2>3. files'["sidecar"] = files["sidecar"]
        /\ files["sidecar"].mem = described /\ files["sidecar"].disk = described
    BY <1>1, <2>1, FileNames DEF OnlyContents, RecInv, RecSidecar
  <2>4. RecSidecar'
    BY <1>4, <2>3 DEF RecSidecar, Running, Committing, Publishing, Preparing
  <2>5. RecMarker'
    BY <1>2, <1>3, <1>4, <2>2 DEF RecMarker, Running, Committing, Preparing
  <2> QED
    BY <1>1, <1>4, <2>1, <2>4, <2>5, ContentsGoOn
<1>5. CASE Fault /\ files' \in {files, Sync(files, "marker")} /\ FailRuntime /\ pc' = "exited"
  <2>1. OnlyContents(files', "marker")
    BY <1>2, <1>5
  <2> QED
    BY <1>1, <1>5, <2>1, ContentsFail
<1> QED
  BY <1>4, <1>5 DEF SyncFileStep, PublishStep

\* What the marker is to say does not change while publish runs.
LEMMA MarkerSame ==
  ASSUME PublishFrame, described' = described
  PROVE  /\ TheMarker' = TheMarker
         /\ UNCHANGED <<hashed, described, committed, nextIndex, prepared, publishRequested>>
BY DEF PublishFrame, TheMarker

\* Only names change: the contents of all files stay.
SameContents ==
  /\ files' \in [File -> FileType]
  /\ \A f \in File : files'[f].mem = files[f].mem /\ files'[f].disk = files[f].disk

\* What the marker says, where the files have their names.
LEMMA SealedContents ==
  ASSUME Sealed, SameContents, PublishFrame, described' = described,
         files'["media"].at = "final", files'["media"].entry = "final",
         files'["sidecar"].at = "final", files'["sidecar"].entry = "final"
  PROVE  Sealed'
BY MarkerSame, FileNames DEF Sealed, SameContents

\* A step on the names that fails.
LEMMA NamesFail ==
  ASSUME RecInv, pc \in Publishing, PublishFrame, Fault, FailRuntime, pc' = "exited",
         described' = described, completed' \in BOOLEAN, completed' => completed, SameContents,
         files["marker"].entry = "final" => files'["marker"].entry = "final",
         \A f \in Companions : /\ files'[f].at # "none" /\ files'[f].entry # "none"
                               /\ files'[f].entry = "final" => files'[f].at = "final",
         files'["marker"].entry # "final" =>
           files'["journal"].at = "final" /\ files'["journal"].entry = "final",
         files'["marker"].at = "final" => Sealed'
  PROVE  RecInv'
<1>1. /\ files' \in [File -> FileType]
      /\ files'["media"].mem = files["media"].mem /\ files'["media"].disk = files["media"].disk
      /\ files'["journal"].mem = files["journal"].mem
      /\ files'["journal"].disk = files["journal"].disk
  BY FileNames DEF SameContents
<1> QED
  BY <1>1, PublishFails

\* A step on the names that goes on.
LEMMA NamesGoOn ==
  ASSUME RecInv, pc \in Publishing \ {"suffix", "syncSuffix"}, PublishFrame, Healthy,
         described' = described, completed' \in BOOLEAN, faults' = faults, SameContents,
         pc' \in (Publishing \ {"suffix", "syncSuffix", "renameMedia", "syncMarker", "renameMarker"}) \cup {"exited"},
         pc' \in {"renameSidecar", "syncNames", "marker"} => files["marker"].mem = <<>>,
         files["marker"].entry = "final" => files'["marker"].entry = "final",
         RecNames', RecSealed'
  PROVE  RecInv'
<1>1. /\ files' \in [File -> FileType]
      /\ files'["media"].mem = files["media"].mem /\ files'["media"].disk = files["media"].disk
      /\ files'["journal"].mem = files["journal"].mem
      /\ files'["journal"].disk = files["journal"].disk
      /\ files'["sidecar"].mem = files["sidecar"].mem /\ files'["sidecar"].disk = files["sidecar"].disk
      /\ files'["marker"].mem = files["marker"].mem
  BY FileNames DEF SameContents
<1>2. files["sidecar"].mem = described /\ files["sidecar"].disk = described
  BY DEF RecInv, RecSidecar
<1>3. /\ pc' \notin Running \cup {"suffix"} /\ pc' \notin Preparing
      /\ pc' \notin {"syncMarker", "renameMarker", "syncSuffix"}
      /\ pc' \in Publishing \cup {"exited"} /\ pc' # "renameMedia"
  BY DEF Running, Committing, Publishing, Preparing
<1>4. RecSidecar'
  BY <1>1, <1>2, <1>3 DEF RecSidecar
<1>5. RecMarker'
  BY <1>1, <1>3 DEF RecMarker
<1>6. faults' \in 0 .. MaxFaults /\ described' \in Seq(EntryType) /\ UNCHANGED <<failed, queue>>
  BY DEF RecInv, RecTypes, Healthy
<1> QED
  BY <1>1, <1>3, <1>4, <1>5, <1>6, PublishKeeps

\* A rename leaves the contents alone.
LEMMA RenameSame ==
  ASSUME files \in [File -> FileType], NEW f \in Companions, files' = Rename(files, f)
  PROVE  /\ SameContents
         /\ \A g \in File : g # f => files'[g] = files[g]
         /\ files'[f].at = "final" /\ files'[f].entry = files[f].entry
<1> DEFINE r == Rename(files, f)
<1>1. f \in File
  BY FileNames
<1>2. /\ r \in [File -> FileType] /\ \A g \in File : g # f => r[g] = files[g]
      /\ r[f].mem = files[f].mem /\ r[f].disk = files[f].disk
      /\ r[f].at = "final" /\ r[f].entry = files[f].entry
  BY <1>1, RenameFacts
<1>3. files' = r
  OBVIOUS
<1> HIDE DEF r
<1> QED
  BY <1>2, <1>3 DEF SameContents

\* So does a synchronization of the directory.
LEMMA DirectorySame ==
  ASSUME files \in [File -> FileType], files' = SyncDirectory(files)
  PROVE  /\ SameContents
         /\ \A f \in File : files'[f].at = files[f].at /\ files'[f].entry = files[f].at
BY SyncDirectoryFacts DEF SameContents

\* So does the removal of the journal.
LEMMA UnlinkSame ==
  ASSUME files \in [File -> FileType], files' = UnlinkJournal(files)
  PROVE  SameContents /\ \A f \in Companions : files'[f] = files[f]
<1> DEFINE r == UnlinkJournal(files)
<1>1. /\ r \in [File -> FileType] /\ \A g \in File : g # "journal" => r[g] = files[g]
      /\ r["journal"].mem = files["journal"].mem /\ r["journal"].disk = files["journal"].disk
  BY UnlinkFacts
<1>2. files' = r
  OBVIOUS
<1> HIDE DEF r
<1> QED
  BY <1>1, <1>2, FileNames DEF SameContents

\* So does a step without a system call.
LEMMA StandSame ==
  ASSUME files \in [File -> FileType], files' = files
  PROVE  SameContents
BY DEF SameContents

\* The companions get their names before the marker does.
LEMMA RenameCompanionStep ==
  ASSUME RecInv, PublishFrame, UNCHANGED <<described, completed>>,
         \/ RenameStep("renameMedia", "renameSidecar", "media")
         \/ RenameStep("renameSidecar", "syncNames", "sidecar")
  PROVE  RecInv'
<1> DEFINE f == IF pc = "renameMedia" THEN "media" ELSE "sidecar"
<1>1. /\ pc \in {"renameMedia", "renameSidecar"} /\ pc \in Publishing /\ pc \in Unsealed
      /\ pc \in Publishing \ {"suffix", "syncSuffix"}
      /\ completed' \in BOOLEAN /\ (completed' => completed)
  BY DEF RenameStep, PublishStep, Publishing, Unsealed, RecInv, RecTypes
<1>2. f \in {"media", "sidecar"} /\ f \in Companions /\ f # "marker"
  BY FileNames
<1>3. \/ /\ files' = Rename(files, f) /\ Healthy /\ UNCHANGED faults
         /\ pc = "renameMedia" => f = "media" /\ pc' = "renameSidecar"
         /\ pc = "renameSidecar" => f = "sidecar" /\ pc' = "syncNames"
      \/ Fault /\ files' \in {files, Rename(files, f)} /\ FailRuntime /\ pc' = "exited"
  BY <1>1 DEF RenameStep, PublishStep
<1> HIDE DEF f
<1>4. /\ \A g \in Companions : /\ files[g].at # "none" /\ files[g].entry # "none"
                               /\ files[g].entry = "final" => files[g].at = "final"
      /\ files["marker"].entry # "final" =>
           files["journal"].at = "final" /\ files["journal"].entry = "final"
      /\ files["marker"].at # "final" /\ prepared /\ files \in [File -> FileType]
  BY <1>1, PublishFacts
<1>5. ASSUME files' \in {files, Rename(files, f)}
      PROVE  /\ SameContents
             /\ \A g \in File : g # f => files'[g] = files[g]
             /\ files'[f].at \in {files[f].at, "final"} /\ files'[f].entry = files[f].entry
  BY <1>2, <1>4, <1>5, RenameSame, StandSame
<1>6. ASSUME files' \in {files, Rename(files, f)}
      PROVE  /\ SameContents
             /\ files'["marker"] = files["marker"] /\ files'["journal"] = files["journal"]
             /\ \A g \in Companions : /\ files'[g].at # "none" /\ files'[g].entry # "none"
                                      /\ files'[g].entry = "final" => files'[g].at = "final"
             /\ \A g \in Companions : files[g].at = "final" => files'[g].at = "final"
  BY <1>2, <1>4, <1>5, <1>6, FileNames
<1>7. CASE /\ files' = Rename(files, f) /\ Healthy /\ UNCHANGED faults
           /\ pc = "renameMedia" => f = "media" /\ pc' = "renameSidecar"
           /\ pc = "renameSidecar" => f = "sidecar" /\ pc' = "syncNames"
  <2>1. /\ pc' \in {"renameSidecar", "syncNames"} /\ pc' \notin Preparing
        /\ pc' \in (Publishing \ {"suffix", "syncSuffix", "renameMedia", "syncMarker", "renameMarker"})
                     \cup {"exited"}
    BY <1>1, <1>7 DEF Preparing, Publishing
  <2>2. files'[f].at = "final"
    BY <1>2, <1>4, <1>7, RenameSame
  <2>3. files'["media"].at = "final" /\ (pc' = "syncNames" => files'["sidecar"].at = "final")
    <3>1. CASE pc = "renameMedia"
      BY <1>7, <2>2, <3>1
    <3>2. CASE pc = "renameSidecar"
      <4>1. files["media"].at = "final"
        BY <3>2 DEF RecInv, RecNames
      <4> QED
        BY <1>6, <1>7, <2>2, <3>2, <4>1, FileNames
    <3> QED
      BY <1>1, <3>1, <3>2
  <2>4. completed => files["marker"].entry = "final"
    BY DEF RecInv, RecNames
  <2>5. RecNames'
    BY <1>4, <1>6, <1>7, <2>1, <2>3, <2>4 DEF RecNames
  <2>6. RecSealed'
    BY <1>4, <1>6, <1>7 DEF RecSealed
  <2>7. files["marker"].mem = <<>>
    BY <1>1 DEF RecInv, RecMarker
  <2>8. SameContents /\ (files["marker"].entry = "final" => files'["marker"].entry = "final")
    BY <1>6, <1>7
  <2> QED
    BY <1>1, <1>7, <2>1, <2>5, <2>6, <2>7, <2>8, NamesGoOn
<1>8. CASE Fault /\ files' \in {files, Rename(files, f)} /\ FailRuntime /\ pc' = "exited"
  BY <1>1, <1>4, <1>6, <1>8, NamesFail
<1> QED
  BY <1>3, <1>7, <1>8

\* The directory is synchronized: the names are durable.
LEMMA DirectoryStep ==
  ASSUME RecInv, PublishFrame, described' = described,
         \/ SyncDirectoryStep("syncNames", "marker") /\ completed' = completed
         \/ SyncDirectoryStep("syncMarkerName", "unlink") /\ completed' = completed
         \/ SyncDirectoryStep("syncUnlink", "exited") /\ completed' = (faults' = faults)
  PROVE  RecInv'
<1>1. /\ pc \in {"syncNames", "syncMarkerName", "syncUnlink"} /\ pc \in Publishing
      /\ pc \in Publishing \ {"suffix", "syncSuffix"} /\ completed \in BOOLEAN
  BY DEF SyncDirectoryStep, PublishStep, Publishing, RecInv, RecTypes
<1>2. /\ \A g \in Companions : /\ files[g].at # "none" /\ files[g].entry # "none"
                               /\ files[g].entry = "final" => files[g].at = "final"
      /\ files["marker"].entry # "final" =>
           files["journal"].at = "final" /\ files["journal"].entry = "final"
      /\ prepared /\ files \in [File -> FileType]
      /\ pc \in Unsealed => files["marker"].at # "final"
      /\ files["marker"].at = "final" => Sealed
  BY <1>1, PublishFacts
<1>3. ASSUME files' \in {files, SyncDirectory(files)}
      PROVE  /\ SameContents
             /\ \A g \in File : /\ files'[g].at = files[g].at
                                /\ files'[g].entry \in {files[g].at, files[g].entry}
  BY <1>2, <1>3, DirectorySame, StandSame
<1>4. ASSUME files' \in {files, SyncDirectory(files)}
      PROVE  /\ SameContents
             /\ files["marker"].entry = "final" => files'["marker"].entry = "final"
             /\ \A g \in Companions : /\ files'[g].at # "none" /\ files'[g].entry # "none"
                                      /\ files'[g].entry = "final" => files'[g].at = "final"
             /\ files'["marker"].entry # "final" =>
                  files'["journal"].at = "final" /\ files'["journal"].entry = "final"
             /\ files'["marker"].at = "final" => Sealed'
             /\ files'["marker"].at = files["marker"].at
  <2>1. /\ SameContents
        /\ \A g \in File : /\ files'[g].at = files[g].at
                           /\ files'[g].entry \in {files[g].at, files[g].entry}
    BY <1>3, <1>4
  <2>2. files'["marker"].at = "final" => Sealed'
    <3> SUFFICES ASSUME files'["marker"].at = "final" PROVE Sealed'
      OBVIOUS
    <3>1. Sealed
      BY <1>2, <2>1, FileNames
    <3>2. /\ files["media"].at = "final" /\ files["media"].entry = "final"
          /\ files["sidecar"].at = "final" /\ files["sidecar"].entry = "final"
      BY <3>1 DEF Sealed
    <3>3. /\ files'["media"].at = "final" /\ files'["media"].entry = "final"
          /\ files'["sidecar"].at = "final" /\ files'["sidecar"].entry = "final"
      BY <2>1, <3>2, FileNames
    <3> QED
      BY <2>1, <3>1, <3>3, SealedContents
  <2>3. /\ files["marker"].entry = "final" => files'["marker"].entry = "final"
        /\ \A g \in Companions : /\ files'[g].at # "none" /\ files'[g].entry # "none"
                                 /\ files'[g].entry = "final" => files'[g].at = "final"
        /\ files'["marker"].at = files["marker"].at
    BY <1>2, <2>1, FileNames
  <2>4. files'["marker"].entry # "final" =>
          files'["journal"].at = "final" /\ files'["journal"].entry = "final"
    BY <1>2, <2>1, <2>3, FileNames
  <2> QED
    BY <2>1, <2>2, <2>3, <2>4
<1>5. CASE /\ files' = SyncDirectory(files) /\ Healthy /\ UNCHANGED faults
           /\ pc = "syncNames" => pc' = "marker" /\ completed' = completed
           /\ pc = "syncMarkerName" => pc' = "unlink" /\ completed' = completed
           /\ pc = "syncUnlink" => pc' = "exited" /\ completed' = TRUE
  <2>1. /\ pc' \in {"marker", "unlink", "exited"} /\ pc' \notin Preparing /\ pc' \notin Running
        /\ pc' \in (Publishing \ {"suffix", "syncSuffix", "renameMedia", "syncMarker", "renameMarker"})
                     \cup {"exited"}
        /\ completed' \in BOOLEAN
    BY <1>1, <1>5 DEF Preparing, Publishing, Running, Committing
  <2>2. /\ \A g \in File : files'[g].at = files[g].at /\ files'[g].entry = files[g].at
    BY <1>2, <1>5, DirectorySame
  <2>3. /\ SameContents
        /\ files["marker"].entry = "final" => files'["marker"].entry = "final"
        /\ \A g \in Companions : /\ files'[g].at # "none" /\ files'[g].entry # "none"
                                 /\ files'[g].entry = "final" => files'[g].at = "final"
        /\ files'["marker"].entry # "final" =>
             files'["journal"].at = "final" /\ files'["journal"].entry = "final"
        /\ files'["marker"].at = "final" => Sealed'
    BY <1>4, <1>5
  <2>4. CASE pc = "syncNames"
    <3>1. pc' = "marker" /\ completed' = completed /\ files["marker"].at # "final"
      BY <1>2, <1>5, <2>4 DEF Unsealed
    <3>2. files["media"].at = "final" /\ files["sidecar"].at = "final"
      BY <2>4 DEF RecInv, RecNames
    <3>3. /\ files'["media"].at = "final" /\ files'["sidecar"].at = "final"
          /\ files'["media"].entry = "final" /\ files'["sidecar"].entry = "final"
          /\ files'["marker"].at # "final"
      BY <2>2, <3>1, <3>2, FileNames
    <3>4. completed => files["marker"].entry = "final"
      BY DEF RecInv, RecNames
    <3>5. RecNames'
      BY <2>1, <2>3, <3>1, <3>3, <3>4 DEF RecNames
    <3>6. files["marker"].mem = <<>>
      BY <2>4 DEF RecInv, RecMarker
    <3>7. RecSealed'
      BY <3>3 DEF RecSealed
    <3> QED
      BY <1>1, <1>5, <2>1, <2>3, <3>5, <3>6, <3>7, NamesGoOn
  <2>5. CASE pc \in {"syncMarkerName", "syncUnlink"}
    <3>1. pc' \in {"unlink", "exited"} /\ files["marker"].at = "final"
      BY <1>5, <2>5 DEF RecInv, RecNames
    <3>2. files'["marker"].at = "final" /\ files'["marker"].entry = "final"
      BY <2>2, <3>1, FileNames
    <3>3. RecNames'
      BY <2>1, <2>3, <3>1, <3>2 DEF RecNames
    <3>4. RecSealed'
      BY <2>3 DEF RecSealed
    <3> QED
      BY <1>1, <1>5, <2>1, <2>3, <3>1, <3>3, <3>4, NamesGoOn
  <2> QED
    BY <1>1, <2>4, <2>5
<1>6. CASE /\ Fault /\ files' \in {files, SyncDirectory(files)} /\ FailRuntime /\ pc' = "exited"
           /\ completed' \in {completed, FALSE}
  <2>1. completed' \in BOOLEAN /\ (completed' => completed)
    <3>1. CASE completed' = completed
      BY <1>1, <3>1
    <3>2. CASE completed' = FALSE
      BY <3>2
    <3>3. completed' = completed \/ completed' = FALSE
      BY <1>6
    <3> QED
      BY <3>1, <3>2, <3>3
  <2> QED
    BY <1>1, <1>4, <1>6, <2>1, NamesFail
<1>7. Fault => faults' # faults
  BY DEF Fault, RecInv, RecTypes
<1>8. UNCHANGED faults => (faults' = faults) = TRUE
  OBVIOUS
<1>9. Fault => (faults' = faults) = FALSE
  BY <1>7
<1> QED
  <2>1. CASE SyncDirectoryStep("syncNames", "marker") /\ completed' = completed
    BY <1>5, <1>6, <2>1 DEF SyncDirectoryStep, PublishStep
  <2>2. CASE SyncDirectoryStep("syncMarkerName", "unlink") /\ completed' = completed
    BY <1>5, <1>6, <2>2 DEF SyncDirectoryStep, PublishStep
  <2>3. CASE SyncDirectoryStep("syncUnlink", "exited") /\ completed' = (faults' = faults)
    BY <1>5, <1>6, <1>8, <1>9, <2>3 DEF SyncDirectoryStep, PublishStep
  <2> QED
    BY <2>1, <2>2, <2>3

\* The marker gets its name when everything it says is on disk.
LEMMA RenameMarkerStep ==
  ASSUME RecInv, PublishFrame, UNCHANGED <<described, completed>>,
         RenameStep("renameMarker", "syncMarkerName", "marker")
  PROVE  RecInv'
<1>1. /\ pc = "renameMarker" /\ pc \in Publishing /\ pc \in Unsealed
      /\ pc \in Publishing \ {"suffix", "syncSuffix"}
      /\ completed' \in BOOLEAN /\ (completed' => completed)
  BY DEF RenameStep, PublishStep, Publishing, Unsealed, RecInv, RecTypes
<1>2. /\ \A g \in Companions : /\ files[g].at # "none" /\ files[g].entry # "none"
                               /\ files[g].entry = "final" => files[g].at = "final"
      /\ files["marker"].entry # "final" =>
           files["journal"].at = "final" /\ files["journal"].entry = "final"
      /\ files["marker"].at # "final" /\ prepared /\ files \in [File -> FileType]
      /\ publishRequested /\ Len(hashed) = nextIndex /\ committed = nextIndex
      /\ files["media"].mem = hashed /\ files["media"].disk = hashed
  BY <1>1, PublishFacts
<1>3. /\ files["media"].at = "final" /\ files["sidecar"].at = "final"
      /\ files["media"].entry = "final" /\ files["sidecar"].entry = "final"
  BY <1>1 DEF RecInv, RecNames
<1>4. /\ files["sidecar"].mem = described /\ files["sidecar"].disk = described
      /\ files["marker"].mem = TheMarker /\ files["marker"].disk = TheMarker
  BY <1>1 DEF RecInv, RecSidecar, RecMarker
<1>5. ASSUME files' \in {files, Rename(files, "marker")}
      PROVE  /\ SameContents
             /\ \A g \in File : g # "marker" => files'[g] = files[g]
             /\ files'["marker"].at \in {files["marker"].at, "final"}
             /\ files'["marker"].entry = files["marker"].entry
  BY <1>2, <1>5, RenameSame, StandSame, FileNames
<1>6. ASSUME files' \in {files, Rename(files, "marker")}
      PROVE  /\ SameContents
             /\ files'["marker"].entry = files["marker"].entry /\ files'["journal"] = files["journal"]
             /\ \A g \in Companions : /\ files'[g].at # "none" /\ files'[g].entry # "none"
                                      /\ files'[g].entry = "final" => files'[g].at = "final"
             /\ Sealed'
  <2>1. /\ SameContents
        /\ \A g \in File : g # "marker" => files'[g] = files[g]
        /\ files'["marker"].at \in {files["marker"].at, "final"}
        /\ files'["marker"].entry = files["marker"].entry
    BY <1>5, <1>6
  <2>2. /\ files'["journal"] = files["journal"] /\ files'["media"] = files["media"]
        /\ files'["sidecar"] = files["sidecar"]
    BY <2>1, FileNames
  <2>3. files'["marker"].mem = TheMarker /\ files'["marker"].disk = TheMarker
    BY <1>4, <2>1, FileNames DEF SameContents
  <2>4. Sealed'
    BY <1>2, <1>3, <1>4, <2>2, <2>3, MarkerSame DEF Sealed
  <2>5. \A g \in Companions : /\ files'[g].at # "none" /\ files'[g].entry # "none"
                              /\ files'[g].entry = "final" => files'[g].at = "final"
    BY <1>2, <2>1, FileNames
  <2> QED
    BY <2>1, <2>2, <2>4, <2>5
<1>7. CASE /\ files' = Rename(files, "marker") /\ Healthy /\ UNCHANGED faults /\ pc' = "syncMarkerName"
  <2>1. /\ pc' \notin Preparing /\ pc' \notin Running
        /\ pc' \in (Publishing \ {"suffix", "syncSuffix", "renameMedia", "syncMarker", "renameMarker"})
                     \cup {"exited"}
    BY <1>7 DEF Preparing, Publishing, Running, Committing
  <2>2. files'["marker"].at = "final"
    BY <1>2, <1>7, RenameSame, FileNames
  <2>3. completed => files["marker"].entry = "final"
    BY DEF RecInv, RecNames
  <2>4. RecNames'
    BY <1>2, <1>6, <1>7, <2>1, <2>2, <2>3 DEF RecNames
  <2>5. RecSealed'
    BY <1>6, <1>7 DEF RecSealed
  <2>6. SameContents /\ (files["marker"].entry = "final" => files'["marker"].entry = "final")
    BY <1>6, <1>7
  <2> QED
    BY <1>1, <1>7, <2>1, <2>4, <2>5, <2>6, NamesGoOn
<1>8. CASE Fault /\ files' \in {files, Rename(files, "marker")} /\ FailRuntime /\ pc' = "exited"
  BY <1>1, <1>2, <1>6, <1>8, NamesFail
<1> QED
  BY <1>7, <1>8 DEF RenameStep, PublishStep

\* publish removes the journal, which a recording with a marker does not need.
LEMMA RemoveJournalStep ==
  ASSUME RecInv, PublishFrame, UNCHANGED <<described, completed>>, RemoveJournal PROVE RecInv'
<1>1. /\ pc = "unlink" /\ pc \in Publishing /\ pc \in Publishing \ {"suffix", "syncSuffix"}
      /\ completed' \in BOOLEAN /\ (completed' => completed)
  BY DEF RemoveJournal, PublishStep, Publishing, RecInv, RecTypes
<1>2. /\ \A g \in Companions : /\ files[g].at # "none" /\ files[g].entry # "none"
                               /\ files[g].entry = "final" => files[g].at = "final"
      /\ prepared /\ files \in [File -> FileType]
      /\ files["marker"].at = "final" => Sealed
  BY <1>1, PublishFacts
<1>3. files["marker"].at = "final" /\ files["marker"].entry = "final"
  BY <1>1 DEF RecInv, RecNames
<1>4. ASSUME files' \in {files, UnlinkJournal(files)}
      PROVE  /\ SameContents /\ \A f \in Companions : files'[f] = files[f]
             /\ Sealed' /\ files'["marker"].entry = "final" /\ files'["marker"].at = "final"
             /\ \A g \in Companions : /\ files'[g].at # "none" /\ files'[g].entry # "none"
                                      /\ files'[g].entry = "final" => files'[g].at = "final"
  <2>1. SameContents /\ \A f \in Companions : files'[f] = files[f]
    BY <1>2, <1>4, UnlinkSame, StandSame
  <2>2. /\ files["media"].at = "final" /\ files["media"].entry = "final"
        /\ files["sidecar"].at = "final" /\ files["sidecar"].entry = "final" /\ Sealed
    BY <1>2, <1>3 DEF Sealed
  <2>3. /\ files'["media"].at = "final" /\ files'["media"].entry = "final"
        /\ files'["sidecar"].at = "final" /\ files'["sidecar"].entry = "final"
    BY <2>1, <2>2, FileNames
  <2>4. Sealed'
    BY <2>1, <2>2, <2>3, SealedContents
  <2>5. files'["marker"].entry = "final" /\ files'["marker"].at = "final"
    BY <1>3, <2>1, FileNames
  <2> QED
    BY <1>2, <2>1, <2>4, <2>5
<1>5. CASE /\ files' = UnlinkJournal(files) /\ Healthy /\ UNCHANGED faults /\ pc' = "syncUnlink"
  <2>1. /\ pc' \notin Preparing /\ pc' \notin Running
        /\ pc' \in (Publishing \ {"suffix", "syncSuffix", "renameMedia", "syncMarker", "renameMarker"})
                     \cup {"exited"}
    BY <1>5 DEF Preparing, Publishing, Running, Committing
  <2>2. RecNames'
    BY <1>2, <1>4, <1>5, <2>1 DEF RecNames
  <2>3. RecSealed'
    BY <1>4, <1>5 DEF RecSealed
  <2> QED
    BY <1>1, <1>4, <1>5, <2>1, <2>2, <2>3, NamesGoOn
<1>6. CASE Fault /\ files' \in {files, UnlinkJournal(files)} /\ FailRuntime /\ pc' = "exited"
  BY <1>1, <1>3, <1>4, <1>6, NamesFail
<1> QED
  BY <1>5, <1>6 DEF RemoveJournal, PublishStep

\* publish.
LEMMA PublishRecStep == ASSUME RecInv, Publish PROVE RecInv'
<1>1. PublishFrame
  BY DEF Publish, PublishFrame, local
<1>2. CASE PublishCompanions /\ UNCHANGED completed
  <2>1. CASE WriteStep("suffix", "syncSuffix", "sidecar", <<SidecarSuffix(committed)>>)
             /\ UNCHANGED described
    BY <1>1, <1>2, <2>1, SuffixStep
  <2>2. CASE SyncFileStep("syncSuffix", "renameMedia", "sidecar")
             /\ described' = IF pc' = "renameMedia"
                               THEN Append(described, SidecarSuffix(committed)) ELSE described
    BY <1>1, <1>2, <2>2, SyncSuffixStep
  <2>3. CASE \/ RenameStep("renameMedia", "renameSidecar", "media") /\ UNCHANGED described
             \/ RenameStep("renameSidecar", "syncNames", "sidecar") /\ UNCHANGED described
    BY <1>1, <1>2, <2>3, RenameCompanionStep
  <2>4. CASE SyncDirectoryStep("syncNames", "marker") /\ UNCHANGED described
    BY <1>1, <1>2, <2>4, DirectoryStep
  <2> QED
    BY <1>2, <2>1, <2>2, <2>3, <2>4 DEF PublishCompanions
<1>3. CASE PublishMarker /\ UNCHANGED completed
  <2>1. described' = described
    BY <1>3 DEF PublishMarker
  <2>2. CASE WriteStep("marker", "syncMarker", "marker", TheMarker)
    BY <1>1, <1>3, <2>1, <2>2, MarkerStep
  <2>3. CASE SyncFileStep("syncMarker", "renameMarker", "marker")
    BY <1>1, <1>3, <2>1, <2>3, SyncMarkerStep
  <2>4. CASE RenameStep("renameMarker", "syncMarkerName", "marker")
    BY <1>1, <1>3, <2>1, <2>4, RenameMarkerStep
  <2>5. CASE SyncDirectoryStep("syncMarkerName", "unlink")
    BY <1>1, <1>3, <2>1, <2>5, DirectoryStep
  <2> QED
    BY <1>3, <2>2, <2>3, <2>4, <2>5 DEF PublishMarker, TheMarker
<1>4. CASE RemoveJournal /\ UNCHANGED <<described, completed>>
  BY <1>1, <1>4, RemoveJournalStep
<1>5. CASE /\ SyncDirectoryStep("syncUnlink", "exited")
           /\ completed' = (faults' = faults) /\ UNCHANGED described
  BY <1>1, <1>5, DirectoryStep
<1> QED
  BY <1>2, <1>3, <1>4, <1>5 DEF Publish

\* The process starts again and its memory is empty.
LEMMA RestartStep == ASSUME RecInv, Restart PROVE RecInv'
<1>1. /\ pc = "crashed" /\ pc' = "open" /\ resume' = "loop"
      /\ seen' = [stop |-> FALSE, publish |-> FALSE, commit |-> FALSE]
      /\ queue' = <<>> /\ pending' = <<>> /\ hashed' = <<>> /\ described' = <<>>
      /\ nextIndex' = 0 /\ committed' = 0 /\ promised' = 0
      /\ failed' = FALSE /\ stopRequested' = FALSE /\ publishRequested' = FALSE
      /\ commitPendingOnFailure' = FALSE /\ completed' = FALSE /\ prepared' = FALSE
      /\ wall' = "fresh" /\ caller' = "idle" /\ files' = files /\ faults' = faults
  BY DEF Restart
<1>2. /\ pc' \in Closed /\ pc' \in Steps /\ pc' \notin Preparing
      /\ pc' \notin Running \cup Publishing \cup Committing
      /\ pc' \notin {"sidecar", "syncSidecar", "header", "syncHeader", "syncPrepared"}
  BY <1>1 DEF Closed, Steps, Preparing, Running, Publishing, Committing
<1>3. /\ <<>> \in Seq(Unit) /\ <<>> \in Seq(EntryType) /\ Len(<<>>) = 0
  BY EmptyFacts
<1>4. RecTypes'
  <2>1. /\ Len(queue') <= QueueLimit /\ nextIndex' \in 0 .. MaxUnits
        /\ committed' \in Nat /\ promised' \in Nat
    BY <1>1, <1>3, RecBounds
  <2>2. seen' \in [stop : BOOLEAN, publish : BOOLEAN, commit : BOOLEAN]
    BY <1>1
  <2>3. /\ failed' \in BOOLEAN /\ stopRequested' \in BOOLEAN /\ publishRequested' \in BOOLEAN
        /\ commitPendingOnFailure' \in BOOLEAN /\ completed' \in BOOLEAN /\ prepared' \in BOOLEAN
    BY <1>1
  <2>4. files \in [File -> FileType] /\ faults \in 0 .. MaxFaults
    BY DEF RecInv, RecTypes
  <2> QED
    BY <1>1, <1>2, <1>3, <2>1, <2>2, <2>3, <2>4 DEF RecTypes
<1>5. RecCounts'
  BY <1>1, <1>2, <1>3 DEF RecCounts
<1>6. RecFlags'
  BY <1>1, <1>2 DEF RecFlags
<1>7. RecNames'
  BY <1>1, <1>2 DEF RecInv, RecNames
<1>8. RecMedia' /\ RecSidecar' /\ RecMarker' /\ RecSealed' /\ RecHealthy'
  BY <1>1, <1>2 DEF RecInv, RecMedia, RecSidecar, RecMarker, RecSealed, RecHealthy
<1>9. RecJournal'
  BY <1>1, <1>2 DEF RecInv, RecJournal
<1> QED
  BY <1>4, <1>5, <1>6, <1>7, <1>8, <1>9 DEF RecInv

\* What a crash leaves of a file.
LEMMA CrashShape ==
  ASSUME NEW file \in FileType, NEW r \in AfterCrash(file)
  PROVE  /\ r \in FileType /\ r.disk = r.mem /\ r.entry = r.at
         /\ r.at \in {file.at, file.entry}
         /\ r.at # "none" => r.mem \in Survivors(file)
         /\ r.at # "none" /\ file.disk = file.mem => r.mem = file.mem
<1>1. PICK contents \in Survivors(file), place \in {file.at, file.entry} :
        r = IF place = "none" THEN NoFile
            ELSE [mem |-> contents, disk |-> contents, at |-> place, entry |-> place]
  BY DEF AfterCrash
<1>2. PICK k \in Len(file.disk) .. Len(file.mem) : contents \in Cut(file.mem, k)
  BY <1>1 DEF Survivors
<1>3. /\ file.mem \in Seq(RecordType) /\ file.disk \in Seq(RecordType) /\ place \in Place
      /\ Len(file.mem) \in Nat /\ Len(file.disk) \in Nat
  BY <1>1, LenProperties DEF FileType
<1>4. k \in 0 .. Len(file.mem)
  BY <1>2, <1>3
<1>5. contents \in Seq(RecordType) /\ (k = Len(file.mem) => contents = file.mem)
  BY <1>2, <1>3, <1>4, CutFacts
<1>6. ASSUME file.disk = file.mem PROVE contents = file.mem
  BY <1>2, <1>3, <1>5, <1>6
<1>7. CASE place = "none"
  <2>1. r = NoFile
    BY <1>1, <1>7
  <2> QED
    BY <1>1, <1>7, <2>1, EmptyFacts DEF NoFile, FileType, Place
<1>8. CASE place # "none"
  <2>1. r = [mem |-> contents, disk |-> contents, at |-> place, entry |-> place]
    BY <1>1, <1>8
  <2>2. r \in FileType /\ r.disk = r.mem /\ r.entry = r.at /\ r.at = place /\ r.mem = contents
    BY <1>3, <1>5, <2>1 DEF FileType
  <2> QED
    BY <1>1, <1>6, <2>2
<1> QED
  BY <1>7, <1>8

\* The records of a survivor are those written, or damaged.
LEMMA UnitsSurvive ==
  ASSUME NEW file \in FileType, Extends(file.disk, file.mem), NEW c \in Survivors(file),
         NEW m \in Seq(RecordType), UnitsOnDisk(file.mem, m)
  PROVE  UnitsOnDisk(c, m)
<1>1. \A i \in 1 .. Len(c) : \/ i <= Len(file.mem) /\ c[i] = file.mem[i]
                             \/ c[i] \in {Torn, Short}
  BY SurvivorFacts
<1>2. file.mem \in Seq(RecordType) /\ Len(file.mem) \in Nat
  BY LenProperties DEF FileType
<1>3. Len(c) \in Nat
  BY SurvivorFacts, LenProperties
<1> SUFFICES ASSUME NEW k \in 1 .. Len(c), c[k].kind = "unit"
             PROVE  /\ c[k].at = c[k].n /\ c[k].n < Len(m) /\ m[c[k].n + 1] = Payload(c[k].n)
  BY DEF UnitsOnDisk
<1>4. k \in 1 .. Len(file.mem) /\ c[k] = file.mem[k]
  <2>1. c[k] \notin {Torn, Short}
    BY RecordFacts
  <2> QED
    BY <1>1, <1>2, <1>3, <2>1
<1> QED
  BY <1>4 DEF UnitsOnDisk

\* The process or the machine fails between any two system calls.
LEMMA CrashStep == ASSUME RecInv, Crash PROVE RecInv'
<1>1. /\ pc \notin Closed /\ pc' = "crashed"
      /\ UNCHANGED <<resume, seen, queue, pending, hashed, described, committed, promised, wall,
                     nextIndex, failed, stopRequested, publishRequested, commitPendingOnFailure,
                     completed, prepared, caller, faults>>
  BY DEF Crash, local, group, flags, Closed
<1>2. /\ files' \in [File -> UNION {AfterCrash(files[f]) : f \in File}]
      /\ \A f \in File : files'[f] \in AfterCrash(files[f])
  <2>1. PICK journal \in AfterCrash(files["journal"]), media \in AfterCrash(files["media"]),
             sidecar \in AfterCrash(files["sidecar"]), marker \in AfterCrash(files["marker"]) :
          files' = [journal |-> journal, media |-> media, sidecar |-> sidecar, marker |-> marker]
    BY DEF Crash
  <2>2. /\ files'["journal"] = journal /\ files'["media"] = media
        /\ files'["sidecar"] = sidecar /\ files'["marker"] = marker
    BY <2>1
  <2>3. \A f \in File : files'[f] \in AfterCrash(files[f])
    BY <2>2 DEF File
  <2>4. files' = [f \in File |-> files'[f]]
    BY <2>1 DEF File
  <2> QED
    BY <2>3, <2>4
<1>3. \A f \in File : files[f] \in FileType
  BY DEF RecInv, RecTypes
<1>4. \A f \in File : /\ files'[f] \in FileType
                      /\ files'[f].disk = files'[f].mem /\ files'[f].entry = files'[f].at
                      /\ files'[f].at \in {files[f].at, files[f].entry}
  BY <1>2, <1>3, CrashShape
<1>5. \A f \in File : files'[f].at # "none" /\ files[f].disk = files[f].mem =>
                        files'[f].mem = files[f].mem
  BY <1>2, <1>3, CrashShape
<1>6. \A f \in File : files'[f].at # "none" => files'[f].mem \in Survivors(files[f])
  BY <1>2, <1>3, CrashShape
<1>7. /\ pc' \in Steps /\ pc' \notin Closed \cup Preparing \cup Committing \cup Running \cup Publishing
      /\ pc' \notin {"create", "header", "syncHeader", "syncPrepared", "sidecar", "syncSidecar",
                     "suffix", "syncSuffix", "renameMedia", "renameSidecar", "syncNames",
                     "marker", "syncMarker", "renameMarker", "syncMarkerName", "unlink",
                     "syncUnlink"}
  BY <1>1 DEF Steps, Closed, Preparing, Committing, Running, Publishing
<1>8. RecTypes'
  <2>1. files' \in [File -> FileType]
    BY <1>2, <1>4
  <2> QED
    BY <1>1, <1>7, <2>1 DEF RecInv, RecTypes
<1>9. RecCounts'
  BY <1>1, <1>7 DEF RecInv, RecCounts
<1>10. RecFlags'
  BY <1>1, <1>7 DEF RecInv, RecFlags
<1>11. /\ \A f \in Companions : files[f].entry = "final" => files[f].at = "final"
       /\ Companions \subseteq File /\ "marker" \in Companions /\ "journal" \in File
       /\ "media" \in Companions /\ "sidecar" \in Companions
  BY DEF RecInv, RecNames, Companions, File
<1>12. \A f \in Companions : files[f].entry = "final" => files'[f].at = "final"
  BY <1>4, <1>11
<1>13. RecNames'
  <2>1. \A f \in Companions : files'[f].entry = "final" => files'[f].at = "final"
    BY <1>4, <1>11
  <2>2. prepared => \A f \in Companions : files'[f].at # "none" /\ files'[f].entry # "none"
    BY <1>4, <1>11 DEF RecInv, RecNames
  <2>3. ASSUME prepared, files'["marker"].entry # "final"
        PROVE  files'["journal"].at = "final" /\ files'["journal"].entry = "final"
    <3>1. files["marker"].entry # "final"
      BY <1>4, <1>11, <1>12, <2>3
    <3>2. files["journal"].at = "final" /\ files["journal"].entry = "final"
      BY <2>3, <3>1 DEF RecInv, RecNames
    <3> QED
      BY <1>4, <1>11, <3>2
  <2>4. completed => files'["marker"].entry = "final"
    <3>1. completed => files["marker"].entry = "final"
      BY DEF RecInv, RecNames
    <3> QED
      BY <1>4, <1>11, <1>12, <3>1
  <2> QED
    BY <1>1, <1>7, <2>1, <2>2, <2>3, <2>4 DEF RecNames
<1>14. \A f \in File : Extends(files'[f].disk, files'[f].mem)
  <2> TAKE f \in File
  <2>1. files'[f].mem \in Seq(RecordType) /\ files'[f].disk = files'[f].mem
    BY <1>4 DEF FileType
  <2> QED
    BY <2>1, ExtendsItself
<1>15. RecMedia' /\ RecSidecar' /\ RecMarker' /\ RecHealthy'
  <2>1. RecMedia'
    BY <1>7, <1>11, <1>14 DEF RecMedia
  <2>2. RecSidecar'
    BY <1>7 DEF RecSidecar
  <2>3. RecMarker'
    BY <1>7 DEF RecMarker
  <2>4. RecHealthy'
    BY <1>7 DEF RecHealthy
  <2> QED
    BY <2>1, <2>2, <2>3, <2>4
<1>16. RecSealed'
  <2> SUFFICES ASSUME files'["marker"].at = "final" PROVE Sealed'
    BY DEF RecSealed
  <2>1. files["marker"].at = "final"
    BY <1>4, <1>11
  <2>2. Sealed
    BY <1>1, <2>1 DEF RecInv, RecSealed
  <2>3. \A f \in Companions : files[f].disk = files[f].mem
    BY <2>2 DEF Sealed, Companions
  <2>4. /\ files'["media"].at = "final" /\ files'["media"].entry = "final"
        /\ files'["sidecar"].at = "final" /\ files'["sidecar"].entry = "final"
    BY <1>4, <1>11, <2>2 DEF Sealed
  <2>5. \A f \in {"media", "sidecar", "marker"} :
          files'[f].mem = files[f].mem /\ files'[f].disk = files[f].mem
    BY <1>4, <1>5, <1>11, <2>3, <2>4
  <2>6. TheMarker' = TheMarker
    BY <1>1 DEF TheMarker
  <2> QED
    BY <1>1, <2>2, <2>4, <2>5, <2>6 DEF Sealed
<1>17. RecJournal'
  <2>1. ASSUME prepared, files'["marker"].entry # "final"
        PROVE  /\ Len(files'["journal"].disk) >= 1 /\ files'["journal"].disk[1] = Header
               /\ UnitsOnDisk(files'["journal"].mem, files'["media"].disk)
               /\ Kept(files'["journal"].disk, files'["media"].disk, promised)
    <3>1. files["marker"].entry # "final"
      BY <1>4, <1>11, <1>12, <2>1
    <3>2. files'["journal"].at # "none" /\ files'["media"].at # "none"
      BY <1>1, <1>4, <1>11, <1>13, <2>1 DEF RecNames
    <3> DEFINE j == files["journal"]
               m == files["media"]
               j2 == files'["journal"].mem
               m2 == files'["media"].mem
    <3>3. /\ j \in FileType /\ m \in FileType /\ Extends(j.disk, j.mem) /\ Extends(m.disk, m.mem)
          /\ Len(j.disk) >= 1 /\ j.disk[1] = Header
          /\ UnitsOnDisk(j.mem, m.disk) /\ Kept(j.disk, m.disk, promised)
      BY <1>3, <1>11, <2>1, <3>1 DEF RecInv, RecJournal, RecMedia
    <3>4. /\ j2 \in Survivors(j) /\ m2 \in Survivors(m)
          /\ files'["journal"].disk = j2 /\ files'["media"].disk = m2
      BY <1>4, <1>6, <1>11, <3>2
    <3> HIDE DEF j, m, j2, m2
    <3>5. /\ j2 \in Seq(RecordType) /\ Extends(j.disk, j2)
          /\ m2 \in Seq(RecordType) /\ Extends(m.disk, m2)
      BY <3>3, <3>4, SurvivorFacts
    <3>6. /\ j.disk \in Seq(RecordType) /\ m.disk \in Seq(RecordType) /\ j.mem \in Seq(RecordType)
          /\ Len(j.disk) \in Nat /\ Len(j2) \in Nat /\ Len(m.disk) \in Nat /\ Len(m2) \in Nat
      BY <3>3, <3>5, LenProperties DEF FileType
    <3>7. Len(j2) >= 1 /\ j2[1] = Header /\ Len(m.disk) <= Len(m2)
      BY <3>3, <3>5, <3>6 DEF Extends
    <3>8. UnitsOnDisk(j2, m2)
      <4>1. UnitsOnDisk(j2, m.disk)
        BY <3>3, <3>4, <3>6, UnitsSurvive
      <4> QED
        BY <3>5, <3>6, <4>1, UnitsOnDiskGrows
    <3>9. Kept(j2, m2, promised)
      BY <3>3, <3>5, <3>6, <3>7, KeptGrows
    <3> QED
      BY <3>4, <3>7, <3>8, <3>9 DEF j2
  <2> QED
    BY <1>1, <1>7, <1>11, <1>14, <2>1 DEF RecJournal
<1> QED
  BY <1>8, <1>9, <1>10, <1>13, <1>15, <1>16, <1>17 DEF RecInv

\* The inductive invariant: every step of the owner, the worker, the clock and
\* the environment keeps it.
LEMMA RecInvariant == Spec => []RecInv
<1>1. Init => RecInv
  BY InitFiles
<1>2. RecInv /\ [Next]_vars => RecInv'
  <2> SUFFICES ASSUME RecInv, [Next]_vars PROVE RecInv'
    OBVIOUS
  <2>1. CASE OpenPath
    BY <2>1, OpenStep
  <2>2. CASE Initialize
    BY <2>2, InitializeStep
  <2>3. CASE \E keyframe \in BOOLEAN : Enqueue(keyframe)
    BY <2>3, EnqueueStep
  <2>4. CASE EnqueueInvalid \/ EnqueueOverload
    BY <2>4, OwnerFailsStep
  <2>5. CASE Finalize \/ Destroy
    BY <2>5, EndStep
  <2>6. CASE Return \/ Tick \/ UNCHANGED vars
    BY <2>6, QuietStep
  <2>7. CASE Worker
    <3>1. CASE WriteAccessUnit
      BY <3>1, WriteUnitStep
    <3>2. CASE NoUnit \/ Stopping \/ Decide
      BY <3>2, MoveStep
    <3>3. CASE CommitGroup
      BY <3>3, CommitGroupStep
    <3>4. CASE Publish
      BY <3>4, PublishRecStep
    <3> QED
      BY <2>7, <3>1, <3>2, <3>3, <3>4 DEF Worker
  <2>8. CASE Crash
    BY <2>8, CrashStep
  <2>9. CASE Restart
    BY <2>9, RestartStep
  <2> QED
    BY <2>1, <2>2, <2>3, <2>4, <2>5, <2>6, <2>7, <2>8, <2>9 DEF Next
<1> QED
  BY <1>1, <1>2, PTL DEF Spec

\* Whatever a crash tears, reorders or loses of what was not synchronized, and
\* between whichever system calls of commit_group and publish it happens: the
\* inspector still finds every unit of the groups commit_group reported to its
\* caller (promised) and never calls the recording corrupt.
THEOREM CrashesKeepWhatWasPromised == Spec => []CrashKeepsPromise
BY RecInvariant, CrashesKeepPromises, PTL

\* A recording the inspector calls complete holds every unit enqueue accepted
\* before finalize, and one whose finalize reported success is such a recording,
\* also after a crash (publish: the marker gets its name only when all it says is
\* on disk).
THEOREM CompletedIsComplete == Spec => []CompletionIsExact
BY RecInvariant, CompletionsAreExact, PTL
=============================================================================
