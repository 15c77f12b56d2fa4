--------------------------- MODULE RecordingFiles ---------------------------
(***************************************************************************)
(* The four files of one recording, as src/recording/recording_linux.cpp   *)
(* writes them and as its inspector reads them back.                       *)
(*                                                                         *)
(* The file system is external: a file has the contents the program sees   *)
(* (mem) and the contents that are sure to survive a power loss (disk),    *)
(* and its directory entry likewise has a visible place (at) and a durable *)
(* one (entry).  fsync and fdatasync of a file make its contents durable   *)
(* but not its name; fsync of the directory makes all names durable.       *)
(* Renames are atomic, so a file is under its temporary or under its final *)
(* name, never both (the AMBIGUOUS verdicts of the inspector are left out).*)
(*                                                                         *)
(* Contents are sequences of records.  Every access unit has one byte, so  *)
(* an offset counts units, and a SHA-256 is the contents it was taken of.  *)
(***************************************************************************)
EXTENDS Integers, Sequences, FiniteSets

File == {"journal", "media", "sidecar", "marker"}

Place == {"none", "tmp", "final"}

\* One record of a file: what it is, the access unit or the count it is
\* about, and an offset or a length.
Entry(kind, n, at) == [kind |-> kind, n |-> n, at |-> at]

Header == Entry("header", 0, 0)
Payload(index) == Entry("payload", index, 0)
AccessUnitRecord(index, offset) == Entry("unit", index, offset)
CommitRecord(highest, bytes) == Entry("commit", highest, bytes)
SidecarSuffix(units) == Entry("suffix", units, 0)

\* A record of which only a part reached the file; Short is one of fewer
\* bytes than the smallest journal header.
Torn == Entry("torn", 0, 0)
Short == Entry("short", 0, 0)

\* completion_marker: the counts, and the hashes of both companions.
Marker(units, bytes, media, sidecar) ==
  [kind |-> "marker", n |-> units, at |-> bytes,
   media |-> media, sidecar |-> sidecar]

NoFile == [mem |-> <<>>, disk |-> <<>>, at |-> "none", entry |-> "none"]

(***************************************************************************)
(* System calls.                                                           *)
(***************************************************************************)
\* create_regular_file: the journal is created under its final name, the
\* other three under temporary ones.
Create(fs, created) ==
  [f \in File |->
     IF f \in created
       THEN [fs[f] EXCEPT !.at = IF f = "journal" THEN "final" ELSE "tmp"]
       ELSE fs[f]]

\* write_all of whole records at the end of a file.
Write(fs, f, records) == [fs EXCEPT ![f].mem = fs[f].mem \o records]

\* What may follow the first k of some records when the rest is lost.
Tears(records, k) ==
  {<<>>} \cup (IF k < Len(records) THEN {<<Torn>>} ELSE {})
         \cup (IF k = 0 /\ records # <<>> /\ records[1] = Header
                 THEN {<<Short>>} ELSE {})

\* The contents left by records of which only the first k are whole.
Cut(records, k) == {SubSeq(records, 1, k) \o tear : tear \in Tears(records, k)}

\* What a write_all that returns false may leave behind: a prefix of the
\* records, then perhaps a part of the next one.
PartWritten(fs, f, records) ==
  {Write(fs, f, part) : part \in UNION {Cut(records, k) : k \in 0 .. Len(records)}}

\* sync_data and sync_file of a file.
Sync(fs, f) == [fs EXCEPT ![f].disk = fs[f].mem]

\* sync_file of the directory.
SyncDirectory(fs) == [f \in File |-> [fs[f] EXCEPT !.entry = fs[f].at]]

\* rename_noreplace from the temporary to the final name.
Rename(fs, f) == [fs EXCEPT ![f].at = "final"]

\* unlink_if_present of the journal.
UnlinkJournal(fs) == [fs EXCEPT !["journal"].at = "none"]

\* What a crash may leave of a file: everything that was synchronized, and of
\* the rest a prefix whose last record may be torn.
Survivors(file) ==
  UNION {Cut(file.mem, k) : k \in Len(file.disk) .. Len(file.mem)}

\* The states of one file after a crash: its name is the durable or the
\* visible one, and a file without a name is gone.
AfterCrash(file) ==
  {IF place = "none"
     THEN NoFile
     ELSE [mem |-> contents, disk |-> contents, at |-> place, entry |-> place] :
     contents \in Survivors(file), place \in {file.at, file.entry}}

(***************************************************************************)
(* Inspection.                                                             *)
(***************************************************************************)
\* next_index of parse_journal before it reads record i.
UnitsBefore(journal, i) ==
  Cardinality({k \in 2 .. i - 1 : journal[k].kind = "unit"})

\* parse_journal accepts record i, every record before it being accepted;
\* otherwise it stops reading here.
Accepted(journal, media, i) ==
  \/ /\ journal[i].kind = "unit"
     /\ journal[i].n = UnitsBefore(journal, i)
  \/ /\ journal[i].kind = "commit"
     /\ journal[i - 1].kind = "unit"
     /\ journal[i].n = journal[i - 1].n
     /\ journal[i].n + 1 = UnitsBefore(journal, i)
     /\ journal[i].at = journal[i - 1].at + 1
     /\ journal[i].at <= Len(media)

\* The commit records that parse_journal reaches.
CommitsRead(journal, media) ==
  {i \in 2 .. Len(journal) :
     /\ journal[i].kind = "commit"
     /\ \A k \in 2 .. i : Accepted(journal, media, k)}

\* Every unit of a committed group lies where the groups before it end, and
\* the media holds its payload there; otherwise parse_journal has no result.
MediaMatches(journal, media) ==
  \A i \in CommitsRead(journal, media) : \A k \in 2 .. i :
    journal[k].kind = "unit" =>
      /\ journal[k].at = journal[k].n
      /\ media[journal[k].at + 1] = Payload(journal[k].n)

\* committed_count of parse_journal.
CommittedCount(journal, media) ==
  Cardinality({k \in 2 .. Len(journal) :
                 /\ journal[k].kind = "unit"
                 /\ \E i \in CommitsRead(journal, media) : k < i})

Verdict(state, units) == [state |-> state, units |-> units]

\* The marker branch of inspect_recording.
InspectMarker(marker, media, sidecar) ==
  IF /\ media.at = "final" /\ sidecar.at = "final"
     /\ Len(marker.mem) = 1 /\ marker.mem[1].kind = "marker"
     /\ marker.mem[1].at = Len(media.mem)
     /\ marker.mem[1].media = media.mem
     /\ marker.mem[1].sidecar = sidecar.mem
    THEN Verdict("complete", marker.mem[1].n)
    ELSE Verdict("corrupt", 0)

\* The journal branch of inspect_recording.
InspectJournal(journal, media) ==
  IF journal = <<>> \/ Head(journal) = Short
    THEN Verdict("prepared_incomplete", 0)
  ELSE IF Head(journal) # Header
    THEN Verdict("corrupt", 0)
  ELSE IF media.at = "none"
    THEN Verdict(IF Len(journal) = 1 THEN "prepared_incomplete" ELSE "corrupt", 0)
  ELSE IF ~MediaMatches(journal, media.mem)
    THEN Verdict("corrupt", 0)
  ELSE IF CommitsRead(journal, media.mem) = {}
    THEN Verdict("prepared_incomplete", 0)
  ELSE Verdict("incomplete", CommittedCount(journal, media.mem))

\* inspect_recording.
Inspect(fs) ==
  IF fs["marker"].at = "final"
    THEN InspectMarker(fs["marker"], fs["media"], fs["sidecar"])
  ELSE IF fs["journal"].at = "final"
    THEN InspectJournal(fs["journal"].mem, fs["media"])
  ELSE IF fs["media"].at = "final" \/ fs["sidecar"].at = "final"
    THEN Verdict("incomplete", 0)
  ELSE Verdict("absent", 0)
=============================================================================
