--------------------------- MODULE PlatformProofs ---------------------------
(***************************************************************************)
(* Proofs about uploads, probes and the durations that lessons show, for any  *)
(* files, lessons and faults, and that the jobs are a queue of probes.          *)
(***************************************************************************)
EXTENDS AccessProofs

-----------------------------------------------------------------------------
(* The inductive invariant *)

\* A version that has been uploaded, and under this name.
UploadedAs(v, f) == v \in 1..Len(origin) /\ origin[v] = f

FilesSound == \A f \in Files : file[f] # 0 => UploadedAs(file[f], f)

\* What requests carry: the file they are receiving.
MediaSound(s) ==
  media[s].pc = "receive" =>
    media[s].file \in Files /\ UploadedAs(media[s].version, media[s].file)

\* What a worker carries: what it has measured is of its job's file, and the lesson it is
\* about to write has been there.
ProbeSound(p) ==
  /\ ProbeAt(p, "idle") <=> probe[p].key = 0
  /\ ProbeAt(p, "find") \/ ProbeAt(p, "write") =>
       UploadedAs(probe[p].version, Probed(probe[p].key))
  /\ ProbeAt(p, "write") =>
       probe[p].lesson \in Lessons /\ lesson[probe[p].lesson] # None

\* What a worker wrote last, and nobody has entered over, is of a file that workers probe.
ProbedMeasured ==
  \A l \in probed :
    lesson[l] # None /\ \E k \in Keys : UploadedAs(lesson[l].duration, Probed(k))

LibraryInv ==
  /\ LibraryTyped /\ OneWorkerEach /\ FilesSound /\ ProbedMeasured
  /\ \A s \in Slots : MediaSound(s)
  /\ \A p \in Processes : ProbeSound(p)

-----------------------------------------------------------------------------
(* Uploads and lessons are never undone *)

Grows ==
  /\ Len(origin) <= Len(origin') /\ \A v \in 1..Len(origin) : origin'[v] = origin[v]
  /\ \A l \in Lessons : lesson[l] # None => lesson'[l] # None

LEMMA LengthIsNat ==
  ASSUME LibraryTyped
  PROVE  Len(origin) \in Nat
  BY DEF LibraryTyped

LEMMA StillUploaded ==
  ASSUME LibraryTyped, LibraryTyped', Grows, NEW v, NEW f, UploadedAs(v, f)
  PROVE  UploadedAs(v, f)'
<1>1. Len(origin) \in Nat /\ Len(origin') \in Nat  BY DEF LibraryTyped
<1> QED  BY <1>1 DEF Grows, UploadedAs

LEMMA MediaStays ==
  ASSUME LibraryTyped, LibraryTyped', Grows, NEW s \in Slots, MediaSound(s),
         media'[s] = media[s]
  PROVE  MediaSound(s)'
<1>1. media[s].pc = "receive" => UploadedAs(media[s].version, media[s].file)'
  BY StillUploaded DEF MediaSound
<1> QED  BY <1>1 DEF MediaSound, Grows, UploadedAs

LEMMA ProbeStays ==
  ASSUME LibraryTyped, LibraryTyped', Grows, NEW p \in Processes, ProbeSound(p),
         probe'[p] = probe[p]
  PROVE  ProbeSound(p)'
<1>1. ProbeAt(p, "find") \/ ProbeAt(p, "write") =>
        UploadedAs(probe[p].version, Probed(probe[p].key))'
  BY StillUploaded DEF ProbeSound
<1> QED  BY <1>1 DEF ProbeSound, ProbeAt, Grows, UploadedAs, Probed

LEMMA ProbedStays ==
  ASSUME LibraryInv, LibraryTyped', Grows, UNCHANGED <<lesson, probed>>
  PROVE  ProbedMeasured'
<1> SUFFICES ASSUME NEW l \in probed
             PROVE  lesson[l] # None /\ \E k \in Keys : UploadedAs(lesson[l].duration, Probed(k))'
  BY DEF ProbedMeasured, UploadedAs, Probed
<1>1. PICK k \in Keys : UploadedAs(lesson[l].duration, Probed(k))
  BY DEF LibraryInv, ProbedMeasured
<1>2. UploadedAs(lesson[l].duration, Probed(k))'
  BY <1>1, StillUploaded DEF LibraryInv
<1> QED  BY <1>2 DEF LibraryInv, ProbedMeasured

LEMMA IdleRows ==
  /\ IdleMedia \in MediaRow /\ IdleMedia.pc = "idle"
  /\ IdleProbe \in ProbeRow /\ IdleProbe.pc = "idle" /\ IdleProbe.key = 0
  BY LibraryAssumption DEF IdleMedia, MediaRow, IdleProbe, ProbeRow

LEMMA LessonRows == \A r \in LessonRow : r # None
  BY LibraryAssumption

LEMMA JobRows == \A r \in JobRow : r # None
  BY LibraryAssumption

LEMMA VersionsFit ==
  ASSUME LibraryTyped
  PROVE  1..Len(origin) \subseteq 0..MaxVersions /\ 0..Len(origin) \subseteq 0..MaxVersions
         /\ 1..Len(origin) \subseteq Versions
  BY LengthIsNat, LibraryAssumption DEF LibraryTyped, Versions

\* No worker has another job than before, and what it works on is left alone.
LEMMA WorkersStay ==
  ASSUME OneWorkerEach, LibraryAssumption,
         \A p \in Processes : probe'[p].key \in {0, probe[p].key},
         \A p \in Processes, k \in Keys : probe'[p].key = k => job'[k] = job[k],
         ~ Up("script")' => ProbeAt("script", "idle")'
  PROVE  OneWorkerEach'
<1>1. 0 \notin Keys  BY DEF Keys
<1>2. \A p, q \in Processes : \A k \in Keys :
        probe'[p].key = k => /\ job'[k] # None /\ job'[k].state = "active"
                             /\ probe'[q].key = k => p = q
  BY <1>1 DEF OneWorkerEach
<1> QED  BY <1>2 DEF OneWorkerEach

\* Whoever moves or finishes, and whatever happens to the jobs nobody works on.
LEMMA QueueStays ==
  ASSUME LibraryInv, UNCHANGED <<probe, script>>,
         \A k \in Keys : job[k] # None /\ job[k].state = "active" => job'[k] = job[k]
  PROVE  OneWorkerEach'
<1>1. \A p \in Processes, k \in Keys : probe'[p].key = k => job'[k] = job[k]
  BY DEF LibraryInv, OneWorkerEach
<1>2. ~ Up("script")' => ProbeAt("script", "idle")'
  BY DEF LibraryInv, OneWorkerEach, Up, ProbeAt
<1> QED  BY <1>1, <1>2, WorkersStay, LibraryAssumption DEF LibraryInv

LEMMA AddedJob ==
  ASSUME LibraryTyped, NEW k \in Keys, NEW tries \in 1..3
  PROVE  /\ Added(k, tries) \in [Keys -> JobRow \cup {None}]
         /\ Added(k, tries)[k] # None
         /\ job[k] # None => Added(k, tries) = job
         /\ \A x \in Keys : x # k => Added(k, tries)[x] = job[x]
<1>1. [state |-> "wait", tries |-> tries, stalled |-> FALSE] \in JobRow  BY DEF JobRow
<1> QED  BY <1>1, JobRows DEF Added, LibraryTyped

LEMMA FailedJob ==
  ASSUME LibraryTyped, NEW k \in Keys, job[k] # None
  PROVE  /\ Failed(k) \in [Keys -> JobRow \cup {None}]
         /\ job[k].tries # 1 => Failed(k)[k] # None
         /\ \A x \in Keys : x # k => Failed(k)[x] = job[x]
<1>1. job[k] \in JobRow  BY DEF LibraryTyped
<1>2. CASE job[k].tries > 1
  <2>1. [job[k] EXCEPT !.state = "wait", !.tries = @ - 1] \in JobRow
    <3>1. job[k].tries - 1 \in 1..3  BY <1>1, <1>2 DEF JobRow
    <3>2. \A j \in JobRow, n \in 1..3 : [j EXCEPT !.state = "wait", !.tries = n] \in JobRow
      BY DEF JobRow
    <3> QED  BY <1>1, <3>1, <3>2
  <2>2. Failed(k) = [job EXCEPT ![k] = [job[k] EXCEPT !.state = "wait", !.tries = @ - 1]]
    BY <1>2 DEF Failed, LibraryTyped
  <2> QED  BY <2>1, <2>2, JobRows DEF LibraryTyped
<1>3. CASE ~ job[k].tries > 1
  BY <1>1, <1>3 DEF Failed, LibraryTyped, JobRow
<1> QED  BY <1>2, <1>3

\* What each process has in hand.
LEMMA InHand ==
  ASSUME LibraryInv, NEW p \in Processes, ~ ProbeAt(p, "idle")
  PROVE  /\ probe[p].key \in Keys /\ job[probe[p].key] # None
         /\ job[probe[p].key].state = "active"
         /\ \A q \in Processes : probe[q].key = probe[p].key => q = p
<1>1. probe[p].key \in Keys
  BY LibraryAssumption DEF LibraryInv, LibraryTyped, ProbeRow, ProbeSound, Keys
<1> QED  BY <1>1 DEF LibraryInv, OneWorkerEach

-----------------------------------------------------------------------------
(* Uploads *)

LEMMA Appended ==
  ASSUME LibraryInv, NEW f \in Files, Len(origin) < MaxVersions,
         origin' = Append(origin, f)
  PROVE  /\ origin' \in Seq(Files) /\ Len(origin') <= MaxVersions
         /\ Len(origin') = Len(origin) + 1 /\ Len(origin) \in Nat
         /\ \A v \in 1..Len(origin) : origin'[v] = origin[v]
         /\ origin'[Len(origin) + 1] = f
<1>1. origin \in Seq(Files) /\ Len(origin) \in Nat /\ MaxVersions \in Nat
  BY LengthIsNat, LibraryAssumption DEF LibraryInv, LibraryTyped
<1> QED  BY <1>1

LEMMA KeysOfFiles == \A f \in Files : f[1] \in Keys
  BY DEF Files

\* Uploads through the service count where files are looked for, or they do not.
LEMMA DiskSound ==
  ASSUME LibraryInv, LibraryTyped', Grows, NEW f \in Files, NEW v, file' = OnDisk(f, v),
         v # 0 => UploadedAs(v, f)'
  PROVE  FilesSound'
<1>1. \A g \in Files : file'[g] = file[g] \/ (g = f /\ file'[g] = v)
  BY DEF OnDisk, LibraryInv, LibraryTyped
<1>2. ASSUME NEW g \in Files, file'[g] = file[g], file'[g] # 0  PROVE UploadedAs(file[g], g)'
  BY <1>2, StillUploaded DEF LibraryInv, FilesSound
<1> QED  BY <1>1, <1>2 DEF FilesSound, UploadedAs

LEMMA DiskTyped ==
  ASSUME LibraryTyped, Len(origin') \in Nat, Len(origin) <= Len(origin'),
         NEW f \in Files, NEW v \in 0..Len(origin'), file' = OnDisk(f, v)
  PROVE  file' \in [Files -> 0..Len(origin')]
  BY LengthIsNat DEF OnDisk, LibraryTyped

LEMMA ReceiveKeeps ==
  ASSUME LibraryInv, NEW s \in Slots, NEW f \in Files, Receive(s, f)
  PROVE  LibraryInv'
<1> DEFINE row == [pc |-> "receive", file |-> f, version |-> Len(origin) + 1]
<1>1. /\ Len(origin) < MaxVersions /\ origin' = Append(origin, f)
      /\ file' = OnDisk(f, 0) /\ media' = [media EXCEPT ![s] = row]
      /\ nextKey' = IF f[1] = nextKey THEN nextKey + 1 ELSE nextKey
      /\ awaited' = awaited \ {f[1]}
      /\ UNCHANGED <<granted, lesson, job, probe, probed, script>>
  BY DEF Receive, MediaFrame, accessVars
<1>2. /\ origin' \in Seq(Files) /\ Len(origin') <= MaxVersions
      /\ Len(origin') = Len(origin) + 1 /\ Len(origin) \in Nat
      /\ \A v \in 1..Len(origin) : origin'[v] = origin[v]
      /\ origin'[Len(origin) + 1] = f
  BY <1>1, Appended
<1>3. row \in MediaRow
  BY <1>1, <1>2, LibraryAssumption DEF MediaRow
<1>4. file' \in [Files -> 0..Len(origin')]
  BY <1>1, <1>2, DiskTyped DEF LibraryInv
<1>5. nextKey' \in 1..(MaxKeys + 1)
  BY <1>1, KeysOfFiles, LibraryAssumption DEF LibraryInv, LibraryTyped, Keys
<1>6. LibraryTyped'
  BY <1>1, <1>2, <1>3, <1>4, <1>5 DEF LibraryInv, LibraryTyped
<1>7. Grows  BY <1>1, <1>2 DEF Grows
<1>8. FilesSound'  BY <1>1, <1>6, <1>7, DiskSound
<1>9. \A x \in Slots : MediaSound(x)'
  <2>1. MediaSound(s)'
    <3>1. media'[s] = row  BY <1>1 DEF LibraryInv, LibraryTyped
    <3>2. row.pc = "receive" /\ row.file = f /\ row.version = Len(origin) + 1
      OBVIOUS
    <3> HIDE DEF row
    <3> QED  BY <1>2, <3>1, <3>2 DEF MediaSound, UploadedAs
  <2>2. \A x \in Slots : x # s => media'[x] = media[x]
    BY <1>1 DEF LibraryInv, LibraryTyped
  <2> QED  BY <2>1, <2>2, <1>6, <1>7, MediaStays DEF LibraryInv
<1>10. \A p \in Processes : ProbeSound(p)'
  BY <1>1, <1>6, <1>7, ProbeStays DEF LibraryInv
<1>11. OneWorkerEach'  BY <1>1, QueueStays
<1>12. ProbedMeasured'  BY <1>1, <1>6, <1>7, ProbedStays
<1> QED  BY <1>6, <1>8, <1>9, <1>10, <1>11, <1>12 DEF LibraryInv

\* The media of one slot moves, and jobs may be added; uploads stand.
LEMMA SlotMoves ==
  ASSUME LibraryInv, LibraryTyped', UNCHANGED <<origin, lesson, probe, probed, script>>,
         NEW s \in Slots, MediaSound(s)', \A x \in Slots : x # s => media'[x] = media[x],
         FilesSound',
         \A k \in Keys : job[k] # None /\ job[k].state = "active" => job'[k] = job[k]
  PROVE  LibraryInv'
<1>1. Grows  BY LengthIsNat DEF Grows, LibraryInv
<1>2. \A x \in Slots : MediaSound(x)'
  BY <1>1, MediaStays DEF LibraryInv
<1>3. \A p \in Processes : ProbeSound(p)'
  BY <1>1, ProbeStays DEF LibraryInv
<1>4. OneWorkerEach'  BY QueueStays
<1>5. ProbedMeasured'  BY <1>1, ProbedStays
<1> QED  BY <1>2, <1>3, <1>4, <1>5 DEF LibraryInv

LEMMA IdleSlot ==
  ASSUME LibraryInv, NEW s \in Slots, media' = [media EXCEPT ![s] = IdleMedia]
  PROVE  /\ media' \in [Slots -> MediaRow] /\ MediaSound(s)'
         /\ \A x \in Slots : x # s => media'[x] = media[x]
<1>1. media'[s] = IdleMedia  BY DEF LibraryInv, LibraryTyped
<1>2. MediaSound(s)'  BY <1>1, IdleRows DEF MediaSound
<1> QED  BY <1>2, IdleRows DEF LibraryInv, LibraryTyped

LEMMA AcceptKeeps ==
  ASSUME LibraryInv, NEW s \in Slots, Accept(s)
  PROVE  LibraryInv'
<1> DEFINE f == media[s].file
<1>1. /\ media[s].pc = "receive" /\ media' = [media EXCEPT ![s] = IdleMedia]
      /\ file' = OnDisk(f, media[s].version)
      /\ awaited' = awaited \ {f[1]} /\ (job' = Added(f[1], 1) \/ job' = job)
      /\ UNCHANGED <<origin, nextKey, granted, lesson, probe, probed, script>>
  BY DEF Accept, MediaFrame, accessVars
<1>2. f \in Files /\ UploadedAs(media[s].version, f) /\ f[1] \in Keys
  BY <1>1, KeysOfFiles DEF LibraryInv, MediaSound
<1>3. /\ job' \in [Keys -> JobRow \cup {None}]
      /\ \A k \in Keys : job[k] # None => job'[k] = job[k]
  BY <1>1, <1>2, AddedJob DEF LibraryInv, LibraryTyped
<1>4. file' \in [Files -> 0..Len(origin')]
  <2>1. Len(origin) \in Nat /\ origin' = origin  BY <1>1, LengthIsNat DEF LibraryInv
  <2>2. media[s].version \in 0..Len(origin')  BY <1>2, <2>1 DEF UploadedAs
  <2> QED  BY <1>1, <1>2, <2>1, <2>2, DiskTyped DEF LibraryInv
<1>5. LibraryTyped'
  BY <1>1, <1>3, <1>4, IdleSlot DEF LibraryInv, LibraryTyped
<1>6. FilesSound'
  <2>1. Grows  BY <1>1, LengthIsNat DEF Grows, LibraryInv
  <2>2. ASSUME NEW v, v = media[s].version, NEW g \in Files, g = f
        PROVE  FilesSound'
    <3>1. UploadedAs(v, g)'  BY <1>1, <1>2, <2>2 DEF UploadedAs
    <3> QED  BY <1>1, <1>5, <2>1, <2>2, <3>1, DiskSound
  <2> QED  BY <1>2, <2>2
<1> QED  BY <1>1, <1>3, <1>5, <1>6, IdleSlot, SlotMoves

LEMMA RejectKeeps ==
  ASSUME LibraryInv, NEW s \in Slots, Reject(s)
  PROVE  LibraryInv'
<1> DEFINE f == media[s].file
<1>1. /\ media[s].pc = "receive" /\ media' = [media EXCEPT ![s] = IdleMedia]
      /\ file' = OnDisk(f, 0) /\ awaited' = awaited \ {f[1]}
      /\ UNCHANGED <<origin, nextKey, granted, lesson, job, probe, probed, script>>
  BY DEF Reject, MediaFrame, accessVars
<1>2. f \in Files  BY <1>1 DEF LibraryInv, MediaSound
<1>3. file' \in [Files -> 0..Len(origin')]
  <2>1. Len(origin) \in Nat /\ origin' = origin  BY <1>1, LengthIsNat DEF LibraryInv
  <2> QED  BY <1>1, <1>2, <2>1, DiskTyped DEF LibraryInv
<1>4. LibraryTyped'
  BY <1>1, <1>3, IdleSlot DEF LibraryInv, LibraryTyped
<1>5. FilesSound'
  <2>1. Grows  BY <1>1, LengthIsNat DEF Grows, LibraryInv
  <2>2. ASSUME NEW g \in Files, g = f  PROVE FilesSound'
    BY <1>1, <1>4, <2>1, <2>2, DiskSound
  <2> QED  BY <1>2, <2>2
<1> QED  BY <1>1, <1>4, <1>5, IdleSlot, SlotMoves

\* Nothing moves but keys, grants and jobs that nobody works on.
LEMMA TablesStay ==
  ASSUME LibraryInv, LibraryTyped',
         UNCHANGED <<origin, file, lesson, media, probe, probed, script>>,
         \A k \in Keys : job[k] # None /\ job[k].state = "active" => job'[k] = job[k]
  PROVE  LibraryInv'
<1>1. Grows  BY LengthIsNat DEF Grows, LibraryInv
<1>2. \A x \in Slots : MediaSound(x)'  BY <1>1, MediaStays DEF LibraryInv
<1>3. \A p \in Processes : ProbeSound(p)'  BY <1>1, ProbeStays DEF LibraryInv
<1>4. OneWorkerEach'  BY QueueStays
<1>5. ProbedMeasured'  BY <1>1, ProbedStays
<1>6. FilesSound'  BY DEF LibraryInv, FilesSound, UploadedAs
<1> QED  BY <1>2, <1>3, <1>4, <1>5, <1>6 DEF LibraryInv

LEMMA InitUploadKeeps ==
  ASSUME LibraryInv, NEW ext \in {"mp4", "mov"}, InitUpload(ext)
  PROVE  LibraryInv'
<1>1. /\ nextKey \in Keys /\ granted' = granted \cup {<<nextKey, ext>>}
      /\ nextKey' = nextKey + 1
      /\ UNCHANGED <<origin, file, lesson, media, job, probe, probed, awaited, script>>
  BY DEF InitUpload, MediaFrame, accessVars
<1>2. <<nextKey, ext>> \in Files  BY <1>1 DEF Files
<1>3. nextKey' \in 1..(MaxKeys + 1)  BY <1>1, LibraryAssumption DEF Keys
<1>4. LibraryTyped'
  BY <1>1, <1>2, <1>3 DEF LibraryInv, LibraryTyped
<1> QED  BY <1>1, <1>4, TablesStay

LEMMA PutKeeps ==
  ASSUME LibraryInv, NEW f \in Files, Put(f)
  PROVE  LibraryInv'
<1>1. /\ Len(origin) < MaxVersions /\ origin' = Append(origin, f)
      /\ file' = [file EXCEPT ![f] = Len(origin) + 1] /\ awaited' = awaited \ {f[1]}
      /\ UNCHANGED <<nextKey, granted, lesson, media, job, probe, probed, script>>
  BY DEF Put, MediaFrame, accessVars
<1>2. /\ origin' \in Seq(Files) /\ Len(origin') <= MaxVersions
      /\ Len(origin') = Len(origin) + 1 /\ Len(origin) \in Nat
      /\ \A v \in 1..Len(origin) : origin'[v] = origin[v]
      /\ origin'[Len(origin) + 1] = f
  BY <1>1, Appended
<1>3. file' \in [Files -> 0..Len(origin')]
  BY <1>1, <1>2 DEF LibraryInv, LibraryTyped
<1>4. LibraryTyped'
  BY <1>1, <1>2, <1>3 DEF LibraryInv, LibraryTyped
<1>5. Grows  BY <1>1, <1>2 DEF Grows
<1>6. FilesSound'
  <2>1. \A g \in Files : g # f => file'[g] = file[g]
    BY <1>1 DEF LibraryInv, LibraryTyped
  <2>2. file'[f] = Len(origin) + 1  BY <1>1 DEF LibraryInv, LibraryTyped
  <2>3. \A g \in Files : g # f /\ file[g] # 0 => UploadedAs(file[g], g)'
    BY <1>4, <1>5, <2>1, StillUploaded DEF LibraryInv, FilesSound
  <2>4. UploadedAs(file[f], f)'  BY <1>2, <2>2 DEF UploadedAs
  <2> QED  BY <2>1, <2>3, <2>4 DEF FilesSound
<1>7. \A x \in Slots : MediaSound(x)'  BY <1>1, <1>4, <1>5, MediaStays DEF LibraryInv
<1>8. \A p \in Processes : ProbeSound(p)'  BY <1>1, <1>4, <1>5, ProbeStays DEF LibraryInv
<1>9. OneWorkerEach'  BY <1>1, QueueStays
<1>10. ProbedMeasured'  BY <1>1, <1>4, <1>5, ProbedStays
<1> QED  BY <1>4, <1>6, <1>7, <1>8, <1>9, <1>10 DEF LibraryInv

LEMMA UploadSuccessKeeps ==
  ASSUME LibraryInv, NEW k \in Keys, UploadSuccess(k)
  PROVE  LibraryInv'
<1>1. /\ job' = Added(k, 3) \/ job' = job
      /\ awaited' \subseteq awaited \cup {k}
      /\ UNCHANGED <<origin, file, nextKey, granted, lesson, media, probe, probed, script>>
  BY DEF UploadSuccess, MediaFrame, accessVars
<1>2. /\ job' \in [Keys -> JobRow \cup {None}]
      /\ \A x \in Keys : job[x] # None => job'[x] = job[x]
  BY <1>1, AddedJob DEF LibraryInv, LibraryTyped
<1>3. LibraryTyped'  BY <1>1, <1>2 DEF LibraryInv, LibraryTyped
<1> QED  BY <1>1, <1>2, <1>3, TablesStay

-----------------------------------------------------------------------------
(* Lessons *)

\* A lesson is written: by an owner, whose duration counts as nobody's, or but for that.
LEMMA LessonWritten ==
  ASSUME LibraryInv, NEW l \in Lessons, NEW row \in LessonRow,
         lesson' = [lesson EXCEPT ![l] = row],
         \/ probed' = probed \ {l}
         \/ probed' = probed /\ row.duration = lesson[l].duration,
         UNCHANGED <<origin, file, nextKey, granted, media, job, probe, script>>,
         awaited' \subseteq Keys
  PROVE  LibraryInv'
<1>1. LibraryTyped'  BY DEF LibraryInv, LibraryTyped
<1>2. \A x \in Lessons : lesson'[x] = IF x = l THEN row ELSE lesson[x]
  BY DEF LibraryInv, LibraryTyped
<1>3. Grows  BY <1>2, LengthIsNat, LessonRows DEF Grows, LibraryInv
<1>4. \A x \in Slots : MediaSound(x)'  BY <1>1, <1>3, MediaStays DEF LibraryInv
<1>5. \A p \in Processes : ProbeSound(p)'  BY <1>1, <1>3, ProbeStays DEF LibraryInv
<1>6. OneWorkerEach'  BY QueueStays
<1>7. ProbedMeasured'
  <2> SUFFICES ASSUME NEW x \in probed'
               PROVE  /\ lesson'[x] # None
                      /\ \E k \in Keys : UploadedAs(lesson'[x].duration, Probed(k))
    BY DEF ProbedMeasured, UploadedAs, Probed
  <2>1. x \in probed /\ x \in Lessons  BY DEF LibraryInv, LibraryTyped
  <2>2. lesson'[x] # None /\ lesson'[x].duration = lesson[x].duration
    BY <1>2, <2>1, LessonRows DEF LibraryInv, ProbedMeasured
  <2> QED  BY <2>1, <2>2 DEF LibraryInv, ProbedMeasured
<1>8. FilesSound'  BY DEF LibraryInv, FilesSound, UploadedAs
<1> QED  BY <1>1, <1>4, <1>5, <1>6, <1>7, <1>8 DEF LibraryInv

LEMMA CreateLessonKeeps ==
  ASSUME LibraryInv, NEW l \in Lessons, NEW k \in Keys, NEW d \in Durations,
         CreateLesson(l, k, d)
  PROVE  LibraryInv'
<1> DEFINE row == [key |-> k, duration |-> d, live |-> TRUE]
<1>1. /\ lesson' = [lesson EXCEPT ![l] = row] /\ awaited' = awaited \ {k}
      /\ probed' = probed \ {l}
      /\ UNCHANGED <<origin, file, nextKey, granted, media, job, probe, script>>
  BY DEF CreateLesson, MediaFrame, accessVars
<1>2. row \in LessonRow  BY DEF LessonRow
<1>3. awaited' \subseteq Keys  BY <1>1 DEF LibraryInv, LibraryTyped
<1> HIDE DEF row
<1> QED  BY <1>1, <1>2, <1>3, LessonWritten

LEMMA UpdateLessonKeeps ==
  ASSUME LibraryInv, NEW l \in Lessons, NEW k \in Keys, NEW d \in Durations,
         UpdateLesson(l, k, d)
  PROVE  LibraryInv'
<1> DEFINE row == [lesson[l] EXCEPT !.key = k, !.duration = d]
<1>1. /\ lesson[l] # None /\ lesson' = [lesson EXCEPT ![l].key = k, ![l].duration = d]
      /\ probed' = probed \ {l} /\ awaited' = awaited \ {k, lesson[l].key}
      /\ UNCHANGED <<origin, file, nextKey, granted, media, job, probe, script>>
  BY DEF UpdateLesson, LiveLesson, MediaFrame, accessVars
<1>2. lesson[l] \in LessonRow  BY <1>1 DEF LibraryInv, LibraryTyped
<1>3. row \in LessonRow  BY <1>2 DEF LessonRow
<1>4. lesson' = [lesson EXCEPT ![l] = row]
  BY <1>1 DEF LibraryInv, LibraryTyped
<1>5. awaited' \subseteq Keys  BY <1>1 DEF LibraryInv, LibraryTyped
<1> HIDE DEF row
<1> QED  BY <1>1, <1>3, <1>4, <1>5, LessonWritten

LEMMA DeleteLessonKeeps ==
  ASSUME LibraryInv, NEW l \in Lessons, DeleteLesson(l)
  PROVE  LibraryInv'
<1> DEFINE row == [lesson[l] EXCEPT !.live = FALSE]
<1>1. /\ lesson' = [lesson EXCEPT ![l].live = FALSE] /\ lesson[l] # None
      /\ awaited' = awaited \ {lesson[l].key}
      /\ UNCHANGED <<origin, file, nextKey, granted, media, job, probe, probed, script>>
  BY DEF DeleteLesson, LiveLesson, MediaFrame, accessVars
<1>2. lesson[l] \in LessonRow  BY <1>1 DEF LibraryInv, LibraryTyped
<1>3. row \in LessonRow /\ row.duration = lesson[l].duration
  BY <1>2 DEF LessonRow
<1>4. lesson' = [lesson EXCEPT ![l] = row]
  BY <1>1 DEF LibraryInv, LibraryTyped
<1>5. awaited' \subseteq Keys  BY <1>1 DEF LibraryInv, LibraryTyped
<1> HIDE DEF row
<1> QED  BY <1>1, <1>2, <1>3, <1>4, <1>5, LessonWritten

-----------------------------------------------------------------------------
(* Workers *)

\* One worker moves to a row that is sound; jobs of others, and tables, stand.
LEMMA WorkerMoves ==
  ASSUME LibraryInv, LibraryTyped', Grows, NEW p \in Processes, ProbeSound(p)',
         UNCHANGED <<origin, file, media>>,
         \A q \in Processes : q # p => probe'[q] = probe[q],
         OneWorkerEach', ProbedMeasured'
  PROVE  LibraryInv'
<1>1. \A x \in Slots : MediaSound(x)'  BY MediaStays DEF LibraryInv
<1>2. \A q \in Processes : ProbeSound(q)'  BY ProbeStays DEF LibraryInv
<1>3. FilesSound'  BY DEF LibraryInv, FilesSound, UploadedAs
<1> QED  BY <1>1, <1>2, <1>3 DEF LibraryInv

\* A worker that keeps or leaves its job, where the other jobs stand.
LEMMA WorkerStays ==
  ASSUME LibraryInv, NEW p \in Processes, UNCHANGED script,
         \A q \in Processes : q # p => probe'[q] = probe[q],
         \/ probe'[p].key = 0 /\ probe'[p].pc = "idle"
         \/ probe'[p].key = probe[p].key /\ ~ ProbeAt(p, "idle"),
         \A k \in Keys : k # probe[p].key \/ probe'[p].key # 0 => job'[k] = job[k],
         ~ ProbeAt(p, "idle")
  PROVE  OneWorkerEach'
<1>1. \A q \in Processes : probe'[q].key \in {0, probe[q].key}  OBVIOUS
<1>2. ASSUME NEW q \in Processes, NEW k \in Keys, probe'[q].key = k
      PROVE  job'[k] = job[k]
  BY <1>2, InHand, LibraryAssumption DEF Keys
<1>3. ~ Up("script")' => ProbeAt("script", "idle")'
  BY DEF LibraryInv, OneWorkerEach, Up, ProbeAt, Processes
<1> QED  BY <1>1, <1>2, <1>3, WorkersStay, LibraryAssumption DEF LibraryInv

LEMMA NothingWritten ==
  ASSUME LibraryInv, UNCHANGED <<origin, lesson, probed>>
  PROVE  Grows /\ ProbedMeasured'
  BY LengthIsNat DEF Grows, LibraryInv, ProbedMeasured, UploadedAs, Probed

LEMMA IdleWorker ==
  ASSUME LibraryInv, NEW p \in Processes, probe' = [probe EXCEPT ![p] = IdleProbe]
  PROVE  /\ probe' \in [Processes -> ProbeRow] /\ ProbeSound(p)'
         /\ probe'[p].key = 0 /\ probe'[p].pc = "idle"
         /\ \A q \in Processes : q # p => probe'[q] = probe[q]
<1>1. probe'[p] = IdleProbe  BY DEF LibraryInv, LibraryTyped
<1>2. ProbeSound(p)'  BY <1>1, IdleRows DEF ProbeSound, ProbeAt
<1> QED  BY <1>1, <1>2, IdleRows DEF LibraryInv, LibraryTyped

LEMMA AttemptFailsKeeps ==
  ASSUME LibraryInv, NEW p \in Processes, ~ ProbeAt(p, "idle"), AttemptFails(p)
  PROVE  LibraryInv'
<1> DEFINE k == probe[p].key
<1>1. /\ job' = Failed(k) /\ probe' = [probe EXCEPT ![p] = IdleProbe]
      /\ awaited' \subseteq awaited
      /\ UNCHANGED <<origin, file, nextKey, granted, lesson, media, probed, script>>
  BY DEF AttemptFails, ProbeFrame, MediaFrame, accessVars
<1>2. /\ job' \in [Keys -> JobRow \cup {None}]
      /\ \A x \in Keys : x # k => job'[x] = job[x]
  BY <1>1, InHand, FailedJob DEF LibraryInv
<1>3. LibraryTyped'
  BY <1>1, <1>2, IdleWorker DEF LibraryInv, LibraryTyped
<1>4. OneWorkerEach'
  BY <1>1, <1>2, IdleWorker, WorkerStays
<1> QED  BY <1>1, <1>3, <1>4, IdleWorker, NothingWritten, WorkerMoves

LEMMA CompleteKeeps ==
  ASSUME LibraryInv, NEW p \in Processes, Complete(p)
  PROVE  LibraryInv'
<1> DEFINE k == probe[p].key
<1>1. /\ ~ ProbeAt(p, "idle") /\ job' = [job EXCEPT ![k] = None]
      /\ probe' = [probe EXCEPT ![p] = IdleProbe]
      /\ UNCHANGED <<origin, file, nextKey, granted, lesson, media, probed, awaited, script>>
  BY DEF Complete, ProbeAt, ProbeFrame, MediaFrame, accessVars
<1>2. /\ job' \in [Keys -> JobRow \cup {None}]
      /\ \A x \in Keys : x # k => job'[x] = job[x]
  BY <1>1 DEF LibraryInv, LibraryTyped
<1>3. LibraryTyped'
  BY <1>1, <1>2, IdleWorker DEF LibraryInv, LibraryTyped
<1>4. OneWorkerEach'
  BY <1>1, <1>2, IdleWorker, WorkerStays
<1> QED  BY <1>1, <1>3, <1>4, IdleWorker, NothingWritten, WorkerMoves

LEMMA TakeJobKeeps ==
  ASSUME LibraryInv, NEW p \in Processes, NEW k \in Keys, TakeJob(p, k)
  PROVE  LibraryInv'
<1> DEFINE row == [IdleProbe EXCEPT !.pc = "measure", !.key = k]
<1>1. /\ Up(p) /\ ProbeAt(p, "idle") /\ job[k] # None /\ job[k].state = "wait"
      /\ job' = [job EXCEPT ![k].state = "active"]
      /\ probe' = [probe EXCEPT ![p] = row]
      /\ UNCHANGED <<origin, file, nextKey, granted, lesson, media, probed, awaited, script>>
  BY DEF TakeJob, ProbeFrame, MediaFrame, accessVars
<1>2. /\ job' \in [Keys -> JobRow \cup {None}]
      /\ job'[k] # None /\ job'[k].state = "active"
      /\ \A x \in Keys : x # k => job'[x] = job[x]
  <2>1. job[k] \in JobRow  BY <1>1 DEF LibraryInv, LibraryTyped
  <2>2. /\ [job[k] EXCEPT !.state = "active"] \in JobRow
        /\ [job[k] EXCEPT !.state = "active"].state = "active"
    BY <2>1 DEF JobRow
  <2>3. job' = [job EXCEPT ![k] = [job[k] EXCEPT !.state = "active"]]
    BY <1>1 DEF LibraryInv, LibraryTyped
  <2> QED  BY <2>2, <2>3, JobRows DEF LibraryInv, LibraryTyped
<1>3. /\ probe' \in [Processes -> ProbeRow] /\ probe'[p].key = k /\ probe'[p].pc = "measure"
      /\ \A q \in Processes : q # p => probe'[q] = probe[q]
  <2>1. row \in ProbeRow /\ row.key = k /\ row.pc = "measure"
    <3>1. k \in 0..MaxKeys  BY DEF Keys
    <3> QED  BY <3>1, IdleRows DEF ProbeRow
  <2> HIDE DEF row
  <2> QED  BY <1>1, <2>1 DEF LibraryInv, LibraryTyped
<1>4. LibraryTyped'
  BY <1>1, <1>2, <1>3 DEF LibraryInv, LibraryTyped
<1>5. \A q \in Processes : probe[q].key # k
  BY <1>1 DEF LibraryInv, OneWorkerEach
<1>6. OneWorkerEach'
  <2>1. \A q, x \in Processes : \A y \in Keys :
          probe'[q].key = y => /\ job'[y] # None /\ job'[y].state = "active"
                               /\ probe'[x].key = y => q = x
    BY <1>2, <1>3, <1>5 DEF LibraryInv, OneWorkerEach
  <2>2. ~ Up("script")' => ProbeAt("script", "idle")'
    BY <1>1, <1>3 DEF LibraryInv, OneWorkerEach, Up, ProbeAt, Processes
  <2> QED  BY <2>1, <2>2 DEF OneWorkerEach
<1>7. ProbeSound(p)'
  BY <1>3, LibraryAssumption DEF ProbeSound, ProbeAt, Keys
<1> QED  BY <1>1, <1>3, <1>4, <1>6, <1>7, NothingWritten, WorkerMoves

\* A worker moves on with its job in hand, and writes nothing but its own row.
LEMMA WorkerGoesOn ==
  ASSUME LibraryInv, NEW p \in Processes, ~ ProbeAt(p, "idle"), NEW row \in ProbeRow,
         row.key = probe[p].key, row.pc # "idle", probe' = [probe EXCEPT ![p] = row],
         row.pc \in {"find", "write"} => UploadedAs(row.version, Probed(row.key)),
         row.pc = "write" => row.lesson \in Lessons /\ lesson[row.lesson] # None,
         UNCHANGED <<origin, file, nextKey, granted, lesson, media, probed, awaited, job,
                     script>>
  PROVE  LibraryInv'
<1>1. /\ probe'[p] = row /\ probe' \in [Processes -> ProbeRow]
      /\ \A q \in Processes : q # p => probe'[q] = probe[q]
  BY DEF LibraryInv, LibraryTyped
<1>2. LibraryTyped'  BY <1>1 DEF LibraryInv, LibraryTyped
<1>3. OneWorkerEach'  BY <1>1, WorkerStays
<1>4. row.key # 0  BY InHand, LibraryAssumption DEF Keys
<1>5. ProbeSound(p)'
  BY <1>1, <1>4 DEF ProbeSound, ProbeAt, UploadedAs, Probed
<1> QED  BY <1>1, <1>2, <1>3, <1>5, NothingWritten, WorkerMoves

LEMMA MeasureKeeps ==
  ASSUME LibraryInv, NEW p \in Processes, Measure(p)
  PROVE  LibraryInv'
<1> DEFINE v == file[Probed(probe[p].key)]
<1>1. ~ ProbeAt(p, "idle")  BY DEF Measure, ProbeAt
<1>2. CASE AttemptFails(p)  BY <1>1, <1>2, AttemptFailsKeeps
<1>3. CASE /\ v # 0 /\ probe' = [probe EXCEPT ![p].pc = "find", ![p].version = v]
           /\ UNCHANGED <<lesson, probed, awaited, job, ProbeFrame>>
  <2> DEFINE row == [probe[p] EXCEPT !.pc = "find", !.version = v]
  <2>1. probe[p] \in ProbeRow /\ Probed(probe[p].key) \in Files
    BY <1>1, InHand DEF LibraryInv, LibraryTyped, Probed, Files
  <2>2. v \in 0..MaxVersions /\ UploadedAs(v, Probed(probe[p].key))
    BY <1>3, <2>1, VersionsFit DEF LibraryInv, LibraryTyped, FilesSound
  <2>3. /\ row \in ProbeRow /\ row.key = probe[p].key /\ row.pc = "find"
        /\ row.version = v
    BY <2>1, <2>2 DEF ProbeRow
  <2>4. probe' = [probe EXCEPT ![p] = row]
    BY <1>3 DEF LibraryInv, LibraryTyped
  <2>5. UNCHANGED <<origin, file, nextKey, granted, lesson, media, probed, awaited, job,
                    script>>
    BY <1>3 DEF ProbeFrame, MediaFrame, accessVars
  <2> HIDE DEF row
  <2> QED  BY <1>1, <2>2, <2>3, <2>4, <2>5, WorkerGoesOn
<1> QED  BY <1>2, <1>3 DEF Measure

LEMMA FindLessonKeeps ==
  ASSUME LibraryInv, NEW p \in Processes, FindLesson(p)
  PROVE  LibraryInv'
<1>1. /\ ProbeAt(p, "find") /\ ~ ProbeAt(p, "idle") /\ probe[p] \in ProbeRow
      /\ UploadedAs(probe[p].version, Probed(probe[p].key))
      /\ UNCHANGED <<origin, file, nextKey, granted, lesson, media, probed, awaited, job,
                     script>>
  BY DEF FindLesson, ProbeAt, ProbeFrame, MediaFrame, accessVars, LibraryInv, LibraryTyped,
         ProbeSound
<1>2. ASSUME NEW l \in LessonsWith(probe[p].key),
             probe' = [probe EXCEPT ![p].pc = "write", ![p].lesson = l]
      PROVE  LibraryInv'
  <2> DEFINE row == [probe[p] EXCEPT !.pc = "write", !.lesson = l]
  <2>1. l \in Lessons /\ lesson[l] # None /\ l \in 0..MaxLessons
    BY <1>2 DEF LessonsWith, LiveLesson, Lessons
  <2>2. /\ row \in ProbeRow /\ row.key = probe[p].key /\ row.pc = "write"
        /\ row.version = probe[p].version /\ row.lesson = l
    BY <1>1, <2>1 DEF ProbeRow
  <2>3. probe' = [probe EXCEPT ![p] = row]
    BY <1>2 DEF LibraryInv, LibraryTyped
  <2> HIDE DEF row
  <2> QED  BY <1>1, <2>1, <2>2, <2>3, WorkerGoesOn
<1>3. CASE Now(p, "done")
  <2> DEFINE row == [probe[p] EXCEPT !.pc = "done"]
  <2>1. row \in ProbeRow /\ row.key = probe[p].key /\ row.pc = "done"
    BY <1>1 DEF ProbeRow
  <2>2. probe' = [probe EXCEPT ![p] = row]
    BY <1>3 DEF Now, LibraryInv, LibraryTyped
  <2> HIDE DEF row
  <2> QED  BY <1>1, <2>1, <2>2, WorkerGoesOn
<1> QED  BY <1>2, <1>3 DEF FindLesson

\* What writing a duration does to the tables.
LEMMA Wrote ==
  ASSUME LibraryInv, NEW p \in Processes, ProbeAt(p, "write"), Now(p, "done"),
         lesson' = [lesson EXCEPT ![probe[p].lesson].duration = probe[p].version],
         probed' = probed \cup {probe[p].lesson}
  PROVE  /\ probe[p].lesson \in Lessons
         /\ lesson' \in [Lessons -> LessonRow \cup {None}]
         /\ probed' \subseteq Lessons
         /\ \A x \in Lessons : x # probe[p].lesson => lesson'[x] = lesson[x]
         /\ lesson[probe[p].lesson] # None /\ lesson'[probe[p].lesson] # None
         /\ lesson'[probe[p].lesson].duration = probe[p].version
         /\ lesson'[probe[p].lesson].key = lesson[probe[p].lesson].key
         /\ lesson'[probe[p].lesson].live = lesson[probe[p].lesson].live
         /\ probe'[p].key = probe[p].key /\ probe'[p].pc = "done"
         /\ probe' \in [Processes -> ProbeRow]
         /\ \A q \in Processes : q # p => probe'[q] = probe[q]
<1> DEFINE l == probe[p].lesson
<1> DEFINE row == [lesson[l] EXCEPT !.duration = probe[p].version]
<1>1. /\ l \in Lessons /\ lesson[l] # None /\ lesson[l] \in LessonRow
      /\ probe[p].version \in Versions /\ probe[p].version \in 0..MaxVersions
      /\ probe[p] \in ProbeRow
  BY VersionsFit DEF LibraryInv, LibraryTyped, ProbeSound, UploadedAs
<1>2. /\ row \in LessonRow /\ row.duration = probe[p].version /\ row.key = lesson[l].key
      /\ row.live = lesson[l].live
  BY <1>1 DEF LessonRow, Durations
<1>3. lesson' = [lesson EXCEPT ![l] = row]
  BY <1>1 DEF LibraryInv, LibraryTyped
<1>4. /\ [probe[p] EXCEPT !.pc = "done"] \in ProbeRow
      /\ probe' = [probe EXCEPT ![p] = [probe[p] EXCEPT !.pc = "done"]]
  BY <1>1 DEF ProbeRow, Now, LibraryInv, LibraryTyped
<1>5. /\ probe' \in [Processes -> ProbeRow]
      /\ \A q \in Processes : q # p => probe'[q] = probe[q]
      /\ probe'[p].key = probe[p].key /\ probe'[p].pc = "done"
  BY <1>1, <1>4 DEF LibraryInv, LibraryTyped, ProbeRow
<1> HIDE DEF row
<1> QED  BY <1>1, <1>2, <1>3, <1>5, LessonRows DEF LibraryInv, LibraryTyped

LEMMA WriteDurationKeeps ==
  ASSUME LibraryInv, NEW p \in Processes, WriteDuration(p)
  PROVE  LibraryInv'
<1> DEFINE l == probe[p].lesson
<1>1. ProbeAt(p, "write") /\ ~ ProbeAt(p, "idle")  BY DEF WriteDuration, ProbeAt
<1>2. CASE AttemptFails(p)  BY <1>1, <1>2, AttemptFailsKeeps
<1>3. CASE /\ Now(p, "done")
           /\ lesson' = [lesson EXCEPT ![l].duration = probe[p].version]
           /\ probed' = probed \cup {l}
           /\ awaited' \subseteq awaited
           /\ UNCHANGED <<job, ProbeFrame>>
  <2>1. UNCHANGED <<origin, file, nextKey, granted, media, job, script>>
    BY <1>3 DEF ProbeFrame, MediaFrame, accessVars
  <2>2. LibraryTyped'
    BY <1>1, <1>3, <2>1, Wrote DEF LibraryInv, LibraryTyped
  <2>3. Grows
    <3>1. \A x \in Lessons : lesson[x] # None => lesson'[x] # None
      BY <1>1, <1>3, Wrote
    <3>2. Len(origin) \in Nat /\ origin' = origin  BY <2>1, LengthIsNat DEF LibraryInv
    <3> QED  BY <1>3, <3>1, <3>2 DEF Grows
  <2>4. OneWorkerEach'
    BY <1>1, <1>3, <2>1, Wrote, WorkerStays
  <2>5. ProbedMeasured'
    <3> SUFFICES ASSUME NEW x \in probed'
                 PROVE  /\ lesson'[x] # None
                        /\ \E k \in Keys : UploadedAs(lesson'[x].duration, Probed(k))
      BY <2>1 DEF ProbedMeasured, UploadedAs, Probed
    <3>1. CASE x = l
      <4>1. probe[p].key \in Keys /\ UploadedAs(probe[p].version, Probed(probe[p].key))
        BY <1>1, InHand DEF LibraryInv, ProbeSound
      <4>2. lesson'[l] # None /\ lesson'[l].duration = probe[p].version
        BY <1>1, <1>3, Wrote
      <4> QED  BY <3>1, <4>1, <4>2
    <3>2. CASE x # l
      <4>1. x \in probed /\ x \in Lessons
        BY <1>3, <3>2 DEF LibraryInv, LibraryTyped
      <4>2. lesson'[x] = lesson[x]  BY <1>1, <1>3, <3>2, <4>1, Wrote
      <4> QED  BY <4>1, <4>2 DEF LibraryInv, ProbedMeasured
    <3> QED  BY <3>1, <3>2
  <2>6. ProbeSound(p)'
    <3>1. probe'[p].key = probe[p].key /\ probe'[p].pc = "done"
      BY <1>1, <1>3, Wrote
    <3>2. probe[p].key \in Keys  BY <1>1, InHand
    <3> QED  BY <3>1, <3>2, LibraryAssumption DEF Keys, ProbeSound, ProbeAt
  <2> QED  BY <1>1, <1>3, <2>1, <2>2, <2>3, <2>4, <2>5, <2>6, Wrote, WorkerMoves
<1> QED  BY <1>2, <1>3 DEF WriteDuration

LEMMA StalledKeeps ==
  ASSUME LibraryInv, NEW k \in Keys, Stalled(k)
  PROVE  LibraryInv'
<1>1. /\ job[k] # None /\ \A p \in Processes : probe[p].key # k
      /\ \/ job' = [job EXCEPT ![k].state = "wait", ![k].stalled = TRUE]
         \/ job' = [job EXCEPT ![k] = None]
      /\ awaited' \subseteq awaited
      /\ UNCHANGED <<origin, file, nextKey, granted, lesson, media, probe, probed, script>>
  BY DEF Stalled, Abandoned, ProbeFrame, MediaFrame, accessVars
<1>2. /\ job' \in [Keys -> JobRow \cup {None}]
      /\ \A x \in Keys : x # k => job'[x] = job[x]
  <2>1. job[k] \in JobRow  BY <1>1 DEF LibraryInv, LibraryTyped
  <2>2. [job[k] EXCEPT !.state = "wait", !.stalled = TRUE] \in JobRow
    BY <2>1 DEF JobRow
  <2>3. CASE job' = [job EXCEPT ![k].state = "wait", ![k].stalled = TRUE]
    <3>1. job' = [job EXCEPT ![k] = [job[k] EXCEPT !.state = "wait", !.stalled = TRUE]]
      BY <2>3 DEF LibraryInv, LibraryTyped
    <3> QED  BY <2>2, <3>1 DEF LibraryInv, LibraryTyped
  <2>4. CASE job' = [job EXCEPT ![k] = None]  BY <2>4 DEF LibraryInv, LibraryTyped
  <2> QED  BY <1>1, <2>3, <2>4
<1>3. LibraryTyped'  BY <1>1, <1>2 DEF LibraryInv, LibraryTyped
<1>4. OneWorkerEach'
  <2>1. \A p \in Processes, x \in Keys : probe'[p].key = x => job'[x] = job[x]
    BY <1>1, <1>2
  <2>2. ~ Up("script")' => ProbeAt("script", "idle")'
    BY <1>1 DEF LibraryInv, OneWorkerEach, Up, ProbeAt
  <2> QED  BY <1>1, <2>1, <2>2, WorkersStay, LibraryAssumption DEF LibraryInv
<1>5. Grows /\ ProbedMeasured'  BY <1>1, NothingWritten
<1>6. \A x \in Slots : MediaSound(x)'  BY <1>1, <1>3, <1>5, MediaStays DEF LibraryInv
<1>7. \A p \in Processes : ProbeSound(p)'  BY <1>1, <1>3, <1>5, ProbeStays DEF LibraryInv
<1>8. FilesSound'  BY <1>1 DEF LibraryInv, FilesSound, UploadedAs
<1> QED  BY <1>3, <1>4, <1>5, <1>6, <1>7, <1>8 DEF LibraryInv

\* A worker dies with its process, or stands; requests may die with theirs.
LEMMA WorkerDies ==
  ASSUME LibraryInv, NEW p \in Processes,
         probe' = probe \/ probe' = [probe EXCEPT ![p] = IdleProbe],
         ~ Up("script")' => ProbeAt("script", "idle")',
         media' \in [Slots -> MediaRow],
         \A x \in Slots : media'[x] = media[x] \/ media'[x] = IdleMedia,
         UNCHANGED <<origin, file, nextKey, granted, lesson, job, probed, awaited>>
  PROVE  LibraryInv'
<1>1. /\ probe' \in [Processes -> ProbeRow]
      /\ \A q \in Processes : probe'[q] = probe[q] \/ probe'[q] = IdleProbe
  BY IdleRows DEF LibraryInv, LibraryTyped
<1>2. LibraryTyped'  BY <1>1 DEF LibraryInv, LibraryTyped
<1>3. Grows /\ ProbedMeasured'  BY NothingWritten
<1>4. OneWorkerEach'
  <2>1. \A q \in Processes : probe'[q].key \in {0, probe[q].key}
    BY <1>1, IdleRows
  <2> QED  BY <2>1, WorkersStay, LibraryAssumption DEF LibraryInv
<1>5. ASSUME NEW x \in Slots  PROVE MediaSound(x)'
  <2>1. CASE media'[x] = media[x]  BY <1>2, <1>3, <2>1, MediaStays DEF LibraryInv
  <2>2. CASE media'[x] = IdleMedia  BY <2>2, IdleRows DEF MediaSound
  <2> QED  BY <2>1, <2>2
<1>6. ASSUME NEW q \in Processes  PROVE ProbeSound(q)'
  <2>1. CASE probe'[q] = probe[q]  BY <1>2, <1>3, <2>1, ProbeStays DEF LibraryInv
  <2>2. CASE probe'[q] = IdleProbe  BY <2>2, IdleRows DEF ProbeSound, ProbeAt
  <2> QED  BY <1>1, <2>1, <2>2
<1>7. FilesSound'  BY DEF LibraryInv, FilesSound, UploadedAs
<1> QED  BY <1>2, <1>3, <1>4, <1>5, <1>6, <1>7 DEF LibraryInv

LEMMA RestartKeeps ==
  ASSUME LibraryInv, Restart
  PROVE  LibraryInv'
<1>1. /\ probe' = [probe EXCEPT !["app"] = IdleProbe]
      /\ media' = [s \in Slots |-> IdleMedia]
      /\ UNCHANGED <<origin, file, nextKey, granted, lesson, job, probed, awaited, script>>
  BY DEF Restart
<1>2. /\ media' \in [Slots -> MediaRow]
      /\ \A x \in Slots : media'[x] = media[x] \/ media'[x] = IdleMedia
  BY <1>1, IdleRows DEF LibraryInv, LibraryTyped
<1>3. ~ Up("script")' => ProbeAt("script", "idle")'
  <2>1. probe'["script"] = probe["script"]
    BY <1>1 DEF LibraryInv, LibraryTyped, Processes
  <2> QED  BY <1>1, <2>1 DEF LibraryInv, OneWorkerEach, Up, ProbeAt
<1>4. "app" \in Processes  BY DEF Processes
<1> QED  BY <1>1, <1>2, <1>3, <1>4, WorkerDies

\* Access moves, and with it the life of the script's worker.
LEMMA ReleasedKeeps ==
  ASSUME LibraryInv, Released,
         UNCHANGED <<origin, file, nextKey, granted, lesson, media, job, probed, awaited>>
  PROVE  LibraryInv'
<1>1. "script" \in Processes  BY DEF Processes
<1>2. probe' = probe \/ probe' = [probe EXCEPT !["script"] = IdleProbe]
  BY DEF Released
<1>3. ~ Up("script")' => ProbeAt("script", "idle")'
  <2> SUFFICES ASSUME script'.pc = "off"  PROVE probe'["script"].pc = "idle"
    BY DEF Up, ProbeAt
  <2>1. probe'["script"] = IdleProbe
    BY <1>1 DEF Released, LibraryInv, LibraryTyped
  <2> QED  BY <2>1, IdleRows
<1>4. /\ media' \in [Slots -> MediaRow]
      /\ \A x \in Slots : media'[x] = media[x] \/ media'[x] = IdleMedia
  BY DEF LibraryInv, LibraryTyped
<1> QED  BY <1>1, <1>2, <1>3, <1>4, WorkerDies

-----------------------------------------------------------------------------
(* The invariant *)

LEMMA LibraryInitially ==
  ASSUME Init
  PROVE  LibraryInv
<1> DEFINE video == [key |-> 1, duration |-> 0, live |-> TRUE]
<1>1. <<1, "mp4">> \in Files /\ video \in LessonRow
  BY LibraryAssumption DEF Files, Keys, LessonRow, Durations
<1>2. origin = << <<1, "mp4">> >> /\ origin \in Seq(Files) /\ Len(origin) = 1
  BY <1>1 DEF Init, LibraryInit
<1>3. file \in [Files -> 0..Len(origin)] /\ \A f \in Files : file[f] # 0 => UploadedAs(file[f], f)
  BY <1>1, <1>2 DEF Init, LibraryInit, UploadedAs
<1>4. lesson \in [Lessons -> LessonRow \cup {None}]
  BY <1>1 DEF Init, LibraryInit
<1>5. /\ media \in [Slots -> MediaRow] /\ \A s \in Slots : media[s].pc = "idle"
      /\ probe \in [Processes -> ProbeRow]
      /\ \A p \in Processes : probe[p].pc = "idle" /\ probe[p].key = 0
  BY IdleRows DEF Init, LibraryInit
<1>6. LibraryTyped
  BY <1>1, <1>2, <1>3, <1>4, <1>5, LibraryAssumption DEF Init, LibraryInit, LibraryTyped, Keys
<1>7. OneWorkerEach
  BY <1>5, LibraryAssumption DEF OneWorkerEach, ProbeAt, Keys, Processes
<1>8. ProbedMeasured /\ FilesSound
  BY <1>3 DEF Init, LibraryInit, ProbedMeasured, FilesSound
<1>9. /\ \A s \in Slots : MediaSound(s)
      /\ \A p \in Processes : ProbeSound(p)
  BY <1>5 DEF MediaSound, ProbeSound, ProbeAt
<1> QED  BY <1>6, <1>7, <1>8, <1>9 DEF LibraryInv

LEMMA WorkKeeps ==
  ASSUME LibraryInv, NEW p \in Processes, Work(p)
  PROVE  LibraryInv'
  BY TakeJobKeeps, MeasureKeeps, FindLessonKeeps, WriteDurationKeeps, CompleteKeeps DEF Work

LEMMA ContinueLibraryKeeps ==
  ASSUME LibraryInv, NEW s \in Slots, ContinueLibrary(s)
  PROVE  LibraryInv'
  BY AcceptKeeps, RejectKeeps DEF ContinueLibrary

LEMMA StartLibraryKeeps ==
  ASSUME LibraryInv, StartLibrary
  PROVE  LibraryInv'
<1>1. ASSUME NEW p \in Processes, Break(p)  PROVE LibraryInv'
  BY <1>1, AttemptFailsKeeps DEF Break
<1> QED
  BY <1>1, ReceiveKeeps, InitUploadKeeps, PutKeeps, UploadSuccessKeeps, DeleteLessonKeeps,
     CreateLessonKeeps, UpdateLessonKeeps, StalledKeeps, RestartKeeps DEF StartLibrary

LEMMA LibraryStutters ==
  ASSUME LibraryInv, UNCHANGED vars
  PROVE  LibraryInv'
<1>1. UNCHANGED <<origin, file, nextKey, granted, lesson, media, job, probed, awaited,
                  probe, script>>
  BY DEF vars, libraryVars, accessVars
<1>2. LibraryTyped'  BY <1>1 DEF LibraryInv, LibraryTyped
<1> QED  BY <1>1, <1>2, TablesStay

\* In every state, after every step of either component.
LEMMA LibrarySteps ==
  ASSUME LibraryInv, [Next]_vars
  PROVE  LibraryInv'
<1>1. ASSUME \/ OnAccess(StartAccess) \/ OnAccess(ContinueScript) \/ OnAccess(KillScript)
             \/ \E s \in Slots : OnAccess(ContinueAccess(s))
      PROVE  LibraryInv'
  BY <1>1, ReleasedKeeps DEF OnAccess
<1> QED
  BY <1>1, ContinueLibraryKeeps, StartLibraryKeeps, WorkKeeps, LibraryStutters
  DEF Next, Quiescent

\* What requests and workers carry is sound at every moment: files hold versions uploaded
\* under their names, and what a worker is about to write, or has written and nobody has
\* entered over, was measured on a file of a name that workers probe.
THEOREM LibraryAlways == Spec => []LibraryInv
<1>1. Init => LibraryInv  BY LibraryInitially
<1>2. LibraryInv /\ [Next]_vars => LibraryInv'  BY LibrarySteps
<1> QED  BY <1>1, <1>2, PTL DEF Spec

\* Rows keep their shape and refer to rows that are there; no job is run by two workers,
\* and none by the worker of a process that has ended.
THEOREM TypeCorrect == Spec => []TypeOK
<1>1. AccessInv /\ LibraryInv => TypeOK
  BY DEF AccessInv, LibraryInv, TypeOK
<1> QED  BY <1>1, AccessAlways, LibraryAlways, PTL

-----------------------------------------------------------------------------
(* Durations that are due *)

Shown(k) == \A l \in LessonsWith(k) : lesson[l].duration = file[Probed(k)]

\* A duration that is due lasts whole seconds and has one lesson to go to; it is there, or
\* a job is, and then whoever runs the job has the right version and that lesson.
Due(k) ==
  /\ file[Probed(k)] \in Whole
  /\ \E l \in Lessons : LessonsWith(k) = {l}
  /\ job[k] = None => Shown(k)
  /\ \A p \in Processes : probe[p].key = k =>
       /\ ProbeAt(p, "find") \/ ProbeAt(p, "write") => probe[p].version = file[Probed(k)]
       /\ ProbeAt(p, "write") => probe[p].lesson \in LessonsWith(k)
       /\ ProbeAt(p, "done") => Shown(k)

AwaitedInv == \A k \in awaited : Due(k)

LEMMA DueStays ==
  ASSUME NEW k \in Keys, Due(k), file'[Probed(k)] = file[Probed(k)],
         LessonsWith(k)' = LessonsWith(k),
         \A l \in LessonsWith(k) : lesson'[l].duration = lesson[l].duration,
         job'[k] = job[k] \/ job'[k] # None,
         \A p \in Processes : probe'[p] = probe[p] \/ probe'[p].key # k
  PROVE  Due(k)'
<1>1. Shown(k) => Shown(k)'  BY DEF Shown, Probed
<1>2. file'[Probed(k)] \in Whole  BY DEF Due
<1>3. \A p \in Processes : probe'[p].key = k => probe'[p] = probe[p]  OBVIOUS
<1>4. \A p \in Processes : probe'[p].key = k =>
        /\ ProbeAt(p, "find")' \/ ProbeAt(p, "write")' => probe'[p].version = file'[Probed(k)]
        /\ ProbeAt(p, "write")' => probe'[p].lesson \in LessonsWith(k)
        /\ ProbeAt(p, "done")' => Shown(k)'
  BY <1>1, <1>3 DEF Due, ProbeAt
<1>5. job'[k] = None => Shown(k)'  BY <1>1 DEF Due
<1>6. \E l \in Lessons : LessonsWith(k)' = {l}  BY DEF Due
<1> QED  BY <1>2, <1>4, <1>5, <1>6 DEF Due, Probed

LEMMA LessonsStand ==
  ASSUME NEW k, UNCHANGED lesson
  PROVE  LessonsWith(k)' = LessonsWith(k)
  BY DEF LessonsWith, LiveLesson

\* A lesson that had another key, or was not there, and has not got this one.
LEMMA LessonApart ==
  ASSUME NEW k, NEW l \in Lessons, \A x \in Lessons : x # l => lesson'[x] = lesson[x],
         lesson[l] # None => lesson[l].key # k \/ ~ lesson[l].live,
         lesson'[l] # None => lesson'[l].key # k \/ ~ lesson'[l].live
  PROVE  /\ LessonsWith(k)' = LessonsWith(k)
         /\ \A x \in LessonsWith(k) : lesson'[x] = lesson[x]
<1>1. \A x \in Lessons : x # l => (LiveLesson(x)' <=> LiveLesson(x))
  BY DEF LiveLesson
<1>2. l \notin LessonsWith(k)  BY DEF LessonsWith, LiveLesson
<1>3. ~ (LiveLesson(l)' /\ lesson'[l].key = k)  BY DEF LiveLesson
<1>4. \A x \in Lessons : x # l => (x \in LessonsWith(k)' <=> x \in LessonsWith(k))
  BY <1>1 DEF LessonsWith
<1>5. l \notin LessonsWith(k)'  BY <1>3 DEF LessonsWith
<1>6. LessonsWith(k) \subseteq Lessons /\ LessonsWith(k)' \subseteq Lessons
  BY DEF LessonsWith
<1> QED  BY <1>2, <1>4, <1>5, <1>6

LEMMA OtherFiles ==
  ASSUME LibraryTyped, NEW f \in Files, NEW v, file' = [file EXCEPT ![f] = v],
         NEW k \in Keys, k # f[1]
  PROVE  file'[Probed(k)] = file[Probed(k)]
<1>1. Probed(k) \in Files /\ Probed(k)[1] = k  BY DEF Probed, Files
<1> QED  BY <1>1 DEF LibraryTyped

LEMMA AwaitedKeys ==
  ASSUME LibraryInv
  PROVE  awaited \subseteq Keys
  BY DEF LibraryInv, LibraryTyped

\* Files change, and what was due under their name is not any more.
LEMMA FilesAwaited ==
  ASSUME LibraryInv, AwaitedInv, NEW f \in Files, NEW v,
         file' = [file EXCEPT ![f] = v] \/ file' = OnDisk(f, v),
         awaited' = awaited \ {f[1]}, UNCHANGED <<lesson, probe>>,
         \A k \in Keys : job'[k] = job[k] \/ job'[k] # None
  PROVE  AwaitedInv'
<1> SUFFICES ASSUME NEW k \in awaited \ {f[1]}  PROVE Due(k)'
  BY DEF AwaitedInv
<1>1. k \in Keys /\ k # f[1] /\ Due(k)  BY AwaitedKeys DEF AwaitedInv
<1>2. file'[Probed(k)] = file[Probed(k)]  BY <1>1, OtherFiles DEF LibraryInv, OnDisk
<1>3. LessonsWith(k)' = LessonsWith(k)  BY LessonsStand
<1> QED  BY <1>1, <1>2, <1>3, DueStays

\* Neither files nor lessons change, workers at most die, jobs stay; of the keys that were
\* due and still are.
LEMMA TablesAwaited ==
  ASSUME LibraryInv, AwaitedInv, UNCHANGED <<file, lesson>>, awaited' \subseteq awaited,
         \A k \in awaited' : job'[k] = job[k] \/ job'[k] # None,
         \A p \in Processes : probe'[p] = probe[p] \/ probe'[p] = IdleProbe
  PROVE  AwaitedInv'
<1> SUFFICES ASSUME NEW k \in awaited'  PROVE Due(k)'
  BY DEF AwaitedInv
<1>1. k \in Keys /\ Due(k)  BY AwaitedKeys DEF AwaitedInv
<1>2. \A p \in Processes : probe'[p] = probe[p] \/ probe'[p].key # k
  BY <1>1, IdleRows, LibraryAssumption DEF Keys
<1>3. LessonsWith(k)' = LessonsWith(k)  BY LessonsStand
<1> QED  BY <1>1, <1>2, <1>3, DueStays

\* One lesson changes, and what was due under its keys is not any more.
LEMMA LessonAwaited ==
  ASSUME LibraryInv, AwaitedInv, NEW l \in Lessons, UNCHANGED <<file, job, probe>>,
         \A x \in Lessons : x # l => lesson'[x] = lesson[x],
         awaited' \subseteq awaited,
         lesson[l] # None /\ lesson[l].live => lesson[l].key \notin awaited',
         lesson'[l] # None /\ lesson'[l].live => lesson'[l].key \notin awaited'
  PROVE  AwaitedInv'
<1> SUFFICES ASSUME NEW k \in awaited'  PROVE Due(k)'
  BY DEF AwaitedInv
<1>1. k \in Keys /\ Due(k)  BY AwaitedKeys DEF AwaitedInv
<1>2. /\ LessonsWith(k)' = LessonsWith(k)
      /\ \A x \in LessonsWith(k) : lesson'[x] = lesson[x]
  BY LessonApart
<1> QED  BY <1>1, <1>2, DueStays

LEMMA UploadsAwaited ==
  ASSUME LibraryInv, AwaitedInv, NEW s \in Slots, NEW f \in Files,
         Receive(s, f) \/ Put(f) \/ (media[s].file = f /\ (Accept(s) \/ Reject(s)))
  PROVE  AwaitedInv'
<1>1. ASSUME Receive(s, f)  PROVE AwaitedInv'
  BY <1>1, FilesAwaited DEF Receive
<1>2. ASSUME Put(f)  PROVE AwaitedInv'
  BY <1>2, FilesAwaited DEF Put
<1>3. ASSUME media[s].file = f, Reject(s)  PROVE AwaitedInv'
  BY <1>3, FilesAwaited DEF Reject
<1>4. ASSUME media[s].file = f, Accept(s)  PROVE AwaitedInv'
  <2>1. \A k \in Keys : job'[k] = job[k] \/ job'[k] # None
    BY <1>4, KeysOfFiles, AddedJob DEF Accept, LibraryInv
  <2> QED  BY <1>4, <2>1, FilesAwaited DEF Accept
<1> QED  BY <1>1, <1>2, <1>3, <1>4

LEMMA FiniteLessons == \A k : IsFiniteSet(LessonsWith(k))
<1>1. IsFiniteSet(Lessons)  BY LibraryAssumption, FS_Interval DEF Lessons
<1> QED  BY <1>1, FS_Subset DEF LessonsWith

\* A duration becomes due with a job that nobody has taken.
LEMMA UploadSuccessAwaited ==
  ASSUME LibraryInv, AwaitedInv, NEW k \in Keys, UploadSuccess(k)
  PROVE  AwaitedInv'
<1>1. UNCHANGED <<file, lesson, probe>>  BY DEF UploadSuccess
<1>2. CASE UNCHANGED <<job, awaited>>
  BY <1>1, <1>2, TablesAwaited
<1>3. CASE /\ job' = Added(k, 3)
           /\ awaited' = IF /\ job[k] = None /\ file[<<k, "mp4">>] \in Whole
                            /\ Cardinality(LessonsWith(k)) = 1
                         THEN awaited \cup {k} ELSE awaited
  <2>1. \A x \in Keys : job'[x] = job[x] \/ job'[x] # None
    BY <1>3, AddedJob DEF LibraryInv
  <2>2. CASE awaited' = awaited
    BY <1>1, <2>1, <2>2, AwaitedKeys, TablesAwaited
  <2>3. CASE /\ awaited' = awaited \cup {k} /\ job[k] = None
             /\ file[<<k, "mp4">>] \in Whole /\ Cardinality(LessonsWith(k)) = 1
    <3>1. \E l \in Lessons : LessonsWith(k) = {l}
      <4>1. \E l : LessonsWith(k) = {l}  BY <2>3, FiniteLessons, FS_Singleton
      <4> QED  BY <4>1 DEF LessonsWith
    <3>2. \A p \in Processes : probe'[p].key # k
      BY <1>1, <2>3 DEF LibraryInv, OneWorkerEach
    <3>3. job'[k] # None  BY <1>3, AddedJob DEF LibraryInv
    <3>4. Due(k)'
      <4>1. file'[Probed(k)] \in Whole  BY <1>1, <2>3 DEF Probed
      <4>2. \E l \in Lessons : LessonsWith(k)' = {l}  BY <1>1, <3>1, LessonsStand
      <4> QED  BY <3>2, <3>3, <4>1, <4>2 DEF Due, Probed
    <3>5. ASSUME NEW x \in awaited, x # k  PROVE Due(x)'
      <4>1. x \in Keys /\ Due(x)  BY AwaitedKeys DEF AwaitedInv
      <4>2. LessonsWith(x)' = LessonsWith(x)  BY <1>1, LessonsStand
      <4> QED  BY <1>1, <2>1, <4>1, <4>2, DueStays
    <3> QED  BY <2>3, <3>4, <3>5 DEF AwaitedInv
  <2> QED  BY <1>3, <2>2, <2>3
<1> QED  BY <1>2, <1>3 DEF UploadSuccess

LEMMA LessonsAwaited ==
  ASSUME LibraryInv, AwaitedInv, NEW l \in Lessons, NEW k \in Keys, NEW d,
         CreateLesson(l, k, d) \/ UpdateLesson(l, k, d) \/ DeleteLesson(l)
  PROVE  AwaitedInv'
<1>1. ASSUME CreateLesson(l, k, d)  PROVE AwaitedInv'
  <2>1. /\ lesson[l] = None /\ awaited' = awaited \ {k} /\ UNCHANGED <<file, job, probe>>
        /\ lesson' = [lesson EXCEPT ![l] = [key |-> k, duration |-> d, live |-> TRUE]]
    BY <1>1 DEF CreateLesson
  <2>2. /\ \A x \in Lessons : x # l => lesson'[x] = lesson[x]
        /\ lesson'[l].key = k
    BY <2>1 DEF LibraryInv, LibraryTyped
  <2> QED  BY <2>1, <2>2, LessonAwaited
<1>2. ASSUME UpdateLesson(l, k, d)  PROVE AwaitedInv'
  <2>1. /\ lesson[l] # None /\ awaited' = awaited \ {k, lesson[l].key}
        /\ UNCHANGED <<file, job, probe>>
        /\ lesson' = [lesson EXCEPT ![l].key = k, ![l].duration = d]
    BY <1>2 DEF UpdateLesson, LiveLesson
  <2>2. /\ \A x \in Lessons : x # l => lesson'[x] = lesson[x]
        /\ lesson'[l].key = k
    BY <2>1 DEF LibraryInv, LibraryTyped, LessonRow
  <2>3. /\ awaited' \subseteq awaited
        /\ lesson[l].key \notin awaited' /\ lesson'[l].key \notin awaited'
    BY <2>1, <2>2
  <2> QED  BY <2>1, <2>2, <2>3, LessonAwaited
<1>3. ASSUME DeleteLesson(l)  PROVE AwaitedInv'
  <2>1. /\ lesson[l] # None /\ awaited' = awaited \ {lesson[l].key}
        /\ UNCHANGED <<file, job, probe>>
        /\ lesson' = [lesson EXCEPT ![l].live = FALSE]
    BY <1>3 DEF DeleteLesson, LiveLesson
  <2>2. /\ \A x \in Lessons : x # l => lesson'[x] = lesson[x]
        /\ lesson'[l].key = lesson[l].key
    BY <2>1 DEF LibraryInv, LibraryTyped, LessonRow
  <2> QED  BY <2>1, <2>2, LessonAwaited
<1> QED  BY <1>1, <1>2, <1>3

LEMMA AttemptFailsAwaited ==
  ASSUME LibraryInv, AwaitedInv, NEW p \in Processes, ~ ProbeAt(p, "idle"), AttemptFails(p)
  PROVE  AwaitedInv'
<1> DEFINE k == probe[p].key
<1>1. /\ job' = Failed(k) /\ probe' = [probe EXCEPT ![p] = IdleProbe]
      /\ awaited' = IF job[k].tries = 1 THEN awaited \ {k} ELSE awaited
      /\ UNCHANGED <<file, lesson>>
  BY DEF AttemptFails, ProbeFrame
<1>2. /\ job[k].tries # 1 => job'[k] # None
      /\ \A x \in Keys : x # k => job'[x] = job[x]
  BY <1>1, InHand, FailedJob DEF LibraryInv
<1>3. \A x \in awaited' : job'[x] = job[x] \/ job'[x] # None
  BY <1>1, <1>2, AwaitedKeys
<1>4. \A q \in Processes : probe'[q] = probe[q] \/ probe'[q] = IdleProbe
  BY <1>1 DEF LibraryInv, LibraryTyped
<1> QED  BY <1>1, <1>3, <1>4, TablesAwaited

\* A worker moves on: of its own key, if that is due, the rest has to be shown.
LEMMA WorkerAwaited ==
  ASSUME LibraryInv, AwaitedInv, NEW p \in Processes, UNCHANGED <<file, lesson, awaited>>,
         \A q \in Processes : q # p => probe'[q] = probe[q],
         \A k \in Keys : k # probe'[p].key /\ k # probe[p].key => job'[k] = job[k],
         \A k \in awaited : k = probe'[p].key \/ k = probe[p].key => Due(k)'
  PROVE  AwaitedInv'
<1> SUFFICES ASSUME NEW k \in awaited  PROVE Due(k)'
  BY DEF AwaitedInv
<1>1. k \in Keys /\ Due(k)  BY AwaitedKeys DEF AwaitedInv
<1>2. CASE k # probe'[p].key /\ k # probe[p].key
  <2>1. LessonsWith(k)' = LessonsWith(k)  BY LessonsStand
  <2> QED  BY <1>1, <1>2, <2>1, DueStays
<1> QED  BY <1>2

LEMMA TakeJobAwaited ==
  ASSUME LibraryInv, AwaitedInv, NEW p \in Processes, NEW k \in Keys, TakeJob(p, k)
  PROVE  AwaitedInv'
<1> DEFINE row == [IdleProbe EXCEPT !.pc = "measure", !.key = k]
<1>1. /\ ProbeAt(p, "idle") /\ job[k] # None /\ UNCHANGED <<file, lesson, awaited>>
      /\ job' = [job EXCEPT ![k].state = "active"] /\ probe' = [probe EXCEPT ![p] = row]
  BY DEF TakeJob, ProbeFrame
<1>2. /\ probe'[p].pc = "measure" /\ probe'[p].key = k
      /\ \A q \in Processes : q # p => probe'[q] = probe[q]
  <2>1. row.key = k /\ row.pc = "measure"  BY IdleRows DEF ProbeRow
  <2> HIDE DEF row
  <2> QED  BY <1>1, <2>1 DEF LibraryInv, LibraryTyped
<1>3. probe[p].key = 0 /\ \A q \in Processes : q # p => probe'[q].key # k
  <2>1. \A q \in Processes : probe[q].key = k => job[k].state = "active"
    BY DEF LibraryInv, OneWorkerEach
  <2>2. job[k].state = "wait"  BY DEF TakeJob
  <2> QED  BY <1>1, <1>2, <2>1, <2>2 DEF LibraryInv, ProbeSound
<1>4. job'[k] # None /\ \A x \in Keys : x # k => job'[x] = job[x]
  <2>1. job[k] \in JobRow /\ job'[k] = [job[k] EXCEPT !.state = "active"]
    BY <1>1 DEF LibraryInv, LibraryTyped
  <2>2. job'[k] \in JobRow  BY <2>1 DEF JobRow
  <2> QED  BY <1>1, <2>2, JobRows DEF LibraryInv, LibraryTyped
<1>5. ASSUME k \in awaited  PROVE Due(k)'
  <2>1. Due(k)  BY <1>5 DEF AwaitedInv
  <2>2. LessonsWith(k)' = LessonsWith(k)  BY <1>1, LessonsStand
  <2>3. file'[Probed(k)] \in Whole /\ \E l \in Lessons : LessonsWith(k)' = {l}
    BY <1>1, <2>1, <2>2 DEF Due, Probed
  <2>4. \A q \in Processes : probe'[q].key = k => probe'[q].pc = "measure"
    BY <1>2, <1>3
  <2> QED  BY <1>4, <2>3, <2>4 DEF Due, ProbeAt, Probed
<1>6. \A x \in awaited : x # 0  BY AwaitedKeys, LibraryAssumption DEF Keys
<1> QED  BY <1>1, <1>2, <1>3, <1>4, <1>5, <1>6, WorkerAwaited

\* A worker that stays at its job; what it brings to a due key is said of the new row.
LEMMA GoingOnAwaited ==
  ASSUME LibraryInv, AwaitedInv, NEW p \in Processes, ~ ProbeAt(p, "idle"),
         NEW row \in ProbeRow, row.key = probe[p].key, probe' = [probe EXCEPT ![p] = row],
         UNCHANGED <<file, lesson, awaited, job>>,
         row.pc # "done",
         row.key \in awaited =>
           /\ row.pc \in {"find", "write"} => row.version = file[Probed(row.key)]
           /\ row.pc = "write" => row.lesson \in LessonsWith(row.key)
  PROVE  AwaitedInv'
<1> DEFINE k == row.key
<1>1. probe'[p] = row /\ \A q \in Processes : q # p => probe'[q] = probe[q]
  BY DEF LibraryInv, LibraryTyped
<1>2. \A q \in Processes : probe'[q].key = k => q = p
  BY <1>1, InHand
<1>3. ASSUME k \in awaited  PROVE Due(k)'
  <2>1. Due(k)  BY <1>3 DEF AwaitedInv
  <2>2. LessonsWith(k)' = LessonsWith(k)  BY LessonsStand
  <2>3. file'[Probed(k)] \in Whole /\ \E l \in Lessons : LessonsWith(k)' = {l}
    BY <2>1, <2>2 DEF Due, Probed
  <2>4. job'[k] # None  BY InHand
  <2>5. \A q \in Processes : probe'[q].key = k =>
          /\ ProbeAt(q, "find")' \/ ProbeAt(q, "write")' => probe'[q].version = file'[Probed(k)]
          /\ ProbeAt(q, "write")' => probe'[q].lesson \in LessonsWith(k)'
          /\ ~ ProbeAt(q, "done")'
    BY <1>1, <1>2, <1>3, <2>2 DEF ProbeAt, Probed
  <2> QED  BY <2>3, <2>4, <2>5 DEF Due, Probed
<1> QED  BY <1>1, <1>3, WorkerAwaited

LEMMA MeasureAwaited ==
  ASSUME LibraryInv, AwaitedInv, NEW p \in Processes, Measure(p)
  PROVE  AwaitedInv'
<1> DEFINE v == file[Probed(probe[p].key)]
<1>1. ~ ProbeAt(p, "idle")  BY DEF Measure, ProbeAt
<1>2. CASE AttemptFails(p)  BY <1>1, <1>2, AttemptFailsAwaited
<1>3. CASE /\ probe' = [probe EXCEPT ![p].pc = "find", ![p].version = v]
           /\ UNCHANGED <<lesson, probed, awaited, job, ProbeFrame>>
  <2> DEFINE row == [probe[p] EXCEPT !.pc = "find", !.version = v]
  <2>1. probe[p] \in ProbeRow /\ Probed(probe[p].key) \in Files
    BY <1>1, InHand DEF LibraryInv, LibraryTyped, Probed, Files
  <2>2. v \in 0..MaxVersions
    BY <2>1, VersionsFit DEF LibraryInv, LibraryTyped
  <2>3. /\ row \in ProbeRow /\ row.key = probe[p].key /\ row.pc = "find"
        /\ row.version = v
    BY <2>1, <2>2 DEF ProbeRow
  <2>4. probe' = [probe EXCEPT ![p] = row]
    BY <1>3 DEF LibraryInv, LibraryTyped
  <2>5. UNCHANGED <<file, lesson, awaited, job>>  BY <1>3 DEF ProbeFrame
  <2> HIDE DEF row
  <2> QED  BY <1>1, <2>3, <2>4, <2>5, GoingOnAwaited
<1> QED  BY <1>2, <1>3 DEF Measure

\* The one lesson of a due key is there to be found.
LEMMA FindLessonAwaited ==
  ASSUME LibraryInv, AwaitedInv, NEW p \in Processes, FindLesson(p)
  PROVE  AwaitedInv'
<1> DEFINE k == probe[p].key
<1>1. /\ ProbeAt(p, "find") /\ ~ ProbeAt(p, "idle") /\ probe[p] \in ProbeRow
      /\ UNCHANGED <<file, lesson, awaited, job>>
  BY DEF FindLesson, ProbeAt, ProbeFrame, LibraryInv, LibraryTyped
<1>2. k \in awaited => Due(k)  BY DEF AwaitedInv
<1>3. ASSUME NEW l \in LessonsWith(k),
             probe' = [probe EXCEPT ![p].pc = "write", ![p].lesson = l]
      PROVE  AwaitedInv'
  <2> DEFINE row == [probe[p] EXCEPT !.pc = "write", !.lesson = l]
  <2>1. l \in 0..MaxLessons  BY <1>3 DEF LessonsWith, Lessons
  <2>2. /\ row \in ProbeRow /\ row.key = k /\ row.pc = "write"
        /\ row.version = probe[p].version /\ row.lesson = l
    BY <1>1, <2>1 DEF ProbeRow
  <2>3. probe' = [probe EXCEPT ![p] = row]
    BY <1>3 DEF LibraryInv, LibraryTyped
  <2>4. k \in awaited => probe[p].version = file[Probed(k)]
    BY <1>1, <1>2 DEF Due
  <2> HIDE DEF row
  <2> QED  BY <1>1, <1>3, <2>2, <2>3, <2>4, GoingOnAwaited
<1>4. CASE LessonsWith(k) = {} /\ Now(p, "done")
  <2>1. k \notin awaited  BY <1>2, <1>4 DEF Due
  <2>2. /\ probe'[p].key = k
        /\ \A q \in Processes : q # p => probe'[q] = probe[q]
    BY <1>1, <1>4 DEF Now, LibraryInv, LibraryTyped, ProbeRow
  <2> QED  BY <1>1, <2>1, <2>2, WorkerAwaited
<1> QED  BY <1>3, <1>4 DEF FindLesson

LEMMA CompleteAwaited ==
  ASSUME LibraryInv, AwaitedInv, NEW p \in Processes, NEW k \in Keys, probe[p].key = k,
         Complete(p)
  PROVE  AwaitedInv'
<1>1. /\ ProbeAt(p, "done") /\ ~ ProbeAt(p, "idle") /\ job' = [job EXCEPT ![k] = None]
      /\ probe' = [probe EXCEPT ![p] = IdleProbe] /\ UNCHANGED <<file, lesson, awaited>>
  BY DEF Complete, ProbeAt, ProbeFrame
<1>2. /\ probe'[p].key = 0 /\ \A q \in Processes : q # p => probe'[q] = probe[q]
      /\ \A x \in Keys : x # k => job'[x] = job[x]
  BY <1>1, IdleWorker DEF LibraryInv, LibraryTyped
<1>3. ASSUME k \in awaited  PROVE Due(k)'
  <2>1. Due(k)  BY <1>3 DEF AwaitedInv
  <2>2. LessonsWith(k)' = LessonsWith(k)  BY <1>1, LessonsStand
  <2>3. file'[Probed(k)] \in Whole /\ \E l \in Lessons : LessonsWith(k)' = {l}
    BY <1>1, <2>1, <2>2 DEF Due, Probed
  <2>4. Shown(k)'
    <3>1. Shown(k)  BY <1>1, <2>1 DEF Due
    <3> QED  BY <1>1, <2>2, <3>1 DEF Shown, Probed
  <2>5. \A q \in Processes : probe'[q].key # k
    BY <1>1, <1>2, InHand, LibraryAssumption DEF Keys
  <2> QED  BY <2>3, <2>4, <2>5 DEF Due, Probed
<1>4. \A x \in awaited : x # 0  BY AwaitedKeys, LibraryAssumption DEF Keys
<1> QED  BY <1>1, <1>2, <1>3, <1>4, WorkerAwaited

\* The lesson written shows a due key only if the worker's job is that key's.
LEMMA WriteDurationAwaited ==
  ASSUME LibraryInv, AwaitedInv, NEW p \in Processes, NEW k \in Keys, NEW l,
         probe[p].key = k, probe[p].lesson = l, WriteDuration(p)
  PROVE  AwaitedInv'
<1>1. ProbeAt(p, "write") /\ ~ ProbeAt(p, "idle")  BY DEF WriteDuration, ProbeAt
<1>2. CASE AttemptFails(p)  BY <1>1, <1>2, AttemptFailsAwaited
<1>3. CASE /\ Now(p, "done")
           /\ lesson' = [lesson EXCEPT ![l].duration = probe[p].version]
           /\ probed' = probed \cup {l}
           /\ awaited' = IF lesson[l].key = k THEN awaited ELSE awaited \ {lesson[l].key}
           /\ UNCHANGED <<job, ProbeFrame>>
  <2>1. /\ l \in Lessons /\ lesson[l] # None /\ lesson'[l] # None
        /\ \A x \in Lessons : x # l => lesson'[x] = lesson[x]
        /\ lesson'[l].duration = probe[p].version
        /\ lesson'[l].key = lesson[l].key /\ lesson'[l].live = lesson[l].live
        /\ probe'[p].key = k /\ probe'[p].pc = "done"
        /\ \A q \in Processes : q # p => probe'[q] = probe[q]
    BY <1>1, <1>3, Wrote
  <2>2. UNCHANGED <<file, job>> /\ awaited' \subseteq awaited
    BY <1>3 DEF ProbeFrame
  <2>3. \A x \in Keys : LessonsWith(x)' = LessonsWith(x)
    BY <2>1 DEF LessonsWith, LiveLesson
  <2>4. ASSUME NEW x \in awaited', x # k  PROVE Due(x)'
    <3>1. x \in Keys /\ Due(x)  BY <2>2, <2>4, AwaitedKeys DEF AwaitedInv
    <3>2. lesson[l].key # x  BY <1>3, <2>4
    <3>3. \A y \in LessonsWith(x) : lesson'[y] = lesson[y]
      BY <2>1, <3>2 DEF LessonsWith
    <3>4. \A q \in Processes : probe'[q] = probe[q] \/ probe'[q].key # x
      BY <2>1, <2>4
    <3>5. LessonsWith(x)' = LessonsWith(x) /\ file'[Probed(x)] = file[Probed(x)]
          /\ job'[x] = job[x]
      BY <2>2, <2>3, <3>1
    <3> QED  BY <3>1, <3>3, <3>4, <3>5, DueStays
  <2>5. ASSUME k \in awaited'  PROVE Due(k)'
    <3>1. Due(k)  BY <2>2, <2>5 DEF AwaitedInv
    <3>2. l \in LessonsWith(k) /\ probe[p].version = file[Probed(k)]
      BY <1>1, <3>1 DEF Due
    <3>3. LessonsWith(k) = {l}  BY <3>1, <3>2 DEF Due
    <3>4. LessonsWith(k)' = {l} /\ file'[Probed(k)] = file[Probed(k)]
      BY <2>2, <2>3, <3>3
    <3>5. Shown(k)'  BY <2>1, <3>2, <3>4 DEF Shown, Probed
    <3>6. job'[k] # None  BY <1>1, <2>2, InHand
    <3>7. \A q \in Processes : probe'[q].key = k => q = p
      BY <1>1, <2>1, InHand
    <3>8. file'[Probed(k)] \in Whole  BY <3>1, <3>4 DEF Due
    <3> QED  BY <2>1, <3>4, <3>5, <3>6, <3>7, <3>8 DEF Due, ProbeAt, Probed
  <2> QED  BY <2>4, <2>5 DEF AwaitedInv
<1> QED  BY <1>2, <1>3 DEF WriteDuration

LEMMA WorkAwaited ==
  ASSUME LibraryInv, AwaitedInv, NEW p \in Processes, Work(p)
  PROVE  AwaitedInv'
<1>1. ASSUME Complete(p)  PROVE AwaitedInv'
  <2>1. probe[p].key \in Keys  BY <1>1, InHand DEF Complete, ProbeAt
  <2> QED  BY <1>1, <2>1, CompleteAwaited
<1>2. ASSUME WriteDuration(p)  PROVE AwaitedInv'
  <2>1. probe[p].key \in Keys  BY <1>2, InHand DEF WriteDuration, ProbeAt
  <2> QED  BY <1>2, <2>1, WriteDurationAwaited
<1> QED  BY <1>1, <1>2, TakeJobAwaited, MeasureAwaited, FindLessonAwaited DEF Work

LEMMA StalledAwaited ==
  ASSUME LibraryInv, AwaitedInv, NEW k \in Keys, Stalled(k)
  PROVE  AwaitedInv'
<1>1. /\ job[k] # None /\ UNCHANGED <<file, lesson, probe>>
      /\ \/ /\ job' = [job EXCEPT ![k].state = "wait", ![k].stalled = TRUE]
            /\ awaited' = awaited
         \/ job' = [job EXCEPT ![k] = None] /\ awaited' = awaited \ {k}
  BY DEF Stalled, Abandoned, ProbeFrame
<1>2. ASSUME NEW x \in awaited'  PROVE job'[x] = job[x] \/ job'[x] # None
  <2>1. x \in Keys  BY <1>1, <1>2, AwaitedKeys
  <2>2. CASE x # k  BY <1>1, <2>1, <2>2 DEF LibraryInv, LibraryTyped
  <2>3. CASE x = k
    <3>1. /\ job[k] \in JobRow
          /\ job'[k] = [job[k] EXCEPT !.state = "wait", !.stalled = TRUE]
      BY <1>1, <1>2, <2>3 DEF LibraryInv, LibraryTyped
    <3>2. job'[k] \in JobRow  BY <3>1 DEF JobRow
    <3> QED  BY <2>3, <3>2, JobRows
  <2> QED  BY <2>2, <2>3
<1> QED  BY <1>1, <1>2, TablesAwaited

LEMMA RestartAwaited ==
  ASSUME LibraryInv, AwaitedInv, Restart
  PROVE  AwaitedInv'
<1>1. UNCHANGED <<file, lesson, job, awaited>>  BY DEF Restart
<1>2. \A p \in Processes : probe'[p] = probe[p] \/ probe'[p] = IdleProbe
  BY DEF Restart, LibraryInv, LibraryTyped
<1> QED  BY <1>1, <1>2, TablesAwaited

LEMMA ReleasedAwaited ==
  ASSUME LibraryInv, AwaitedInv, Released, UNCHANGED <<file, lesson, job, awaited>>
  PROVE  AwaitedInv'
<1>1. \A p \in Processes : probe'[p] = probe[p] \/ probe'[p] = IdleProbe
  BY DEF Released, LibraryInv, LibraryTyped
<1> QED  BY <1>1, TablesAwaited

LEMMA ContinueLibraryAwaited ==
  ASSUME LibraryInv, AwaitedInv, NEW s \in Slots, ContinueLibrary(s)
  PROVE  AwaitedInv'
<1>1. media[s].file \in Files
  BY DEF ContinueLibrary, Accept, Reject, LibraryInv, MediaSound
<1> QED  BY <1>1, UploadsAwaited DEF ContinueLibrary

LEMMA StartLibraryAwaited ==
  ASSUME LibraryInv, AwaitedInv, StartLibrary
  PROVE  AwaitedInv'
<1>1. ASSUME NEW ext, InitUpload(ext)  PROVE AwaitedInv'
  BY <1>1, TablesAwaited DEF InitUpload
<1>2. ASSUME NEW f \in Files, Put(f)  PROVE AwaitedInv'
  BY <1>2, FilesAwaited DEF Put
<1>3. ASSUME NEW l \in Lessons, DeleteLesson(l)  PROVE AwaitedInv'
  <2>1. 1 \in Keys  BY LibraryAssumption DEF Keys
  <2> QED  BY <1>3, <2>1, LessonsAwaited
<1>4. ASSUME NEW p \in Processes, Break(p)  PROVE AwaitedInv'
  BY <1>4, AttemptFailsAwaited DEF Break
<1> QED
  BY <1>1, <1>2, <1>3, <1>4, UploadsAwaited, UploadSuccessAwaited, LessonsAwaited,
     StalledAwaited, RestartAwaited DEF StartLibrary

LEMMA AwaitedSteps ==
  ASSUME LibraryInv, AwaitedInv, [Next]_vars
  PROVE  AwaitedInv'
<1>1. ASSUME \/ OnAccess(StartAccess) \/ OnAccess(ContinueScript) \/ OnAccess(KillScript)
             \/ \E s \in Slots : OnAccess(ContinueAccess(s))
      PROVE  AwaitedInv'
  BY <1>1, ReleasedAwaited DEF OnAccess
<1>2. ASSUME UNCHANGED vars  PROVE AwaitedInv'
  BY <1>2, TablesAwaited DEF vars, libraryVars
<1> QED
  BY <1>1, <1>2, ContinueLibraryAwaited, StartLibraryAwaited, WorkAwaited
  DEF Next, Quiescent

LEMMA AwaitedAlways == Spec => [](LibraryInv /\ AwaitedInv)
<1>1. Init => LibraryInv /\ AwaitedInv
  BY LibraryInitially DEF Init, LibraryInit, AwaitedInv
<1>2. LibraryInv /\ AwaitedInv /\ [Next]_vars => LibraryInv' /\ AwaitedInv'
  BY LibrarySteps, AwaitedSteps
<1> QED  BY <1>1, <1>2, PTL DEF Spec

\* A duration that is due is there when its job is done, whatever else happens to files,
\* lessons, workers and processes.
THEOREM DueDurationsLand == Spec => []AwaitedProbesLand
<1>1. LibraryInv /\ AwaitedInv => AwaitedProbesLand
  BY DEF AwaitedInv, Due, Shown, Probed, AwaitedProbesLand
<1> QED  BY <1>1, AwaitedAlways, PTL

-----------------------------------------------------------------------------
(* Ranges *)

\* What is wanted are the bytes from start to the end that AzureEnd finds, or none.
LEMMA WantedBytes ==
  ASSUME NEW size \in Nat \ {0}, NEW start \in 0..size,
         NEW end \in (start..(size + 1)) \cup {Open}
  PROVE  /\ start >= size <=> Wanted(size, start, end) = {}
         /\ start < size =>
              /\ AzureEnd(size, end) \in start..(size - 1)
              /\ Wanted(size, start, end) = start..AzureEnd(size, end)
              /\ LocalBytes(size, start, end) = Wanted(size, start, end)
              /\ end < size => LastByte(size, end) = AzureEnd(size, end)
<1>1. start < size => /\ AzureEnd(size, end) \in start..(size - 1)
                      /\ end < size => LastByte(size, end) = AzureEnd(size, end)
  BY DEF AzureEnd, LastByte, Open
<1>2. start < size => Wanted(size, start, end) = start..AzureEnd(size, end)
  BY DEF Wanted, AzureEnd, Open
<1>3. start < size => LocalBytes(size, start, end) = Wanted(size, start, end)
  BY DEF Wanted, LocalBytes, LastByte, Open
<1>4. start < size => start \in Wanted(size, start, end)
  BY DEF Wanted, Open
<1>5. start >= size => Wanted(size, start, end) = {}
  BY DEF Wanted
<1> QED  BY <1>1, <1>2, <1>3, <1>4, <1>5

\* Both providers send what was asked for, as much of it as they announce, for files of
\* every size.
THEOREM RangesServed == Spec => []RangesAreRight
<1>1. LibraryTyped => RangesAreRight
  <2> SUFFICES ASSUME LibraryTyped, NEW f \in Files, file[f] = Len(origin),
                      NEW start \in 0..Size(file[f]),
                      NEW end \in (start..(Size(file[f]) + 1)) \cup {Open}
               PROVE  LET size == Size(file[f])
                          wanted == Wanted(size, start, end)
                      IN /\ Unsatisfiable(size, start) <=> wanted = {}
                         /\ wanted # {} =>
                              /\ AzureBytes(size, start, end) = wanted
                              /\ AzureLength(size, start, end) = Cardinality(wanted)
                              /\ LocalBytes(size, start, end) = wanted
                              /\ end < size =>
                                   LocalLength(size, start, end) = Cardinality(wanted)
    BY DEF RangesAreRight
  <2> DEFINE size == Size(file[f])
  <2> DEFINE wanted == Wanted(size, start, end)
  <2> DEFINE last == AzureEnd(size, end)
  <2>1. size \in Nat \ {0}  BY LengthIsNat DEF Size
  <2>2. start \in 0..size /\ end \in (start..(size + 1)) \cup {Open}  OBVIOUS
  <2> HIDE DEF size
  <2>3. /\ start >= size <=> wanted = {}
        /\ start < size =>
             /\ last \in start..(size - 1) /\ wanted = start..last
             /\ LocalBytes(size, start, end) = wanted
             /\ end < size => LastByte(size, end) = last
    BY <2>1, <2>2, WantedBytes
  <2>4. start < size <=> wanted # {}  BY <2>1, <2>2, <2>3
  <2> HIDE DEF wanted, last
  <2>5. wanted # {} => Cardinality(wanted) = last - start + 1
    <3>1. ASSUME start < size  PROVE Cardinality(start..last) = last - start + 1
      <4>1. start \in Int /\ last \in Int /\ start <= last  BY <2>1, <2>2, <2>3, <3>1
      <4> QED  BY <4>1, FS_Interval
    <3> QED  BY <2>3, <2>4, <3>1
  <2>6. wanted # {} => /\ AzureLength(size, start, end) = last - start + 1
                       /\ AzureBytes(size, start, end) = start..last
    <3>1. AzureLength(size, start, end) = last - start + 1  BY DEF AzureLength, last
    <3>2. AzureBytes(size, start, end) = start..(start + (last - start + 1) - 1)
      BY <3>1 DEF AzureBytes
    <3>3. start < size => start + (last - start + 1) - 1 = last  BY <2>1, <2>2, <2>3
    <3> QED  BY <2>4, <3>1, <3>2, <3>3
  <2>7. wanted # {} /\ end < size => LocalLength(size, start, end) = last - start + 1
    BY <2>3, <2>4 DEF LocalLength
  <2>8. Unsatisfiable(size, start) <=> wanted = {}  BY <2>3 DEF Unsatisfiable
  <2> QED  BY <2>3, <2>4, <2>5, <2>6, <2>7, <2>8 DEF size, wanted
<1> QED  BY <1>1, LibraryAlways, PTL DEF LibraryInv

-----------------------------------------------------------------------------
(* The jobs are a queue of probes, as far as safety goes *)

Pending == {k \in Keys : job[k] # None}
ShownDurations == [l \in Lessons |-> IF lesson[l] = None THEN 0 ELSE lesson[l].duration]
QueueStep == [Queue!Next]_(Queue!vars)

LEMMA QueueStands ==
  ASSUME UNCHANGED <<origin, probed>>, Pending' = Pending, ShownDurations' = ShownDurations
  PROVE  QueueStep
  BY DEF QueueStep, Queue!vars, Pending, ShownDurations

\* A job comes, goes or changes.
LEMMA OneJob ==
  ASSUME UNCHANGED <<origin, probed, lesson>>, NEW k \in Keys,
         \A x \in Keys : x # k => (job'[x] # None <=> job[x] # None)
  PROVE  QueueStep
<1>1. ShownDurations' = ShownDurations  BY DEF ShownDurations
<1>2. CASE job'[k] # None <=> job[k] # None
  <2>1. Pending' = Pending  BY <1>2 DEF Pending
  <2> QED  BY <1>1, <2>1, QueueStands
<1>3. CASE job'[k] # None /\ job[k] = None
  <2>1. Pending' = Pending \cup {k}  BY <1>3 DEF Pending
  <2>2. Queue!Enqueue(k)  BY <1>1, <2>1 DEF Queue!Enqueue, Pending, ShownDurations
  <2> QED  BY <2>2 DEF QueueStep, Queue!Next
<1>4. CASE job'[k] = None /\ job[k] # None
  <2>1. k \in Pending /\ Pending' = Pending \ {k}  BY <1>4 DEF Pending
  <2>2. Queue!Settle(k)  BY <1>1, <2>1 DEF Queue!Settle, Pending, ShownDurations
  <2> QED  BY <2>2 DEF QueueStep, Queue!Next
<1> QED  BY <1>2, <1>3, <1>4

LEMMA OneUpload ==
  ASSUME NEW f \in Files, origin' = Append(origin, f), UNCHANGED <<probed, job, lesson>>
  PROVE  QueueStep
<1>1. Queue!Upload(f)  BY DEF Queue!Upload
<1> QED  BY <1>1 DEF QueueStep, Queue!Next

\* A lesson comes to show what its owner has entered.
LEMMA OneLesson ==
  ASSUME LibraryInv, NEW l \in Lessons, NEW d \in Durations, UNCHANGED <<origin, job>>,
         probed' = probed \ {l}, lesson'[l] # None, lesson'[l].duration = d,
         \A x \in Lessons : x # l => lesson'[x] = lesson[x]
  PROVE  QueueStep
<1>1. ShownDurations' = [ShownDurations EXCEPT ![l] = d]  BY DEF ShownDurations
<1>2. Queue!Enter(l, d)  BY <1>1 DEF Queue!Enter, ShownDurations
<1> QED  BY <1>2 DEF QueueStep, Queue!Next

LEMMA UploadsQueue ==
  ASSUME LibraryInv, NEW s \in Slots, ContinueLibrary(s), LibraryInv'
  PROVE  QueueStep
<1>1. ASSUME Accept(s)  PROVE QueueStep
  <2>1. media[s].file \in Files  BY <1>1 DEF Accept, LibraryInv, MediaSound
  <2>2. media[s].file[1] \in Keys  BY <2>1, KeysOfFiles
  <2>3. \A x \in Keys : x # media[s].file[1] => job'[x] = job[x]
    BY <1>1, <2>2, AddedJob DEF Accept, LibraryInv
  <2> QED  BY <1>1, <2>2, <2>3, OneJob DEF Accept
<1>2. ASSUME Reject(s)  PROVE QueueStep
  BY <1>2, QueueStands DEF Reject, Pending, ShownDurations
<1> QED  BY <1>1, <1>2 DEF ContinueLibrary

LEMMA FailuresQueue ==
  ASSUME LibraryInv, NEW p \in Processes, ~ ProbeAt(p, "idle"), AttemptFails(p)
  PROVE  QueueStep
<1>1. \A x \in Keys : x # probe[p].key => job'[x] = job[x]
  BY InHand, FailedJob DEF AttemptFails, LibraryInv
<1>2. probe[p].key \in Keys  BY InHand
<1> QED  BY <1>1, <1>2, OneJob DEF AttemptFails, ProbeFrame

LEMMA WorkQueue ==
  ASSUME LibraryInv, NEW p \in Processes, Work(p)
  PROVE  QueueStep
<1>1. ASSUME NEW k \in Keys, TakeJob(p, k)  PROVE QueueStep
  <2>1. \A x \in Keys : x # k => job'[x] = job[x]
    BY <1>1 DEF TakeJob, LibraryInv, LibraryTyped
  <2> QED  BY <1>1, <2>1, OneJob DEF TakeJob, ProbeFrame
<1>2. ASSUME Measure(p)  PROVE QueueStep
  <2>1. ~ ProbeAt(p, "idle")  BY <1>2 DEF Measure, ProbeAt
  <2>2. AttemptFails(p) \/ UNCHANGED <<origin, probed, job, lesson>>
    BY <1>2 DEF Measure, ProbeFrame
  <2> QED  BY <2>1, <2>2, FailuresQueue, QueueStands DEF Pending, ShownDurations
<1>3. ASSUME FindLesson(p)  PROVE QueueStep
  BY <1>3, QueueStands DEF FindLesson, ProbeFrame, Pending, ShownDurations
<1>4. ASSUME WriteDuration(p)  PROVE QueueStep
  <2>1. ProbeAt(p, "write") /\ ~ ProbeAt(p, "idle")  BY <1>4 DEF WriteDuration, ProbeAt
  <2>2. CASE AttemptFails(p)  BY <2>1, <2>2, FailuresQueue
  <2>3. ASSUME NEW k \in Keys, NEW v, NEW l \in Lessons, k = probe[p].key,
               v = probe[p].version, l = probe[p].lesson,
               lesson' = [lesson EXCEPT ![l].duration = v], probed' = probed \cup {l},
               UNCHANGED <<job, origin>>
        PROVE  QueueStep
    <3>1. k \in Pending  BY <2>1, <2>3, InHand DEF Pending
    <3>2. v \in DOMAIN origin /\ origin[v] = Probed(k)
      BY <2>1, <2>3 DEF LibraryInv, LibraryTyped, ProbeSound, UploadedAs
    <3>3. lesson[l] \in LessonRow  BY <2>1, <2>3 DEF LibraryInv, LibraryTyped, ProbeSound
    <3>4. /\ lesson'[l] # None /\ lesson'[l].duration = v
          /\ \A x \in Lessons : x # l => lesson'[x] = lesson[x]
      <4>1. \A r \in LessonRow : [r EXCEPT !.duration = v].duration = v  BY DEF LessonRow
      <4>2. lesson'[l] = [lesson[l] EXCEPT !.duration = v]
        BY <2>3 DEF LibraryInv, LibraryTyped
      <4>3. v \in 0..MaxVersions  BY <3>2, VersionsFit DEF LibraryInv, LibraryTyped
      <4>4. lesson'[l] \in LessonRow  BY <3>3, <4>2, <4>3 DEF LessonRow, Durations
      <4> QED  BY <2>3, <3>3, <4>1, <4>2, <4>4, LessonRows DEF LibraryInv, LibraryTyped
    <3>5. ShownDurations' = [ShownDurations EXCEPT ![l] = v]  BY <3>4 DEF ShownDurations
    <3>6. Queue!Measure(k, v, l)
      BY <2>3, <3>1, <3>2, <3>5 DEF Queue!Measure, Pending, ShownDurations
    <3> QED  BY <3>2, <3>6 DEF QueueStep, Queue!Next
  <2>4. probe[p].key \in Keys /\ probe[p].lesson \in Lessons
    BY <2>1, InHand DEF LibraryInv, ProbeSound
  <2> QED  BY <1>4, <2>2, <2>3, <2>4 DEF WriteDuration, ProbeFrame
<1>5. ASSUME Complete(p)  PROVE QueueStep
  <2>1. probe[p].key \in Keys  BY <1>5, InHand DEF Complete, ProbeAt
  <2>2. \A x \in Keys : x # probe[p].key => job'[x] = job[x]
    BY <1>5 DEF Complete, LibraryInv, LibraryTyped
  <2> QED  BY <1>5, <2>1, <2>2, OneJob DEF Complete, ProbeFrame
<1> QED  BY <1>1, <1>2, <1>3, <1>4, <1>5 DEF Work

LEMMA StartsQueue ==
  ASSUME LibraryInv, StartLibrary, LibraryInv'
  PROVE  QueueStep
<1>1. ASSUME NEW f \in Files, Put(f) \/ \E s \in Slots : Receive(s, f)  PROVE QueueStep
  BY <1>1, OneUpload DEF Receive, Put
<1>3. ASSUME NEW ext, InitUpload(ext)  PROVE QueueStep
  BY <1>3, QueueStands DEF InitUpload, Pending, ShownDurations
<1>4. ASSUME NEW k \in Keys, UploadSuccess(k)  PROVE QueueStep
  <2>1. \A x \in Keys : x # k => job'[x] = job[x]
    BY <1>4, AddedJob DEF UploadSuccess, LibraryInv
  <2> QED  BY <1>4, <2>1, OneJob DEF UploadSuccess
<1>2. ASSUME NEW l \in Lessons, DeleteLesson(l)  PROVE QueueStep
  <2>1. lesson[l] # None /\ lesson[l] \in LessonRow
    BY <1>2 DEF DeleteLesson, LiveLesson, LibraryInv, LibraryTyped
  <2>2. [lesson[l] EXCEPT !.live = FALSE] \in LessonRow
        /\ [lesson[l] EXCEPT !.live = FALSE].duration = lesson[l].duration
    BY <2>1 DEF LessonRow
  <2>3. \A x \in Lessons :
          /\ lesson'[x] = None <=> lesson[x] = None
          /\ lesson[x] # None => lesson'[x].duration = lesson[x].duration
    BY <1>2, <2>1, <2>2, LessonRows DEF DeleteLesson, LibraryInv, LibraryTyped
  <2>4. ShownDurations' = ShownDurations  BY <2>3 DEF ShownDurations
  <2> QED  BY <1>2, <2>4, QueueStands DEF DeleteLesson, Pending
<1>5. ASSUME NEW l \in Lessons, NEW k \in Keys, NEW d \in Durations,
             CreateLesson(l, k, d) \/ UpdateLesson(l, k, d)
      PROVE  QueueStep
  <2>1. \A x \in Lessons : x # l => lesson'[x] = lesson[x]
    BY <1>5 DEF UpdateLesson, CreateLesson, LibraryInv, LibraryTyped
  <2>2. lesson'[l] \in LessonRow /\ lesson'[l].duration = d
    <3>1. CASE CreateLesson(l, k, d)
      BY <3>1 DEF CreateLesson, LibraryInv, LibraryTyped, LessonRow
    <3>2. CASE UpdateLesson(l, k, d)
      <4>1. lesson[l] \in LessonRow
        BY <3>2 DEF UpdateLesson, LiveLesson, LibraryInv, LibraryTyped
      <4>2. lesson'[l] = [lesson[l] EXCEPT !.key = k, !.duration = d]
        BY <3>2 DEF UpdateLesson, LibraryInv, LibraryTyped
      <4> QED  BY <4>1, <4>2 DEF LessonRow
    <3> QED  BY <1>5, <3>1, <3>2
  <2>3. UNCHANGED <<origin, job>> /\ probed' = probed \ {l}
    BY <1>5 DEF UpdateLesson, CreateLesson
  <2> QED  BY <2>1, <2>2, <2>3, LessonRows, OneLesson
<1>6. ASSUME NEW p \in Processes, Break(p)  PROVE QueueStep
  BY <1>6, FailuresQueue DEF Break
<1>7. ASSUME NEW k \in Keys, Stalled(k)  PROVE QueueStep
  <2>1. \A x \in Keys : x # k => job'[x] = job[x]
    BY <1>7 DEF Stalled, LibraryInv, LibraryTyped
  <2> QED  BY <1>7, <2>1, OneJob DEF Stalled, ProbeFrame
<1>8. ASSUME Restart  PROVE QueueStep
  BY <1>8, QueueStands DEF Restart, Pending, ShownDurations
<1> QED
  BY <1>1, <1>2, <1>3, <1>4, <1>5, <1>6, <1>7, <1>8 DEF StartLibrary

LEMMA StepsQueue ==
  ASSUME LibraryInv, [Next]_vars, LibraryInv'
  PROVE  QueueStep
<1>1. ASSUME \/ OnAccess(StartAccess) \/ OnAccess(ContinueScript) \/ OnAccess(KillScript)
             \/ \E s \in Slots : OnAccess(ContinueAccess(s))
      PROVE  QueueStep
  BY <1>1, QueueStands DEF OnAccess, Pending, ShownDurations
<1>2. ASSUME UNCHANGED vars  PROVE QueueStep
  BY <1>2, QueueStands DEF vars, libraryVars, Pending, ShownDurations
<1> QED  BY <1>1, <1>2, UploadsQueue, StartsQueue, WorkQueue DEF Next, Quiescent

LEMMA QueueInitially ==
  ASSUME Init
  PROVE  Queue!Init
<1>1. LibraryInv  BY LibraryInitially
<1>2. probed = {} /\ Pending = {} /\ origin \in Seq(Files)
  BY <1>1 DEF Init, LibraryInit, Pending, LibraryInv, LibraryTyped
<1>3. ShownDurations \in [Lessons -> Durations]
  BY <1>1, LibraryAssumption DEF ShownDurations, LibraryInv, LibraryTyped, LessonRow, Durations
<1> QED  BY <1>2, <1>3 DEF Queue!Init, Pending, ShownDurations

\* Whatever happens to jobs, workers and lessons is a step of the queue of probes or none:
\* what a worker writes was probed, on a file of that name, for a job that is pending then,
\* and stays the worker's until an owner enters another duration, any, over it.  That every
\* job ends is liveness.
THEOREM JobsAreProbes == Spec => Queue!Init /\ [][Queue!Next]_(Queue!vars)
<1>1. Init => Queue!Init  BY QueueInitially
<1>2. LibraryInv /\ LibraryInv' /\ [Next]_vars => [Queue!Next]_(Queue!vars)
  BY StepsQueue DEF QueueStep
<1> QED  BY <1>1, <1>2, LibraryAlways, PTL DEF Spec
=============================================================================
