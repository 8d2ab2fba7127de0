-------------------------------- MODULE Library --------------------------------
(***************************************************************************)
(* Videos from upload to playback: the files, the queue of jobs that ask     *)
(* ffprobe for their durations and the workers that run them, the lessons     *)
(* that show the durations, and the parts that are streamed.  Jobs are named   *)
(* by the video's key.  The process of create-permissions boots the whole      *)
(* application and so has a worker as well, until it exits.                    *)
(***************************************************************************)
EXTENDS Access, Sequences

CONSTANTS
  MaxKeys, MaxVersions, MaxLessons,  \* bounds: names, uploads, lesson ids
  Whole                              \* the versions that last whole seconds

Keys == 1..MaxKeys
Files == Keys \X {"mp4", "mov"}
Versions == 1..MaxVersions
Lessons == 1..MaxLessons
Processes == {"app", "script"}

VARIABLES
  provider,   \* where files are: UPLOAD_PROVIDER
  origin,     \* the name each version was uploaded under, in order of upload
  file,       \* the version a name has where the provider keeps its videos, and probes
              \* look; 0, no file or one that cannot be probed
  nextKey,    \* the next of generateRandomFilename's names
  granted,    \* the blobs whose write URL clients hold
  lesson,     \* Lesson rows by id; a duration is that of the version of its number
  media,      \* uploads in progress
  job,        \* the queue's jobs by id
  probe,      \* what each process' worker is doing
  probed,     \* history: the lessons whose duration a worker wrote last
  awaited     \* history: the keys whose durations are due, see UploadSuccess

libraryVars == <<provider, origin, file, nextKey, granted, lesson, media, job, probe,
                 probed, awaited>>
MediaFrame == <<provider, accessVars>>

\* Any number that a body may hold, that of a file which is not there included.
Durations == 0..MaxVersions

MediaRow == [pc : {"idle", "receive"}, file : Files \cup {None}, version : 0..MaxVersions]
IdleMedia == [pc |-> "idle", file |-> None, version |-> 0]
LessonRow == [key : Keys, duration : Durations, live : BOOLEAN]
JobRow == [state : {"wait", "active"}, tries : 1..3, stalled : BOOLEAN]
ProbeRow == [pc : {"idle", "measure", "find", "write", "done"}, key : 0..MaxKeys,
             version : 0..MaxVersions, lesson : 0..MaxLessons]
IdleProbe == [pc |-> "idle", key |-> 0, version |-> 0, lesson |-> 0]

ASSUME LibraryAssumption ==
  /\ MaxKeys \in Nat \ {0} /\ MaxVersions \in Nat \ {0} /\ MaxLessons \in Nat \ {0}
  /\ Whole \subseteq Versions
  /\ None \notin LessonRow \cup JobRow

\* A lesson with a video that was probed before the lesson was there.
LibraryInit ==
  /\ provider \in {"local", "azure"}
  /\ origin = << <<1, "mp4">> >>
  /\ file = [f \in Files |-> IF f = <<1, "mp4">> THEN 1 ELSE 0]
  /\ nextKey = 2 /\ granted = {}
  /\ probed = {}
  /\ lesson = [l \in Lessons |-> IF l > 1 THEN None ELSE
       [key |-> 1, duration |-> 0, live |-> TRUE]]
  /\ media = [s \in Slots |-> IdleMedia]
  /\ job = [k \in Keys |-> None]
  /\ probe = [p \in Processes |-> IdleProbe]
  /\ awaited = {}

-----------------------------------------------------------------------------
(* Uploads *)

Used == 1..(nextKey - 1)
LiveLesson(l) == lesson[l] # None /\ lesson[l].live
LessonsWith(k) == {l \in Lessons : LiveLesson(l) /\ lesson[l].key = k}

\* queue.add with a jobId: while there is a job of that id, nothing is added.
AddedAgain(k, tries) ==  \* mutant: without the jobId
  [job EXCEPT ![k] = [state |-> "wait", tries |-> tries, stalled |-> FALSE]]
Added(k, tries) ==
  IF job[k] # None THEN job
  ELSE [job EXCEPT ![k] = [state |-> "wait", tries |-> tries, stalled |-> FALSE]]

\* Both routes write to the disk, whatever the provider; probes look for blobs, though,
\* where that is Azure.
OnDisk(f, version) == IF provider = "local" THEN [file EXCEPT ![f] = version] ELSE file

\* POST videos/upload with its random name, and videos/upload-by-name with any:
\* multer opens the file before the pipe looks at it.
Receive(s, f) ==
  /\ media[s].pc = "idle" /\ Spend("media")
  /\ f[1] \in Used \cup {nextKey} /\ Len(origin) < MaxVersions
  /\ origin' = Append(origin, f) /\ file' = OnDisk(f, 0)
  /\ nextKey' = IF f[1] = nextKey THEN nextKey + 1 ELSE nextKey
  /\ media' = [media EXCEPT ![s] = [pc |-> "receive", file |-> f,
                                   version |-> Len(origin) + 1]]
  /\ awaited' = awaited \ {f[1]}
  /\ UNCHANGED <<granted, lesson, job, probe, probed, MediaFrame>>

\* A refused job is logged and forgotten.
Accept(s) ==
  LET f == media[s].file
  IN /\ media[s].pc = "receive"
     /\ media' = [media EXCEPT ![s] = IdleMedia]
     /\ file' = OnDisk(f, media[s].version)
     /\ awaited' = awaited \ {f[1]}
     /\ \/ job' = Added(f[1], 1) /\ UNCHANGED left
        \/ Spend("fault") /\ UNCHANGED job
     /\ UNCHANGED <<origin, nextKey, granted, lesson, probe, probed, MediaFrame>>

\* ParseFilePipeWithUnlink: what was there before is gone as well.
Reject(s) ==
  LET f == media[s].file
  IN /\ media[s].pc = "receive"
     /\ media' = [media EXCEPT ![s] = IdleMedia]
     /\ file' = OnDisk(f, 0)
     /\ awaited' = awaited \ {f[1]}
     /\ UNCHANGED <<origin, nextKey, granted, lesson, job, probe, probed, left,
                    MediaFrame>>

InitUpload(ext) ==
  /\ provider = "azure" /\ nextKey \in Keys /\ Spend("media")
  /\ granted' = granted \cup {<<nextKey, ext>>} /\ nextKey' = nextKey + 1
  /\ UNCHANGED <<origin, file, lesson, media, job, probe, probed, awaited,
                 MediaFrame>>

\* External: a client uploads straight to the storage, while its URL is good again.
Put(f) ==
  /\ Spend("media") /\ f \in granted /\ Len(origin) < MaxVersions
  /\ origin' = Append(origin, f) /\ file' = [file EXCEPT ![f] = Len(origin) + 1]
  /\ awaited' = awaited \ {f[1]}
  /\ UNCHANGED <<nextKey, granted, lesson, media, job, probe, probed,
                 MediaFrame>>

\* A duration is due from here on if this adds the job, its file is there and lasts
\* whole seconds, and one lesson shows it; until a file of its name or the lesson is
\* touched, or the queue gives the job up.
UploadSuccess(k) ==
  /\ k \in Used
  /\ \/ /\ Spend("media") /\ job' = Added(k, 3)
        /\ awaited' = IF /\ job[k] = None /\ file[<<k, "mp4">>] \in Whole
                         /\ Cardinality(LessonsWith(k)) = 1
                      THEN awaited \cup {k} ELSE awaited
     \/ Spend("fault") /\ UNCHANGED <<job, awaited>>
  /\ UNCHANGED <<origin, file, nextKey, granted, lesson, media, probe, probed, MediaFrame>>

-----------------------------------------------------------------------------
(* Lessons, as far as their videos go; Outline has the rest *)

\* The body's duration is written as it is.
CreateLesson(l, k, d) ==
  /\ Spend("media") /\ lesson[l] = None /\ (l > 1 => lesson[l - 1] # None) /\ k \in Used
  /\ lesson' = [lesson EXCEPT ![l] = [key |-> k, duration |-> d, live |-> TRUE]]
  /\ probed' = probed \ {l} /\ awaited' = awaited \ {k}
  /\ UNCHANGED <<origin, file, nextKey, granted, media, job, probe, MediaFrame>>

\* As is an update's, 0 where it has none, and the URL's key: over whatever a probe has
\* written since the teacher's form was filled in.
UpdateLesson(l, k, d) ==
  /\ Spend("media") /\ LiveLesson(l) /\ k \in Used
  /\ lesson' = [lesson EXCEPT ![l].key = k, ![l].duration = d]
  /\ probed' = probed \ {l} /\ awaited' = awaited \ {k, lesson[l].key}
  /\ UNCHANGED <<origin, file, nextKey, granted, media, job, probe, MediaFrame>>

DeleteLesson(l) ==
  /\ Spend("media") /\ LiveLesson(l)
  /\ lesson' = [lesson EXCEPT ![l].live = FALSE]
  /\ awaited' = awaited \ {lesson[l].key}
  /\ UNCHANGED <<origin, file, nextKey, granted, media, job, probe, probed,
                 MediaFrame>>

-----------------------------------------------------------------------------
(* DurationConsumer *)

ProbeFrame == <<origin, file, nextKey, granted, media, MediaFrame>>
Up(p) == p = "app" \/ script.pc # "off"
ProbeAt(p, pc) == probe[p].pc = pc
Now(p, pc) == probe' = [probe EXCEPT ![p].pc = pc]

TakeJob(p, k) ==
  /\ Up(p) /\ ProbeAt(p, "idle") /\ job[k] # None /\ job[k].state = "wait"
  /\ job' = [job EXCEPT ![k].state = "active"]
  /\ probe' = [probe EXCEPT ![p] = [IdleProbe EXCEPT !.pc = "measure", !.key = k]]
  /\ UNCHANGED <<lesson, probed, awaited, left, ProbeFrame>>

\* The queue tries again, later, as long as there are attempts left; a job that
\* has failed for good is removed, so that its id is free.
FailedKept(k) ==  \* mutant: without removeOnFail
  IF job[k].tries > 1
  THEN [job EXCEPT ![k].state = "wait", ![k].tries = @ - 1]
  ELSE [job EXCEPT ![k].state = "failed"]
FailedAtOnce(k) == [job EXCEPT ![k] = None]  \* mutant: no attempts are left
Failed(k) ==
  IF job[k].tries > 1
  THEN [job EXCEPT ![k].state = "wait", ![k].tries = @ - 1]
  ELSE [job EXCEPT ![k] = None]
AttemptFails(p) ==
  /\ job' = Failed(probe[p].key)
  /\ probe' = [probe EXCEPT ![p] = IdleProbe]
  /\ awaited' = IF job[probe[p].key].tries = 1 THEN awaited \ {probe[p].key} ELSE awaited
  /\ UNCHANGED <<lesson, probed, ProbeFrame>>

\* A key has no extension, so that the file asked for is an mp4.
Probed(k) == <<k, "mp4">>
Measure(p) ==
  LET version == file[Probed(probe[p].key)]
  IN /\ ProbeAt(p, "measure") /\ UNCHANGED left
     /\ \/ /\ version # 0
           /\ probe' = [probe EXCEPT ![p].pc = "find", ![p].version = version]
           /\ UNCHANGED <<lesson, probed, awaited, job, ProbeFrame>>
        \/ version = 0 /\ AttemptFails(p)

FindLesson(p) ==
  LET found == LessonsWith(probe[p].key)
  IN /\ ProbeAt(p, "find")
     /\ \/ \E l \in found :
             probe' = [probe EXCEPT ![p].pc = "write", ![p].lesson = l]
        \/ found = {} /\ Now(p, "done")
     /\ UNCHANGED <<lesson, probed, awaited, job, left, ProbeFrame>>

\* By id: the lesson may show another video by now, or be deleted.  External: ffprobe's
\* seconds have fractions and the column has none; whether Prisma then cuts or throws.
WriteDuration(p) ==
  LET l == probe[p].lesson
  IN /\ ProbeAt(p, "write") /\ UNCHANGED left
     /\ \/ /\ Now(p, "done")
           /\ lesson' = [lesson EXCEPT ![l].duration = probe[p].version]
           /\ probed' = probed \cup {l}
           /\ awaited' = IF lesson[l].key = probe[p].key THEN awaited
                         ELSE awaited \ {lesson[l].key}
           /\ UNCHANGED <<job, ProbeFrame>>
        \/ probe[p].version \notin Whole /\ AttemptFails(p)

Complete(p) ==
  /\ ProbeAt(p, "done")
  /\ job' = [job EXCEPT ![probe[p].key] = None]
  /\ probe' = [probe EXCEPT ![p] = IdleProbe]
  /\ UNCHANGED <<lesson, probed, awaited, left, ProbeFrame>>

\* ffprobe, the storage or the database fails.
Break(p) == ~ ProbeAt(p, "idle") /\ ~ ProbeAt(p, "done") /\ Spend("fault") /\ AttemptFails(p)

\* BullMQ's check for jobs whose worker is gone: back into the queue, but once.
Abandoned(k) ==
  /\ job[k] # None /\ job[k].state = "active"
  /\ \A p \in Processes : probe[p].key # k
Stalled(k) ==
  /\ Abandoned(k)
  /\ \/ /\ ~ job[k].stalled /\ UNCHANGED awaited
        /\ job' = [job EXCEPT ![k].state = "wait", ![k].stalled = TRUE]
     \/ /\ job[k].stalled /\ awaited' = awaited \ {k}
        /\ job' = [job EXCEPT ![k] = None]
  /\ UNCHANGED <<lesson, probed, probe, left, ProbeFrame>>

Work(p) ==
  \/ \E k \in Keys : TakeJob(p, k)
  \/ Measure(p) \/ FindLesson(p) \/ WriteDuration(p) \/ Complete(p)

\* The requests in progress are lost and what they were writing stays.
Restart ==
  /\ Spend("fault")
  /\ probe' = [probe EXCEPT !["app"] = IdleProbe]
  /\ media' = [s \in Slots |-> IdleMedia]
  /\ change' = [s \in Slots |-> IdleChange]
  /\ UNCHANGED <<origin, file, nextKey, granted, lesson, job, probed, awaited,
                 provider, permission, nextPermission, role, nextRole, script,
                 undisturbed>>

ContinueLibrary(s) == Accept(s) \/ Reject(s)

StartLibrary ==
  \/ \E s \in Slots, f \in Files : Receive(s, f)
  \/ \E ext \in {"mp4", "mov"} : InitUpload(ext)
  \/ \E f \in Files : Put(f)
  \/ \E k \in Keys : UploadSuccess(k)
  \/ \E l \in Lessons :
       \/ DeleteLesson(l)
       \/ \E k \in Keys, d \in Durations : CreateLesson(l, k, d) \/ UpdateLesson(l, k, d)
  \/ \E p \in Processes : Break(p)
  \/ \E k \in Keys : Stalled(k)
  \/ Restart

-----------------------------------------------------------------------------
(* Streaming: the header `bytes=<start>-<end>`, whose end may be left open *)

Open == -1
LastByte(size, end) == IF end = Open THEN size - 1 ELSE end

\* getStaticVideoFile
LocalLength(size, start, end) == LastByte(size, end) - start + 1
\* What createReadStream finds between the two.
LocalBytes(size, start, end) == {b \in 0..(size - 1) : start <= b /\ b <= LastByte(size, end)}

\* stream
AzureEndPast(size, end) == IF end = Open \/ end > size THEN size - 1 ELSE end  \* mutant
AzureEnd(size, end) == IF end = Open \/ end >= size THEN size - 1 ELSE end
AzureLength(size, start, end) == AzureEnd(size, end) - start + 1
AzureBytes(size, start, end) == start..(start + AzureLength(size, start, end) - 1)
Unsatisfiable(size, start) == start >= size
=============================================================================
