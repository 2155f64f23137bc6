---------------------------- MODULE MediaUpload ----------------------------
(***************************************************************************)
(* Uploads of media (pkg/api/handlers/media.go): the staged temp file, the *)
(* chunks, the file, the thumbnail, the media_objects row and the          *)
(* content_access rows that pin them, statement by statement, against      *)
(* reads of media, announcements and chunks of other authors, changes of   *)
(* follows and the eviction of unpinned content.                           *)
(* Content is a sequence of blocks and is                                  *)
(* its own CID, so that a short file is its only chunk, equal chunks of    *)
(* two files are one file of the store and all videos have one thumbnail.  *)
(* Eviction may start at any time: a limit is small enough.                *)
(***************************************************************************)
EXTENDS Naturals, Sequences, SequencesExt, FiniteSets

CONSTANTS
    Goroutine,      \* requests and message handlers that run at a time
    Block,          \* what contents are made of
    File,           \* contents of uploaded files
    Foreign,        \* contents of files and chunks that other authors send
    Asked,          \* CIDs that reads name
    Image, Video,   \* those that are images or videos; the others are audio
    ChunkSize,
    Jpeg,           \* the block every thumbnail starts with
    Own, Other,     \* the active identity and another author
    MaxUploads,     \* bound: uploads
    MaxMessages,    \* bound: media messages and reads of media
    MaxChanges,     \* bound: follows and unfollows
    MaxFaults       \* bound: failing statements and file operations, and restarts

ASSUME MediaAssumption ==
    /\ IsFiniteSet(Goroutine)
    /\ File \cup Foreign \subseteq Seq(Block) \ {<<>>}
    /\ Image \subseteq File \cup Foreign /\ Video \subseteq File \cup Foreign /\ Image \cap Video = {}
    /\ ChunkSize \in Nat \ {0}
    /\ Own # Other
    /\ {MaxUploads, MaxMessages, MaxChanges, MaxFaults} \subseteq Nat

VARIABLES
    job,            \* what each goroutine is doing
    temps,          \* number of xleaks-upload-* files
    cas,            \* CIDs with a file in the content store
    rows,           \* media_objects: author and thumbnail_cid by CID
    fetched,        \* media_objects.fully_fetched
    tracked,        \* CIDs with a content_access row
    pinned,         \* those with is_pinned = 1
    followed,       \* the active identity follows Other
    victims,        \* the rest of checkAndEvict's batch
    doomed,         \* the CID whose file it has just deleted
    uploaded,       \* history: uploads that were answered with 201
    contested,      \* history: CIDs in messages of other authors, with thumbnails,
                    \* and those that a read tracked before anything pinned them
    leftBehind,     \* history: temp files of refused bodies and of crashes
    uploads, messages, changes, faults

access == <<tracked, pinned>>
eviction == <<victims, doomed>>
history == <<uploaded, contested, leftBehind>>
bounds == <<uploads, messages, changes, faults>>
mediaVars == <<job, temps, cas, rows, fetched, access, followed, eviction, history, bounds>>

NoCid == <<>>

-----------------------------------------------------------------------------
\* Chunks.

\* Mutant of ReadFull: the buffer is one block short.
ReadFullShort(data, k) == SubSeq(data, k * ChunkSize + 1, (k + 1) * ChunkSize - 1)

\* The k-th read of ChunkSize blocks, which is shorter at the end.
ReadFull(data, k) ==
    LET end == (k + 1) * ChunkSize IN
    SubSeq(data, k * ChunkSize + 1, IF end > Len(data) THEN Len(data) ELSE end)

ChunkCids(data) == {ReadFull(data, k) : k \in {n \in 0..Len(data) : n * ChunkSize < Len(data)}}

\* The chunk with an index, which the sorted slice has at that place.
ChunkAt(chunks, i) == CHOOSE c \in Range(chunks) : c.index = i

\* The loop of AssembleChunks that appends the data of n sorted chunks.
Appended(chunks) ==
    LET result[n \in 0..Len(chunks)] ==
            IF n = 0 THEN <<>> ELSE result[n - 1] \o ChunkAt(chunks, n - 1).cid
    IN  result

\* AssembleChunks: sorted by index, refused unless the indices are 0, 1, ...
AssembleChunks(chunks) ==
    IF /\ chunks # <<>>
       /\ \A i \in 0..Len(chunks) - 1 : \E c \in Range(chunks) : c.index = i
    THEN Appended(chunks)[Len(chunks)]
    ELSE NoCid

\* GenerateMediaThumbnailReader: a picture of its own for an image, one
\* placeholder for all videos.
ThumbnailOf(f) ==
    IF f \in Video THEN <<Jpeg>>
    ELSE IF f \in Image THEN <<Jpeg>> \o f ELSE NoCid

Cids == {NoCid} \cup UNION {{f, ThumbnailOf(f)} \cup ChunkCids(f) : f \in File \cup Foreign}

ASSUME ReadAssumption == Asked \subseteq Cids \ {NoCid}

-----------------------------------------------------------------------------
\* The pin policy.

ShouldPinAuthor(author) == author = Own \/ followed

\* Mutant of lookupMediaAuthor: the parent is not looked at.
lookupByCid(c, parent) ==
    {rows[m].author : m \in {n \in DOMAIN rows : n = c \/ rows[n].thumb = c}}

\* The authors whose row lookupMediaAuthor may return; LIMIT 1 takes any.
lookupMediaAuthor(c, parent) ==
    {rows[m].author : m \in {n \in DOMAIN rows : n = parent \/ rows[n].thumb = c}}

MediaBy(author) == {m \in DOMAIN rows : rows[m].author = author}
ThumbnailsBy(author) == {rows[m].thumb : m \in MediaBy(author)} \ {NoCid}

-----------------------------------------------------------------------------

\* A job with row = TRUE is a read that found the media_objects row.
IdleJob == [at |-> "idle", upload |-> FALSE, file |-> NoCid, chunks |-> <<>>,
         thumb |-> NoCid, todo |-> <<>>, pin |-> FALSE, row |-> FALSE]

JobAt(g, step) == job[g].at = step
JobGoto(g, step) == job' = [job EXCEPT ![g].at = step]

StartJob(g, next) ==
    /\ JobAt(g, "idle")
    /\ job' = [job EXCEPT ![g] = next]

\* Mutant of Finish: an error path without the deferred os.Remove.
FinishKeeping(g) ==
    /\ job' = [job EXCEPT ![g] = IdleJob]
    /\ temps' = IF JobAt(g, "publish") THEN temps - 1 ELSE temps

\* The handler returns; an upload removes its staged file.
FinishJob(g) ==
    /\ job' = [job EXCEPT ![g] = IdleJob]
    /\ temps' = IF job[g].upload THEN temps - 1 ELSE temps

-----------------------------------------------------------------------------
\* UploadMedia.

UploadMedia(g) ==
    /\ uploads < MaxUploads
    /\ uploads' = uploads + 1
    /\ StartJob(g, [IdleJob EXCEPT !.at = "part"])
    /\ UNCHANGED <<temps, cas, rows, fetched, access, followed, eviction, history,
                   messages, changes, faults>>

\* copyMultipartPartToTempFile for the first file part.  Form fields are
\* discarded, and a copy that fails removes its file.
StagePart(g) ==
    /\ JobAt(g, "part") /\ ~job[g].upload
    /\ \E f \in File \cup {NoCid} :
          job' = [job EXCEPT ![g].upload = TRUE, ![g].file = f]
    /\ temps' = temps + 1
    /\ UNCHANGED <<cas, rows, fetched, access, followed, eviction, history, bounds>>

\* stageUploadedFile returns an error: no file part, an empty one, a second
\* one, or a body that ends early or is too large.  Nobody removes what is
\* staged by then.
RefuseBody(g) ==
    /\ JobAt(g, "part")
    /\ job' = [job EXCEPT ![g] = IdleJob]
    /\ leftBehind' = leftBehind + (IF job[g].upload THEN 1 ELSE 0)
    /\ UNCHANGED <<temps, cas, rows, fetched, access, followed, eviction,
                   uploaded, contested, bounds>>

\* The end of the body, then ValidateMediaType and, for an image,
\* ExtractImageMetadataReader accept the file ...
AcceptFile(g) ==
    /\ JobAt(g, "part") /\ job[g].upload /\ job[g].file # NoCid
    /\ JobGoto(g, "chunks")
    /\ UNCHANGED <<temps, cas, rows, fetched, access, followed, eviction, history, bounds>>

\* ... or refuse it.
RefuseFile(g) ==
    /\ JobAt(g, "part") /\ job[g].upload /\ job[g].file # NoCid
    /\ FinishJob(g)
    /\ UNCHANGED <<cas, rows, fetched, access, followed, eviction, history, bounds>>

\* storeMediaChunksFromFile, one chunk
StoreChunk(g) ==
    LET k == Len(job[g].chunks)
        chunk == ReadFull(job[g].file, k) IN
    /\ JobAt(g, "chunks")
    /\ cas' = cas \cup {chunk}
    /\ job' = [job EXCEPT ![g].chunks = Append(@, [cid |-> chunk, index |-> k]),
                          ![g].at = IF (k + 1) * ChunkSize >= Len(job[g].file)
                                    THEN "file" ELSE "chunks"]
    /\ UNCHANGED <<temps, rows, fetched, access, followed, eviction, history, bounds>>

\* computeFileCID and storeMediaFileFromPath
StoreFile(g) ==
    /\ JobAt(g, "file")
    /\ cas' = cas \cup {job[g].file}
    /\ JobGoto(g, "thumbnail")
    /\ UNCHANGED <<temps, rows, fetched, access, followed, eviction, history, bounds>>

\* A thumbnail that cannot be made or stored is left out.
StoreThumbnail(g) ==
    LET thumb == ThumbnailOf(job[g].file) IN
    /\ JobAt(g, "thumbnail")
    /\ \/ /\ thumb # NoCid
          /\ cas' = cas \cup {thumb}
          /\ job' = [job EXCEPT ![g].thumb = thumb, ![g].at = "insert"]
       \/ JobGoto(g, "insert") /\ UNCHANGED cas
    /\ UNCHANGED <<temps, rows, fetched, access, followed, eviction, history, bounds>>

\* InsertMediaObject: an upsert that leaves fully_fetched alone.
Inserted(f, author, thumb) ==
    [m \in DOMAIN rows \cup {f} |->
        IF m = f THEN [author |-> author, thumb |-> thumb] ELSE rows[m]]

InsertOwn(g) ==
    /\ JobAt(g, "insert")
    /\ rows' = Inserted(job[g].file, Own, job[g].thumb)
    /\ JobGoto(g, "fetched")
    /\ UNCHANGED <<temps, cas, fetched, access, followed, eviction, history, bounds>>

SetMediaFetched(g) ==
    LET j == job[g] IN
    /\ JobAt(g, "fetched")
    /\ fetched' = fetched \cup {j.file}
    /\ job' = [job EXCEPT ![g].at = "policy",
                          ![g].todo = <<j.file>> \o (IF j.thumb = NoCid THEN <<>> ELSE <<j.thumb>>)
                                      \o [i \in DOMAIN j.chunks |-> j.chunks[i].cid]]
    /\ UNCHANGED <<temps, cas, rows, access, followed, eviction, history, bounds>>

\* TrackContentForMedia of the next CID: its author's policy ...
ReadPolicy(g) ==
    LET authors == lookupMediaAuthor(Head(job[g].todo), job[g].file) IN
    /\ JobAt(g, "policy")
    /\ \/ authors = {} /\ job' = [job EXCEPT ![g].pin = FALSE, ![g].at = "track"]
       \/ \E author \in authors :
             job' = [job EXCEPT ![g].pin = ShouldPinAuthor(author), ![g].at = "track"]
    /\ UNCHANGED <<temps, cas, rows, fetched, access, followed, eviction, history, bounds>>

\* ... and TrackContentAccess, which clears no pin.
Track(g) ==
    LET c == Head(job[g].todo)
        rest == Tail(job[g].todo) IN
    /\ JobAt(g, "track")
    /\ tracked' = tracked \cup {c}
    /\ pinned' = IF job[g].pin THEN pinned \cup {c} ELSE pinned
    /\ IF rest = <<>> /\ ~job[g].upload THEN FinishJob(g)
       ELSE /\ job' = [job EXCEPT ![g].todo = rest,
                                  ![g].at = IF rest = <<>> THEN "publish" ELSE "policy"]
            /\ UNCHANGED temps
    /\ UNCHANGED <<cas, rows, fetched, followed, eviction, history, bounds>>

\* signMediaObject and PublishMediaObject, whose error is logged, then 201.
Publish(g) ==
    /\ JobAt(g, "publish")
    /\ uploaded' = uploaded \cup {[file |-> job[g].file, thumb |-> job[g].thumb,
                                   chunks |-> job[g].chunks]}
    /\ FinishJob(g)
    /\ UNCHANGED <<cas, rows, fetched, access, followed, eviction, contested, leftBehind, bounds>>

-----------------------------------------------------------------------------
\* Reads of media: openContent, and what GetMedia and GetMediaThumbnail track
\* after it.

StartRead(g, c, target, found) ==
    /\ messages < MaxMessages
    /\ messages' = messages + 1
    /\ StartJob(g, [IdleJob EXCEPT !.at = "open", !.file = c, !.todo = <<target>>,
                                   !.row = found])
    /\ UNCHANGED <<temps, cas, rows, fetched, access, followed, eviction, history,
                   uploads, changes, faults>>

GetMedia(g, c) == StartRead(g, c, c, c \in DOMAIN rows)

\* Without a thumbnail in its row the file itself is opened; GetMediaStatus of a
\* file that has no row does the same.
GetMediaThumbnail(g, c) ==
    LET has == c \in DOMAIN rows /\ rows[c].thumb # NoCid IN
    StartRead(g, c, IF has THEN rows[c].thumb ELSE c, has)

OpenStored(g) ==
    /\ JobAt(g, "open") /\ Head(job[g].todo) \in cas
    /\ JobGoto(g, "access")
    /\ UNCHANGED <<temps, cas, rows, fetched, access, followed, eviction, history, bounds>>

\* FetchContentToTempFile, whose file is cached in the store if that succeeds.
OpenFetched(g) ==
    /\ JobAt(g, "open") /\ Head(job[g].todo) \notin cas
    /\ cas' \in {cas, cas \cup {Head(job[g].todo)}}
    /\ JobGoto(g, "access")
    /\ UNCHANGED <<temps, rows, fetched, access, followed, eviction, history, bounds>>

\* Neither stored nor fetched: after the thumbnail, the file itself is opened.
OpenFails(g) ==
    /\ JobAt(g, "open") /\ Head(job[g].todo) \notin cas
    /\ IF Head(job[g].todo) # job[g].file
       THEN /\ job' = [job EXCEPT ![g].todo = <<job[g].file>>, ![g].row = FALSE]
            /\ UNCHANGED temps
       ELSE FinishJob(g)
    /\ UNCHANGED <<cas, rows, fetched, access, followed, eviction, history, bounds>>

\* trackContentAccess, which pins nothing and clears no pin, and whose error is
\* logged; TrackContentForMedia follows if the row was found.
TrackAccess(g) ==
    LET c == Head(job[g].todo) IN
    /\ JobAt(g, "access")
    /\ \/ tracked' = tracked \cup {c} /\ faults' = faults
       \/ faults < MaxFaults /\ faults' = faults + 1 /\ tracked' = tracked
    /\ contested' = contested \cup ({c} \ pinned)
    /\ IF job[g].row THEN JobGoto(g, "policy") /\ UNCHANGED temps ELSE FinishJob(g)
    /\ UNCHANGED <<cas, rows, fetched, pinned, followed, eviction, uploaded, leftBehind,
                   uploads, messages, changes>>

-----------------------------------------------------------------------------
\* What other authors send.

\* handleMediaObject.  What a prefetch does then is ContentExchange's.
HandleMediaObject(f, thumb) ==
    /\ messages < MaxMessages
    /\ messages' = messages + 1
    /\ rows' = Inserted(f, Other, thumb)
    /\ contested' = contested \cup ({f, thumb, ThumbnailOf(f)} \ {NoCid}) \cup ChunkCids(f)
    /\ UNCHANGED <<job, temps, cas, fetched, access, followed, eviction,
                   uploaded, leftBehind, uploads, changes, faults>>

\* handleMediaChunk: ValidateMediaChunk checks the CID, not the parent.
HandleMediaChunk(g, c, parent) ==
    /\ messages < MaxMessages
    /\ messages' = messages + 1
    /\ Len(c) <= ChunkSize
    /\ StartJob(g, [IdleJob EXCEPT !.at = "put", !.file = parent, !.todo = <<c>>])
    /\ contested' = contested \cup {c}
    /\ UNCHANGED <<temps, cas, rows, fetched, access, followed, eviction,
                   uploaded, leftBehind, uploads, changes, faults>>

PutChunk(g) ==
    /\ JobAt(g, "put")
    /\ cas' = cas \cup {Head(job[g].todo)}
    /\ JobGoto(g, "policy")
    /\ UNCHANGED <<temps, rows, fetched, access, followed, eviction, history, bounds>>

-----------------------------------------------------------------------------
\* changeFollowState for Other: the subscriptions row, the policy, and the
\* statements of SetPinnedForAuthor about media.

ChangeFollow(g, add) ==
    /\ changes < MaxChanges
    /\ changes' = changes + 1
    /\ StartJob(g, [IdleJob EXCEPT !.at = "recompute"])
    /\ followed' = add
    /\ UNCHANGED <<temps, cas, rows, fetched, access, eviction, history,
                   uploads, messages, faults>>

RecomputePin(g) ==
    /\ JobAt(g, "recompute")
    /\ job' = [job EXCEPT ![g].pin = ShouldPinAuthor(Other), ![g].at = "pinmedia"]
    /\ UNCHANGED <<temps, cas, rows, fetched, access, followed, eviction, history, bounds>>

SetPinned(cids, pin) ==
    /\ tracked' = tracked \cup cids
    /\ pinned' = IF pin THEN pinned \cup cids ELSE pinned \ cids

PinMedia(g) ==
    /\ JobAt(g, "pinmedia")
    /\ SetPinned(MediaBy(Other), job[g].pin)
    /\ JobGoto(g, "pinthumbs")
    /\ UNCHANGED <<temps, cas, rows, fetched, followed, eviction, history, bounds>>

PinThumbnails(g) ==
    /\ JobAt(g, "pinthumbs")
    /\ SetPinned(ThumbnailsBy(Other), job[g].pin)
    /\ FinishJob(g)
    /\ UNCHANGED <<cas, rows, fetched, followed, eviction, history, bounds>>

-----------------------------------------------------------------------------
\* Failures, eviction and restarts.

\* A statement or a file operation fails and the handler returns.
Fallible == {"chunks", "file", "insert", "fetched", "policy", "track", "publish",
             "put", "recompute", "pinmedia", "pinthumbs"}

Fail(g) ==
    /\ faults < MaxFaults
    /\ faults' = faults + 1
    /\ job[g].at \in Fallible
    /\ FinishJob(g)
    /\ UNCHANGED <<cas, rows, fetched, access, followed, eviction, history,
                   uploads, messages, changes>>

\* checkAndEvict: a batch of unpinned CIDs, then file and row of each.
ReadBatch ==
    /\ victims = {} /\ tracked \ pinned # {}
    /\ victims' = tracked \ pinned
    /\ UNCHANGED <<job, temps, cas, rows, fetched, access, followed, doomed, history, bounds>>

DeleteFile(c) ==
    /\ c \in victims /\ doomed = NoCid
    /\ cas' = cas \ {c}
    /\ doomed' = c
    /\ UNCHANGED <<job, temps, rows, fetched, access, followed, victims, history, bounds>>

DeleteContentAccess ==
    /\ doomed # NoCid
    /\ tracked' = tracked \ {doomed}
    /\ pinned' = pinned \ {doomed}
    /\ victims' = victims \ {doomed}
    /\ doomed' = NoCid
    /\ UNCHANGED <<job, temps, cas, rows, fetched, followed, history, bounds>>

\* A crash, and backfillPinnedContent before anything else runs.
CrashAndRestart ==
    LET pins == UNION {MediaBy(a) \cup ThumbnailsBy(a) : a \in {b \in {Own, Other} : ShouldPinAuthor(b)}} IN
    /\ faults < MaxFaults
    /\ faults' = faults + 1
    /\ leftBehind' = leftBehind + Cardinality({g \in Goroutine : job[g].upload})
    /\ job' = [g \in Goroutine |-> IdleJob]
    /\ victims' = {} /\ doomed' = NoCid
    /\ SetPinned(pins, TRUE)
    /\ UNCHANGED <<temps, cas, rows, fetched, followed, uploaded, contested,
                   uploads, messages, changes>>

MediaInit ==
    /\ job = [g \in Goroutine |-> IdleJob]
    /\ temps = 0 /\ cas = {} /\ rows = <<>> /\ fetched = {}
    /\ tracked = {} /\ pinned = {} /\ followed = FALSE
    /\ victims = {} /\ doomed = NoCid
    /\ uploaded = {} /\ contested = {} /\ leftBehind = 0
    /\ uploads = 0 /\ messages = 0 /\ changes = 0 /\ faults = 0

Upload(g) ==
    \/ UploadMedia(g) \/ StagePart(g) \/ RefuseBody(g) \/ AcceptFile(g) \/ RefuseFile(g)
    \/ StoreChunk(g) \/ StoreFile(g) \/ StoreThumbnail(g)
    \/ InsertOwn(g) \/ SetMediaFetched(g) \/ ReadPolicy(g) \/ Track(g) \/ Publish(g)

Read(g) ==
    \/ \E c \in Asked : GetMedia(g, c) \/ GetMediaThumbnail(g, c)
    \/ OpenStored(g) \/ OpenFetched(g) \/ OpenFails(g) \/ TrackAccess(g)

Follow(g) ==
    \/ \E add \in BOOLEAN : ChangeFollow(g, add)
    \/ RecomputePin(g) \/ PinMedia(g) \/ PinThumbnails(g)

Message ==
    \/ \E f \in Foreign : \E thumb \in {ThumbnailOf(f), NoCid} : HandleMediaObject(f, thumb)
    \/ \E g \in Goroutine, c \in Foreign, parent \in File : HandleMediaChunk(g, c, parent)
    \/ \E g \in Goroutine : PutChunk(g)

Evict == ReadBatch \/ (\E c \in victims : DeleteFile(c)) \/ DeleteContentAccess

MediaNext ==
    \/ \E g \in Goroutine : Upload(g) \/ Read(g) \/ Follow(g) \/ Fail(g)
    \/ Message \/ Evict \/ CrashAndRestart

MediaSpec == MediaInit /\ [][MediaNext]_mediaVars

-----------------------------------------------------------------------------

Chunks == Seq([cid : Cids, index : Nat])

Jobs ==
    [at : {"idle", "part", "chunks", "file", "thumbnail", "insert", "fetched", "policy",
           "track", "publish", "open", "access", "put", "recompute", "pinmedia",
           "pinthumbs"},
     upload : BOOLEAN, file : Cids, chunks : Chunks, thumb : Cids,
     todo : Seq(Cids), pin : BOOLEAN, row : BOOLEAN]

\* Jobs, store, tables and history keep their types.
MediaTypeOK ==
    /\ job \in [Goroutine -> Jobs] /\ temps \in Nat /\ leftBehind \in Nat
    /\ cas \subseteq Cids /\ tracked \subseteq Cids /\ pinned \subseteq Cids
    /\ victims \subseteq Cids /\ doomed \in Cids /\ contested \subseteq Cids
    /\ DOMAIN rows \subseteq File \cup Foreign
    /\ rows \in [DOMAIN rows -> [author : {Own, Other}, thumb : Cids]]
    /\ fetched \subseteq File /\ followed \in BOOLEAN
    /\ uploaded \subseteq [file : File, thumb : Cids, chunks : Chunks]
    /\ uploads \in Nat /\ messages \in Nat /\ changes \in Nat /\ faults \in Nat

CidsOf(m) == ({m.file, m.thumb} \ {NoCid}) \cup {m.chunks[i].cid : i \in DOMAIN m.chunks}

\* An upload that was answered with 201 is in the store with its thumbnail and
\* all its chunks and is pinned, unless another author sent one of these CIDs
\* or announced a file that shares the placeholder thumbnail, or somebody read
\* one of them before it was pinned (openContent tracks it then without a pin):
\* whatever failed before it, however evictions, later reads, follow changes,
\* uploads of files with the same chunks and restarts fall between its statements.
OwnUploadsKept ==
    \A m \in uploaded : CidsOf(m) \cap contested = {} => CidsOf(m) \subseteq cas \cap pinned

\* The chunks an upload publishes, in whatever order they arrive, are its file
\* again: also the last, shorter one, a file of exactly one chunk, and equal
\* chunks.
PublishedChunksAssemble ==
    \A m \in uploaded : \A order \in Bijection(DOMAIN m.chunks, DOMAIN m.chunks) :
        AssembleChunks([i \in DOMAIN m.chunks |-> m.chunks[order[i]]]) = m.file

\* A staged file is there as long as its upload runs, and is left behind only
\* by a crash and by a body that is refused after its file part.
StagedFilesOwned ==
    temps = leftBehind + Cardinality({g \in Goroutine : job[g].upload})

=============================================================================
