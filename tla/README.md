# Vaultflix: specifications and proofs

Vaultflix is a self-hosted video library: a Go API server over PostgreSQL and
MinIO, and a React client.  This directory specifies the parts of it that keep
state, in TLA+.  TLC checks every module on small instances; TLAPS proves the safety
properties that matter most for every value of the constants.

    tlc -config segment_cache.cfg MCSegmentCache     # a run
    tlapm SegmentCacheProofs.tla                     # the proofs of a part

Paths below are relative to the repository.  `PROJECT.json` names, for every
definition that models code, the lines it translates (`map`), the runs, the
theorems, the hazards and, for each property of each passing run, a mutant: a
plausible bug in the code under which the run fails.  The mutated definitions
stand next to the originals in the modules, marked as mutants.

## 1. Inventory

### 1.1 Parts modelled

**HLS segment cache** (`internal/streaming/segment_cache.go`, served by
`internal/handler/hls_handler.go`).  State: the map `videos` of per-Video size
and last access, the map `inflight` of segments being cut, both under `c.mu`,
and the files on disk.  Operations: `EnsureSegment` (find, wait, or cut with
ffmpeg), `evictLocked`, `Sweep`, `NewSegmentCache` (wipes the directory).  Called
by every player's segment request.  Hard: a request is several critical
sections with ffmpeg and file operations between them; others wait on a channel
the producer closes; eviction removes directories while other Videos are being
cut; ffmpeg, the client and `os.RemoveAll` may fail.  Correct when one ffmpeg
cuts a segment at a time, every waiter is woken, nobody's directory goes under
its feet, the account equals the disk, the cap holds when it can, and a path
returned is a path that exists.

**Job Lanes** (`internal/service/job_runner.go` with `backfill_runner.go`,
`import_job.go`, `enrichment_batch.go`, `media_lane.go`).  State: the latest
Job, the busy flag and the cancel channel under `r.mu`; the Job's goroutine.
Operations: `Start`, `Cancel`, `Active`/`Get`, the loop over the items,
`finish`.  It tells the world of a Job in two ways, the record pollers read and
the WebSocket messages.  Hard: the two are written at different moments, Cancel
comes at any of them, and Import and Backfill share one lane.  Correct when
record, lane and messages never contradict each other, the complete message is
the last, Cancel stops after the item in progress, and every Job ends.

**Keyframe Index and probing** (`internal/service/keyframe_service.go`,
`hls_service.go`, `internal/repository/keyframe_index_repo.go`).  State:
`inflight` and `failedAt` under `s.mu`, the stored indexes.  Operations:
`LookupOrProbe` (a play), `triggerProbe` and its goroutine, `EnsureIndex` (the
Import and Backfill lane).  Hard: the check of the store, the check of the
cooldown and the claim are three steps; files, stores and probes fail; the lane
and a background probe may index the same Video.  Correct when a Video has one
background probe, a failed one leaves nothing behind, a stored index is served
whatever an older failure says, failures are remembered for the cooldown, and
a good file is indexed in the end.

**WebSocket hub** (`internal/websocket/hub.go`, `client.go`,
`internal/handler/ws_handler.go`).  State: the registry, four channels, one
buffered channel and two goroutines per connection.  Operations: `Run`,
`SendToUser`, `Broadcast`, the pumps, the upgrade.  Hard: everything blocks on
everything (registration, queues, buffers), and slow peers are dropped while
the list that holds them is visited.  Correct when no closed channel is written
or closed again, a connection that gets a message has got every earlier one,
a caller's messages arrive in its order, no goroutine outlives its connection
and callers are not kept.

**Job views of the admin pages** (`web/src/hooks/useJob.ts`,
`web/src/lib/jobProgress.ts`, `jobKinds.ts`, `useMediaLane.ts`,
`useJobCancel.ts`) and the **browser WebSocket client**
(`web/src/hooks/useWebSocket.ts`), modelled in part.  State: the view, the last
end seen, the last end reported; one `lastMessage`.  A Job reaches the page by
the restore request, the start request (or the adoption after a 409) and
messages.  Hard: answers are snapshots that may be older than what the page
knows, messages are lost while the socket is down or when React renders once
for two of them.  Correct when an end seen is an end shown, it never becomes
another end, nor a running Job again unless the page has lost it, its counts are
the Job's, and a page does not show a Job running for ever.

**Accounts and authorization** (`internal/service/auth_service.go`,
`user_service.go`, `internal/repository/user_repo.go`, `internal/middleware/`,
`cmd/server/main.go`).  State: the users table and the tokens that are out;
the server keeps nothing else, every request reads its User again.  Operations:
register, log in, ask for a Stream Token, create, disable and enable Users,
reset passwords, the seed of the first admin and the command that resets its
password.  Hard: each is a lookup and a write with other calls between them, and
the process may end between any two statements.  Correct when some admin can log
in while the server serves, a username is given away once, a disabled User is
kept out on whatever token, and access ends.

**Watch History and Playback Session** (`web/src/lib/playbackSession.ts`,
`heartbeat.ts`, `history_service.go`, `watch_session_service.go`,
`playback_telemetry_service.go` and their repositories).  State: the closure of
one session in the page, the rows of the server.  The page sends progress,
heartbeats and telemetry, fire-and-forget.  Hard: reports are lost and overtake
each other, the page leaves in four ways and may come back, and a seek moves the
position before its event is heard.  Correct when the watch time that is stored
was played.

**Favorites and Tags**, **Daily Recommendation** (`favorite_service.go`,
`tag_service.go`, `recommendation_service.go`, their handlers and
repositories).  State: the rows users and admins attach to Videos.  Hard: tagging
and recommending check in statements of their own and then insert, while other
calls insert, remove and delete the Video.  Correct when the answers count what
is stored.

**Media Sources**, **Import and Backfill of one Video**, **Videos**
(`media_source_service.go`, `media_source_resolve.go`, `import_service.go`,
`import_file.go`, `media_processor.go`, `codec_backfill.go`,
`keyframe_backfill.go`, `preview_backfill.go`, `video_service.go`).  State: the
tables of Media Sources and Videos, the objects in MinIO, the item the Media Lane
works on.  Hard: an item is a file's discovery, two uploads and a row, each of
which may fail, beside admins who edit the Media Source and delete the Video, and
restarts.  Correct when a row names only objects that are stored.

**Presigned URLs** (`minio_service.go`, `url_cache.go`).  State: the remembered URLs.
Hard: signing, remembering and forgetting are three steps of concurrent calls,
and a URL is remembered some time after it was signed.  Correct when a URL that
is handed out still works for a while.

**Enrichment** (`enrichment_service.go`, `enrichment_accept_reject.go`,
`enrichment_batch.go`, `code_backfill.go`, the suggestion repository).  State: a
Video's Code, status and applied Metadata, its pending Suggestions, the staged
images.  Operations: enrich one Video, accept and reject, the batch with its
automatic accept, the Code Backfill.  Hard: a scrape is many uploads and
statements, and pages and batch decide from lists they read before.  Correct
when a Suggestion is applied once and while it is pending, and every image key
names an image that was stored, unless a source's page gave a path that looks like one.

**Segment Boundary table** (`keyframe_probe.go`, `segment_generator.go`).  State:
none; what ffprobe and ffmpeg answer about a file.  Hard: numeric edges, seeks
that land early, and lists with lost rows.  Correct when the Segments a player
fetches one after the other are the whole Video.

### 1.2 Parts not modelled

- **Player's stream source** (`streamSource.ts`, `useStreamSource.ts`): what may
  happen next is decided inside hls.js, of which the repository shows only the
  events it listens to.  Its calls into the Playback Session (a position set, a
  seek) are actions of `Watching`.
- **Remote resources and paged lists** (`useRemoteResource.ts`, `usePagedList.ts`):
  one page, one generation counter, one comparison per late answer.
- **Analytics**: SQL that only reads.
- **Scrapers**: HTML and HTTP.  `Enrichment` models what they return.
- **Configuration and wiring**: the models take from `cmd/server/main.go` which
  kinds share a lane, what SIGTERM cancels, the seed, and the routes' guards.
- **Pages and components**, **build, deployment and scripts**: rendering; no state
  of the program.

### 1.3 How the parts interact

The player asks `hls_service` for a playlist (Keyframe Index) and for Segments
(segment cache), which ffmpeg cuts by the Segment Boundary table; it reports to
Watch History.  Import and Backfill run on the Media Lane (Job Lanes), index
keyframes on it (`EnsureIndex`), and report through the hub, to the browser
client, to the Job views.  Enrichment batches run on a lane of their own.  Every
request but login and registration passes the middlewares of Accounts, and every
answer comes from one table of errors (`HttpAnswers`).  A Video's deletion takes
the rows about it along, and is an action of `Watching`, `Curation`, `Library` and
`Enrichment`.
The models meet where the code does: `JobPage` composes the lane with the page
that watches it, `KeyframeIndex` holds both the plays' probes and the lane's,
`Library` the lane's items beside the admins' calls, `Watching` the page and the
server it reports to.

## 2. Modules

| Module | Models or proves | Extends |
|---|---|---|
| `SegmentStore` | abstract: one maker per segment, a request answered only with a segment that was stored | |
| `SegmentCache`, `SegmentCacheProofs` | the HLS segment cache | `SegmentStore` by refinement |
| `Lane` | abstract: one Job at a time, each ends once and is told to have ended once | |
| `JobLane`, `JobLaneProofs` | Job Lanes | `Lane` by refinement |
| `KeyframeIndex`, `KeyframeIndexProofs` | Keyframe Index and probing | |
| `Hub`, `HubProofs` | the WebSocket hub and its connections | |
| `JobPage`, `JobPageProofs` | a page's Job view over its socket, composed with the lane | `JobLane`, `JobLaneProofs` |
| `HttpAnswers` | `writeError`: from an error to a status | |
| `Catalogue` | what the server's parts share: the Videos' ids, the slots of calls in flight | `HttpAnswers` |
| `Accounts`, `AccountsProofs` | Users, tokens, middlewares, start and restart | `Catalogue` |
| `Watching` | a Playback Session, its reports and the rows they end in | `Catalogue` |
| `Curation` | Favorites, Tags, Daily Recommendation | `Catalogue` |
| `ViewerProofs` | proofs about `Watching` and `Curation` | both |
| `Library` | Media Sources, Import and Backfill items, objects, deletion | `Catalogue` |
| `UrlCache` | presigned URLs | `Catalogue` |
| `Enrichment` | Suggestions, staged images, batch, Code Backfill | `Catalogue` |
| `SegmentTable` | the Segment Boundary table and the parts of a Segment | `Catalogue` |
| `AssetProofs` | proofs about `Library`, `UrlCache`, `Enrichment` and `SegmentTable` | all four |
| `MC*` | the instances TLC checks | |

### 2.1 How state and actions correspond to the code

Common to all: what the code does under one mutex, or in one channel operation,
is one action; between two actions anything else may happen.  A request, a
connection, a play or a probe is an element of a constant set, used again once
it is done.  On the server, every SQL statement and every upload is a step of its
own, and a transaction is one; a call answers in the step of its last statement.
Any statement may fail (`...Fails`, `CallEnds`), which ends its call or item.
Contents (paths, ffmpeg's output, messages' texts) are left out.

**SegmentCache.**  `phase[r]` is the place of request `r` in `EnsureSegment` and
`generate`.  `Hit`, `Join` and `Claim` are the outcomes of the first critical
section (on disk; being cut; claimed), `MakeDir`, `Cut`, `Publish` the file
operations, `Account` the critical section that adds the size and evicts,
`Release` and `Fail` the closing of the channel, `Abandon` a client that leaves
while it waits, `Open` the handler's opening of the path.  A waiter remembers
whose channel it blocks on (`waitOn`) and looks again from the start when it
is closed.  Times are only compared in the code, so `lastAccess` is the order
`older`.  `Sweep(idle)` takes any set of Videos that is oldest in that order:
whatever the clock says.

**JobLane.**  `job` is the record pollers read, `pc` the Job's goroutine, `sent`
the messages handed to the notifier in their order, each with the snapshot it
carried.  `List`, `Check` (with the cancel channel), `BeginItem`, `ItemStarted`,
`RunItem`, `ItemDone`, `Finish` (the complete message) and `Record` (the final
state and the lane's release) follow `run` and `finish` line by line.  A kind
in `QuietKinds` sends nothing when an item is done, as Enrichment batches do.
`cancelAt` is a history variable: how many items had run, or were past the loop's
check, when the cancel came, so that the item in progress is counted and no other.
`Active` is what a kind's status query answers: a Backfill's and an Enrichment's
(`RecentKinds`) also after the Job has ended, an Import's only while it runs.

**KeyframeIndex.**  A play is `Get` (the store), `Check` (the cooldown) and
`Trigger` (the claim in `inflight`); a probe is `ProbeFile`, `Store`, `Record`
and `Clear`.  `Lane` is the Media Lane's Job, which calls `EnsureIndex` without
`inflight`.  `good` are the Videos whose file ffprobe can read now; `faults`
says whether probes and stores may still fail.  `Restart` clears the memory
and keeps the store.  `sawIndex` and `held` are history variables.

**Hub.**  `registered` is the Hub's registry, `closed` the closed buffers,
`feed[c]` all that was ever put into `c`'s buffer and `taken[c]` how much the
writer took out.  `HubRegister`, `HubUnregister`, `HubTargeted`, `HubBroadcast`
and `HubStop` are the cases of `Run`'s select; `Call`/`Return` the two ends of a
`SendToUser` or `Broadcast` that blocks on a full queue.  `log[u]`, a history
variable, holds the messages `Run` took for `u`'s connections.

**JobPage.**  `restore` and `start` are requests in flight with the answer they
carry (`at` is where they stand), `received` how many of the lane's messages
the socket has brought, `lastMessage` the one React will see.  `Render` runs
the effects: `Follow` is `reduceJob`'s message part, `Snapshot` its snapshot
part, `Show` the comparison with the last end seen.  The page follows one kind
(`Mine`); the lane's other Jobs and other pages' starts go on beside it.
`shownEnd` is a history variable: with which end each Job has been shown, whatever
the page shows since.

**Accounts.**  `calls[s]` is the call in slot `s` and where it stands: `admit` (the
token is valid, `JWTAuth`; `RequireActiveUser` reads the User and the route's
guard decides), `lookup` (the service's check) and `write`.  `RouteAccess` is the
route table of `main.go`.  A User is never renamed or deleted, so its name is its
id.  `Boot` and `SeedAdmin` are what `main` does before it serves, `Crash` the end of
the process at any moment, `RunAdminReset` the maintenance command, a process of
its own.  `shut`, `login` and `created` are history: was a call's User disabled
when it arrived and ever since, when was a token's chain begun, and how often
was a username answered 201.

**Watching.**  `page` is the closure of `startPlaybackSession`; each DOM event it
hears is an action (`TimeUpdate`, `Seeking`, `Pause`, `Hidden`, `PageHide`, `End`) and
so is its timer.  `media` is the element: its position, and whether its last
seek has been announced.  `transit` is the bag of reports on their way, which
`Lose` and the server's actions take from in any order.  Positions are in half
seconds, so that `Math.floor` rounds.  `watch` is history: what was played, how
often the position was moved, samples that outran their seek's event, and the
seconds in transit.

**Curation.**  A call of one statement is one action; `AddVideoTag` and `Recommend`
keep a call's place in `curating`.  `told` is history: answers 201 less answers 204,
for each row a client may have been told of.  `ApplyTag` is what accepting a
Suggestion writes here.

**Library.**  `lane` is the Job that holds the Media Lane: its kind, the Media Source
it resolved once, the items it listed and the step of the one it works on;
`ListItems` and `NextItem` stand for `JobLane`'s loop.  `DeriveVideo`,
`MakeThumbnail`, `MakePreview` and `CreateVideo` are an Import's steps,
`ProbeCodecs`/`UpdateCodecs`, `EnsureIndex` and `BackfillPreview`/`UpdatePreviewKey` those of the
Backfills.  `objects` is the store; `deleting[s]` a deletion between the row and the
last of its objects.  `disk` is what is under the mounts and changes at any time.

**UrlCache.**  `asking[s]` is a `presignCached` call before `Get`, before it forgets an
expired entry, before signing and before `Set`.  `entries` is the map of
`url_cache.go`; time is in ticks.

**Enrichment.**  `workers` are the pages' calls and the batch's one worker; `at` is the
statement or upload they come to next.  `applied` stands for all the columns an
accepted Suggestion fills.  A staged image's key is the kind, the Code and the
source, as `asset_keys.go` makes it; `images` maps keys to what was uploaded last.
A Suggestion's `urls` are those of its images' URLs that begin like an object key:
in a legacy Suggestion (`LegacySuggestions`, there from the start) the key of an
uploaded image, in a new one a relative path on the source's page (`PathKey`, for
the kinds in `PathKinds`).  `StagedKey` reads the key first and such an URL
otherwise, as `stagedKey` does.  `applications` is history: how often each Suggestion
was applied.

**SegmentTable.**  `Table` is `GroupSegments`' loop over the keyframes the probe saw,
as a function of time: `Grouped` holds what the loop has built at each.
`Generate` is the seek, ffmpeg's list of parts (external: the seek lands on any
keyframe up to where it was told, rows of the list may be unreadable) and
`selectPartsFromList`.  A list is the set of its rows, which is in the order of
their keys, as ffmpeg writes it and the code reads and concatenates it.  Time is in half seconds; the code's tolerances below that
(`boundaryTol`, `maxStartDrift`) become exact comparisons, and its thresholds keep
their order: `readMargin` is shorter than the joined tail and the backoff, those than
`continuityTol` (`MaxGap`), and that than the target.

## 3. Runs

| Run | Instance | Distinct states | Shows |
|---|---|---|---|
| `segment_cache` | 3 requests, 3 Videos of 2 segments, room for 3 of 6 | 181 182 | producers, waiters, account, eviction |
| `segment_cache_faults` | 2 requests, 2 Videos of 2 segments, RemoveAll failing | 28 445 | refinement of `SegmentStore`, no waiter is forgotten, the account never exceeds the disk |
| `segment_cache_ready` | 2 requests, 2 Videos of 1 segment | 540 | *violation:* a path that was returned is gone when it is opened |
| `job_lane` | 2 Jobs of a reporting and a quiet kind, up to 3 items | 151 369 | record, lane and messages agree; cancellation; refinement of `Lane`; every Job ends |
| `job_lane_active` | 2 Jobs of 2 kinds, 1 item | 83 | *violation:* `Active` forgets the latest Backfill once an Import has started |
| `keyframe_index` | 2 plays and the lane, 1 Video, 2 probes | 145 472 | single probe, no leak, served index, cooldown, indexed in the end |
| `hub` | 1 user with 2 connections, 2 calls, a targeted queue of 2, other buffers of 1 | 82 216 | channels, gaps, order, no leak, callers get back |
| `hub_stop` | 1 connection, 2 calls, buffers of 1 | 2 396 | *violation:* a caller kept after SIGTERM |
| `job_page` | 2 Jobs of 2 kinds, 1 item, 1 drop of the socket | 3 592 465 | an end seen is shown, stays the Job's end and has the right counts |
| `job_page_stale` | the same without drops | 993 875 | *violation:* a page that shows a Job running for ever |
| `server` | the server's smaller parts, one in each behaviour: 2 Videos, 2 calls in flight | 2 594 588 | Accounts, Watching, Curation, Library, UrlCache, Enrichment, SegmentTable |
| `enrichment_covers` | 1 Video, 1 source, 2 contents of an image | 12-state trace | *violation:* staging again overwrites an accepted Cover |

`server` puts the parts that share no state in one instance: `part`, chosen at the
start, says which of them moves.  It asks eleven questions of them:

| Property | Part | Says |
|---|---|---|
| `AnAdminCanLogIn` | Accounts | while the server serves, some admin is not disabled, whatever start was interrupted |
| `CreatedOnce` | Accounts | of the calls racing for a username, one is answered 201 |
| `DisabledUsersStayOut` | Accounts | a call made while its User is disabled passes no middleware and no login |
| `AccessEnds` | Accounts | no chain of tokens outlives its login by more than one Stream Token |
| `WatchTimeIsPlayed` | Watching | stored, sent and pending seconds are within what was played |
| `AnswersBalance` | Curation | 201s less 204s are the rows there are |
| `RowsNameStoredObjects` | Library | a Thumbnail or Preview a row names is in the store |
| `ServedUrlsStillWork` | UrlCache | a URL handed out works for the leeway less a call's delay |
| `StagedImagesAreStored` | Enrichment | every image key, staged, legacy or accepted, was uploaded, or is a path its page gave |
| `AppliedOnlyWhilePending` | Enrichment | a Suggestion is applied once at most, while it is pending, and is gone then |
| `SegmentsTileTheVideo` | SegmentTable | boundaries meet, and a Segment holds every part of its own |

The parts' type invariants (`...TypeOK`) are not among them: those of `Accounts`,
`Library`, `UrlCache` and `Curation` are theorems (section 4), those of `Watching`,
`Enrichment` and `SegmentTable` document the variables.

### 3.1 Bounds, and why they are enough

*Segment cache.*  Three requests are a producer, a waiter and a producer whose
accounting evicts; three Videos of which the cache holds half are the current
one, one to evict and one to keep, so that the order of eviction and its early
end are both seen.  Every segment has size 1.  Symmetry (requests, Videos) is
used only in the safety run.

*Job lane.*  Two Jobs are the least in which one's late step can hit the next;
three items are the least in which a Job is cancelled with an item behind it
and two ahead.  The kind that reports items and the one that does not share the
instance's lane, so that a Job of either follows one of the other; in the code
they have lanes of their own, whose behaviours are among these.

*Keyframe index.*  `inflight` and `failedAt` never relate two Videos, so one
Video stands for each.  Two plays race each other; two probes leave room for a
second one beside the first, were it ever started, and the lane's is a third.

*Hub.*  The queue of targeted messages holds both calls, so that their order goes
through it; the one of broadcasts and the connections' buffers hold one, so that two
messages fill them, a second Broadcast has to wait and a peer that does not read is
dropped.  Two connections of one user let the list be changed while it is visited.
`hub_stop` needs a full targeted queue and has queues of one.

*Job page.*  Two Jobs and one drop: a late answer about the first Job meets
the second one or its end, and messages are lost in both ways there are.  Each of
`EndIsFinal`'s exceptions (an end told by an error message only, a later Job's end
in its place) occurs.

*Accounts.*  Two Users, the admin and another; two calls in flight are a check and
the write that comes between it and its own.  A Stream Token lives longer than
a login token, so that a chain of them would show; one tick lets a token expire.

*Watching.*  A Video of one second is two half seconds: a position that rounds and
one that does not.  One seek and three reports (progress, heartbeat, telemetry)
are the least in which a late sample, a leaving page and a lost report meet.

*Curation.*  One viewer, Tag and day, of two Videos, and two calls that race.  Two
recommendations may be made, deleted ones counted; one that meets a live row of its
Video and day is always tried and answered 409.

*Library.*  One Media Source, two mounts (one outside the allowed prefix) and one
path; its container is one a browser cannot play, so that the codec decides the
Play Mode.  Of two ids minted the second is imported after the first was deleted.

*UrlCache.*  Expiry 3, leeway 2 and a delay of 1 in ticks: an entry is set, hit,
expired and forgotten within six ticks, by two calls.

*Enrichment.*  One page beside the batch, one source, one Code, two Suggestions, of
which one may be a legacy one: a newly staged Suggestion is pending beside it, and
the page's accept and the batch's meet over either.  A page may name its Cover by a
path like a key, its Avatar not.  A legacy Suggestion's Video has that Suggestion's
Code.  The priority of several sources, and the fallback for Suggestions of sources
not scraped any more, are therefore not exercised by the run; the theorems hold for
any.

*SegmentTable.*  All sets of keyframes of files of up to eight half seconds, target
6, largest gap 3, tail and backoff 2, margin 1, in the order they have in the code:
one Segment or two and every kind of tail, with up to two lost rows: one that makes a
hole, of a size that passes or not, and one behind the Segment or next to it.

Calls, Jobs and items are finite, so in those models the system comes to rest
and their cfgs turn the deadlock check off; the segment cache and keyframe
models never rest and have it on.  In `server` a part may come to rest as well (a page
that ended, a Segment that was made).

### 3.2 Fairness, and why the code justifies it

*SegmentCache*: weak fairness of each request's own steps.  `c.mu` is never
held across a blocking call, and ffmpeg runs under a timeout.  Clients, the
sweeper and restarts owe nothing.  *JobLane*: weak fairness of the Job's
goroutine, which holds no lock over an item; that an item's own work ends is
assumed, and its processor's matter.  *KeyframeIndex*: the same for
plays and probes (`probeTimeout`), and for the passing of the cooldown;
`EventuallyIndexed` states its other premises itself.  *Hub*: weak fairness of
each pump (deadlines on reads and writes end them) and of each case of the
select; strong fairness of a blocked caller's return, since Go serves senders
on a channel in the order they came.  *JobPage*: the Job's goroutine runs, an
open socket delivers and the browser renders; requests may stay unanswered.  The parts of
`server` are checked for safety only: what their callers do next is up to users, and
no promise of theirs is that something happens in the end.

## 4. Proofs

Each part's safety theorem follows one argument: an inductive invariant, a lemma
per action that it is kept, and that it implies the property.  No instance is
assumed: the sets of Users, requests, Videos, connections, kinds and sources, the
buffers' sizes, lifetimes and the numbers of Jobs and items are arbitrary.  Each
theorem is about its own module's specification, as the composition of `MCServer`
only lets one part move.

| Theorem | Says |
|---|---|
| `SegmentCacheProofs!SingleProducer`, `NoLostWakeUp`, `DirectoryKept` | `[]OneProducer`, `[]WaitersHaveAProducer`, `[]ProducerKeepsItsDirectory` |
| `SegmentCacheProofs!AccountsMatchTheDisk` | `[]AccountMatchesDisk`, if directories are removed whole (`~RemoveFails`) |
| `SegmentCacheProofs!NothingCountedTwice` | `[]NeverOvercounts` |
| `SegmentCacheProofs!EvictionRestoresCapacity`, `EvictionIsLeastRecent` | `CapacityRestored`, `EvictsLeastRecent` |
| `SegmentCacheProofs!Implementation` | `Spec => Store!Spec` |
| `JobLaneProofs!LaneMatchesRecord`, `CountsAddUp` | `[]FinishedIffFree`, `[]CountsAgree` |
| `JobLaneProofs!CompleteMessages` | `[](CompleteIsLast /\ EarlierJobsCompleted)` |
| `JobLaneProofs!RecordedAsReported`, `CancelTakesEffect` | `[]ReportIsTheRecord`, `[]CancelStopsSoon` |
| `JobLaneProofs!Implementation` | `Spec => Promise!Spec` |
| `KeyframeIndexProofs!SingleProbe`, `NoLeakedProbe` | `[]OneBackgroundProbe`, `[]InflightIsRunning` |
| `KeyframeIndexProofs!AnswersAreFresh`, `FailuresAreRemembered` | `[]IndexedIsServed`, `[]CooldownStopsNewPlays` |
| `HubProofs!ChannelsOpen`, `NothingMissed`, `CallsInOrder` | `[]NoPanic`, `[]Gapless`, `[]CallOrder` |
| `JobPageProofs!LaneUnderneath` | the composition implements the lane: `SystemSpec => Spec` |
| `JobPageProofs!SeenEndShown`, `EndsAsTold`, `EndsAreFinal` | `[]ShowsSeenEnd`, `[]FinalCountsAgree`, `EndIsFinal` |
| `AccountsProofs!AdminAccess`, `OneCreation`, `DisabledStayOut`, `AccessIsBounded` | `[]AnAdminCanLogIn`, `[]CreatedOnce`, `[]DisabledUsersStayOut`, `[]AccessEnds` |
| `ViewerProofs!WatchTime`, `AnswersCount` | `[]WatchTimeIsPlayed`, `[]AnswersBalance` |
| `AssetProofs!ServedUrls`, `RowsNameStored` | `[]ServedUrlsStillWork`, `[]RowsNameStoredObjects` |
| `AssetProofs!StagedImages`, `AppliedWhilePending` | `[]StagedImagesAreStored`, `AppliedOnlyWhilePending` |
| `AssetProofs!SegmentsTile` | `[]SegmentsTileTheVideo` |
| `AssetProofs!CutAtKeyframes` | `[]WellCut`: inner boundaries are keyframes, and no Segment is a splinter |
| `TypeCorrect` in each of the first modules, `PageTypeCorrect`, `AccountTypes`, `LibraryTypes`, `UrlTypes`, `CurationTypes` | type correctness |

*Assumptions*, all named and evaluated by TLC on every run of their module: the
bounds and sizes are numbers, the `No...` values are not members of the sets
they stand outside of, and each connection has an owner among the users
(`CacheAssumption`, `BoundsAssumption`, `NoJobAssumption`, `KeyframeAssumption`,
`HubAssumption`, `PageAssumption`, `NoViewAssumption`, `CatalogueAssumption`,
`AccountsAssumption`, `WatchingAssumption`, `CurationAssumption`, `LibraryAssumption`,
`UrlCacheAssumption`, `EnrichmentAssumption`, `SegmentTableAssumption`).
`CurationAssumption` also keeps Tags, days, viewers and Videos apart, which only
serves the history variable `told`: a pair of ids is then one row's key.

*Inductive invariants.*

- `SegmentCacheProofs`: `TypeOK`, `AskedIffActive` (a request that is somewhere
  wants a segment), `OneProducer`, `WaitersHaveAProducer`,
  `ProducerKeepsItsDirectory` and `MadeIffPublished` (a producer past its rename
  has its file on disk; before it, nothing is), which the refinement needs.
  `AccountInv` adds that finitely many Videos and files are there, that a Video without
  a state has size zero, and that the access order is strict and total on the
  tracked ones (`Orders`).  A size is a number of bytes counted (`Total` is a
  `Cardinality`), so a sum of one Video more, of a part and of the same Videos
  are facts about finite sets.  What stays after an eviction is then found
  from the oldest Video that stays (`FirstOfFinite`): those before it were removed
  because the total did not fit yet.
- `JobLaneProofs`: `State` (`Held`: who holds the lane at which step; `Progress`:
  what the counts and the cancel channel say there) and `Messages` (nothing is
  sent of a Job not started, what the last message says, complete messages
  last and in order).  `Stopping` adds how many items may still be begun and run after
  a cancel at each step, and gives `CancelStopsSoon` for any number of items.
- `KeyframeIndexProofs`: `PlaysInv` (a play's step, what it saw, what is held
  against it) and `RunsInv` (each claim has its probe), and `NoLaneClear`: the
  lane's run never comes to the step that takes an entry out of `inflight`.
- `HubProofs`: `Registry`, that is `NoPanic`, `Open` (registered connections have
  open channels), `Fresh` (a connection not yet registered has got nothing)
  and `Gapless`; and `OrderInv`: the queue is the part of the accepted calls that
  `Run` has not served, so a connection's buffer and its log are in their order.
- `JobPageProofs`: the lane's `IInv`, `EndsSent` (a complete message carries an
  end), the page's types, `Known` (what the page remembers as ended is not
  running, and an answer on its way brings a Job) and `ShowsSeenEnd`.  What an
  end says needs more: `Told` and `Behind` (every Job the page was ever given is the
  record or one of its messages' snapshots, and none is ahead of the lane),
  `Views` and `EndedBy` (a view that shows an end has it from a complete message or
  from a failure), and `Failing` (a listing that failed ends with that error).
  That an end is final speaks of all Jobs shown so far: `ShownEnds` says that each
  end was told by a message (all of a Job's tell the same one, `OneEnd`) and is known
  from its complete message or a later Job's (`LastFinishedGrows`) unless an error told
  it; what brings such a Job back as running is then a late answer
  (`RevivedByLateAnswer`).
- `AccountsProofs`: `AccountsInv`.  A call keeps what the middlewares and its
  service's lookup established until its write: `CallsOK` says what that is (the
  token is still valid within the tick, its User was not disabled on arrival, a
  User about to be disabled is no admin), and no other call's statement takes it
  away, because roles never change and Users are never deleted.  `UsersOK` says
  that an active admin exists from the first row on, which is what makes a start
  that skips the seed safe; `TokensOK` bounds a chain of tokens by its login.
- `ViewerProofs`: `WatchInv` is an account.  Twice the seconds stored, in transit
  and pending (`Counted`), with the half seconds the next sample may count without
  more playing (`Slack`), are within what was played, a half second per seek and
  a delta per sample that outran its seek.  A seek pays for the slack it makes.
  `CurationInv` states the balance table by table, with `OnePick` (a Video has one
  live recommendation on a day), without which one answer 204 could leave another
  behind.  What the answers are is computed from `HttpAnswers`' rules (`Statuses`).
- `AssetProofs`: `UrlInv` bounds how long ago an entry's URL was signed.
  `LibraryInv`: an object is stored before a row names it, the lane's item carries
  only keys it stored, objects are removed only of Videos without a row, and an
  id is minted once, so no row comes back.  `EnrichmentInv`: workers and
  Suggestions carry only keys that were uploaded and URLs that are such a key or a path
  (`Carries`), ids are used once, and two readers of one Suggestion agree on what it
  holds; `AppliedOnce` adds that a Suggestion that was applied is not pending any more,
  and its id was issued, so that it never is again.  `SegmentInv` is what is known of
  a file, and the property itself.  It rests on `GroupedMeets`, the invariant of
  `GroupSegments`' loop: rows meet, are at least the target long and end at `cur`,
  a keyframe.  With the seek before the Segment (`LandsBefore`: the target is longer
  than the backoff), the window takes the Segment's own keyframes and no others
  (`WindowIsOwn`), and the two checks let a hole pass only if it is short or last.

*Model-checked only.*  Liveness and everything that speaks of ENABLED
(`EveryWaitEnds`, `EveryJobEnds`, `EventuallyIndexed`, `NoLeak`,
`CallsReturnWhileRunning`) is outside the prover's reach.
Every safety invariant and action property that a run checks has its theorem.
Two kinds of induction over data are stated without the library's rules that take an
operator: `LeastOf` and `FirstOfFinite` come from the well-foundedness of the
numbers and of finite sets, and an induction is a set of numbers that `Numbers` shows
to be all of them.
The full types of `Watching` and `Enrichment` (bags, `SelectSeq`) and of `SegmentTable`
are not theorems; their invariants hold the types that the arguments use.

## 5. Not modelled, and what the models leave out

The parts of 1.2.  Within the modelled parts:

- *Segment cache*: the temporary file's name and contents, ffmpeg's arguments,
  and the interval of the sweeper (it may run at any moment).
- *Job Lanes*: the list of failures (a bounded log), times, and what an item's
  processing does: it ends with one of three outcomes.
- *Keyframe index*: the contents of an index, and HLS manifests made of it.
- *Hub*: authentication of the upgrade, pings (a peer that does not answer is a
  broken one), message contents.
- *Job views*: error lists, item names, toasts; the limit on reconnection
  attempts, heartbeats and a change of token of the socket.  Only Import
  Jobs are followed; the other kinds share `useJob` and `reduceJob`.
- *Accounts*: hashes and signatures (a password or token is right or wrong), and
  the calls that belong to other parts, which end once they are admitted.
- *Watching*: the figures of telemetry, and the lists of History.
- *Curation*: lists, counts and today's list with its random fallback, which read;
  genre Tags of an accepted Suggestion are `ApplyTag` here, not in `Enrichment`.
- *Library*: how ffmpeg makes a Preview and its temporary files; titles and
  descriptions; Videos stored in MinIO by earlier versions, which nothing makes
  any more.
- *Enrichment*: the text of Metadata, and how a scraper finds a page; of an image's URL
  only whether it begins like an object key of its kind.
- *SegmentTable*: the manifest, which prints the table.
- Crashes are modelled where something outlives the process (files, rows, objects,
  stored indexes); the lane, the hub and the page keep nothing.

## 6. Disagreements

Five runs end in a violation; each checks one sentence the repository says of
itself.

- `segment_cache_ready`: `hls_service.go:63` says `Segment` returns "the path of a
  ready HLS Segment file".  A request holds nothing on the path it returned;
  another Video's accounting may evict it first, and the player gets a 404.
- `job_lane_active`: `backfill_runner.go:68-69` says `Active` returns "the most
  recently started job".  The lane keeps one record for both kinds: once an
  Import Job starts, the last Backfill is forgotten.
- `hub_stop`: `hub.go:14` says a message for a user who is not online is "silently
  ignored".  SIGTERM stops the Hub only; the server and its Jobs go on and block
  on the full queue.
- `job_page_stale`: `useJob.ts:85-87` says "the view self-corrects".  It does not
  when the complete message itself is the one that is missed.
- `enrichment_covers`: `asset_keys.go:28` says a staged Cover's key "is scoped by
  Code and source so staging never overwrites an accepted Cover".  Enrich a Video,
  accept, enrich it again when the source shows another image: the key is the
  same, and the accepted Cover is replaced before anyone accepts the new one.

Others were met while modelling.  No run states them.

- `useJob.ts:97` reports "each job's end once".  One id is remembered: a restore
  answer that was delayed while its Job and a whole second one ran shows the
  first Job's end again, and reports it again.
- `useJob.ts`: only `finished` events set `lastFinishedRef`, which keeps one Job.  A
  Job whose end was dismissed or replaced comes back as running with a late answer, if
  an error message was all that told its end or a later Job's end took its place:
  `EndIsFinal` states these two cases as its exception.
- `keyframe_service.go:45-47`: "polling does not rerun ffprobe until
  probeFailureCooldown has passed".  A play that read `failedAt` before the
  failure was recorded claims the Video after the failed probe cleared it, and
  runs it again; `CooldownStopsNewPlays` states what does hold.
- `README.md:187` calls `TRANSCODE_CACHE_MAX_BYTES` a size cap.  The Video being
  played is never evicted, so it may exceed the cap by itself;
  `CapacityRestored` states when.
- `README.md:47`: Suggestions are "never auto-applied".  A batch with
  `auto_accept` applies them (`enrichment_batch.go:83-86`).
- `enrichment_accept_reject.go:147-148`: rejecting the last of a Video's
  Suggestions resets its status to `none` even when another one was accepted
  before; the Code Backfill, meant for Videos "Enrichment has never looked at"
  (`code_backfill.go:19-21`), then overwrites the accepted Code.
- `enrichment_accept_reject.go:62-67`: `stagedKey` returns "" when no image was
  uploaded.  A source's page that names its Cover by a relative path beginning
  "covers/" (`javbus.go:183` leaves such a path as it is) has nothing uploaded, and the
  path is read as a legacy key: accepting its Suggestion replaces the Video's Cover by
  a name of nothing.  `StagedImagesAreStored` states this as its exception.
- `user_repo.go:16`: `Create` "returns ErrAlreadyExists" for a taken name.  It returns
  the driver's error, so of two racing calls one is answered 500, not 409.
- `DisableUser` and `EnableUser` return `ErrNotFound` for a User that is disabled, or
  enabled, already.
- `model/errors.go:27`: an Import of a disabled Media Source is refused.  One that
  is disabled while its Import runs is read to the end.
- Rejecting, enriching and accepting at once may leave a Video with status `none` and
  Suggestions pending, or an enriched one with Suggestions.
- `playbackSession.ts` guards against counting a seek as watching by the `seeking`
  event; a `timeupdate` that comes before it counts up to one capped delta
  (`WatchTimeIsPlayed` has a term for it).  Progress reports that overtake each
  other leave an older position.
- `minio_service.go:194-198`: "a cached URL never returns within the leeway window".
  The cache counts from `Set`, the signature from before it: the call's delay is
  missing, as `ServedUrlsStillWork` says.
- `segment_generator.go`: a part missing in the middle is said to be caught always.
  A lost one no longer than `continuityTol` passes; `SegmentsTileTheVideo` says so.
- `GroupSegments` makes the last Segment's duration negative when the format's
  duration ends a target or more before the last keyframe.
- A scraper's `lastReq` is shared by the batch and a page's call without a lock.
- A 404 from one of the sources is reported as unavailable, not as an unknown Code.

## 7. Where this may go on

- The Preview's cutting (`preview_clip.go`), with its temporary files under a failing
  or interrupted ffmpeg.
- The player's stream source, once its assumptions about hls.js are written down.
- Composition: `Library`'s items under `JobLane` itself, and `Curation`'s Tags with the
  Suggestion that brings them.
