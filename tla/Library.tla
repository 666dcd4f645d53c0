------------------------------ MODULE Library -------------------------------
(***************************************************************************)
(* Media Sources, the Videos imported from them, and the object store that *)
(* holds their Thumbnails and Previews: Import and the codec, keyframe and *)
(* preview Backfills item by item, beside the admin's edits of Media       *)
(* Sources and deletion of Videos, over restarts of the server.            *)
(*                                                                         *)
(* A Video's id is minted by its Import and never used again, and the keys *)
(* of its objects are made from it: a row names its Thumbnail and Preview  *)
(* or leaves the key empty.  The Job Lane runs one Job at a time.          *)
(***************************************************************************)
EXTENDS Catalogue

CONSTANTS Sources,  \* ids of Media Sources
          Mounts,   \* mount paths, inside the allowed prefix or not
          Prefixed, \* those inside it
          Paths,    \* paths of files, relative to a mount
          Mp4Paths, \* those whose container a browser plays
          Deleters, \* bound: deletions in flight
          NoSource, NoRecord, NoItem

ASSUME LibraryAssumption ==
    /\ Prefixed \subseteq Mounts /\ Mp4Paths \subseteq Paths
    /\ NoSource \notin Sources
    /\ NoRecord \notin [mount : Mounts, enabled : BOOLEAN]

VARIABLES
    disk,     \* the files present under the allowed prefix, <<mount, path>>
    sources,  \* the media_sources table
    rows,     \* the videos table
    minted,   \* Video ids in use or used up
    objects,  \* the object store: <<kind, Video>>
    lane,     \* the Job that holds the Job Lane, and the item it works on
    deleting  \* deleting[s]: the deletion of caller s

libraryVars == <<disk, sources, rows, minted, objects, lane, deleting>>

Codecs == {"", "h264 aac", "hevc ac3"}
Kind == {"thumbnail", "preview"}
Source == [mount : Mounts, enabled : BOOLEAN]
VideoRow == [source : Sources \cup {NoSource}, path : Paths, codecs : Codecs,
             keys : SUBSET Kind, index : BOOLEAN]
\* What an item of a Job knows of its Video: the columns as the Job listed them.
Item == [video : Videos \cup {NoVideo}, source : Sources \cup {NoSource}, path : Paths,
         codecs : Codecs]
FreeLane == [kind |-> "none", at |-> "next", source |-> NoSource, mount |-> NoItem,
             todo |-> {}, item |-> NoItem, keys |-> {}]
NoDeletion == [at |-> "idle", video |-> NoVideo, keys |-> {}]

LibraryTypeOK ==
    /\ disk \subseteq Prefixed \X Paths
    /\ sources \in [Sources -> Source \cup {NoRecord}]
    /\ rows \in [Videos -> VideoRow \cup {NoRecord}]
    /\ minted \subseteq Videos
    /\ objects \subseteq Kind \X Videos
    /\ lane \in [kind : {"none", "import", "codec", "keyframe", "preview"},
                 at : {"list", "next", "find", "probe", "thumbnail", "preview", "write", "index"},
                 source : Sources \cup {NoSource}, mount : Mounts \cup {NoItem},
                 todo : SUBSET Item, item : Item \cup {NoItem}, keys : SUBSET Kind]
    /\ deleting \in [Deleters -> [at : {"idle", "read", "row", "thumbnail", "preview"},
                               video : Videos \cup {NoVideo}, keys : SUBSET Kind]]

LibraryInit ==
    /\ disk = Prefixed \X Paths
    /\ sources = [i \in Sources |-> NoRecord]
    /\ rows = [v \in Videos |-> NoRecord]
    /\ minted = {} /\ objects = {}
    /\ lane = FreeLane
    /\ deleting = [s \in Deleters |-> NoDeletion]

Live == {v \in Videos : rows[v] # NoRecord}

-----------------------------------------------------------------------------
\* Media Sources.

\* ValidateMountPath, then the table's unique mount path.
ValidMount(m) == m \in Prefixed

InsertSource(i, m) ==
    IF \E j \in Sources : sources[j] # NoRecord /\ sources[j].mount = m
    THEN sources
    ELSE [sources EXCEPT ![i] = [mount |-> m, enabled |-> TRUE]]

CreateSource ==
    /\ \E i \in Sources, m \in Mounts :
         /\ sources[i] = NoRecord
         /\ ~\E v \in Live : rows[v].source = i
         /\ lane.source # i
         /\ sources' = IF ValidMount(m) THEN InsertSource(i, m) ELSE sources
    /\ UNCHANGED <<disk, rows, minted, objects, lane, deleting>>

UpdateSource ==
    /\ \E i \in Sources, on \in BOOLEAN :
         /\ sources[i] # NoRecord
         /\ sources' = [sources EXCEPT ![i].enabled = on]
    /\ UNCHANGED <<disk, rows, minted, objects, lane, deleting>>

\* The Videos of a deleted Media Source stay, without one (ON DELETE SET NULL).
DeleteSource ==
    /\ \E i \in Sources :
         /\ sources[i] # NoRecord
         /\ sources' = [sources EXCEPT ![i] = NoRecord]
         /\ rows' = [v \in Videos |-> IF v \in Live /\ rows[v].source = i
                                      THEN [rows[v] EXCEPT !.source = NoSource] ELSE rows[v]]
    /\ UNCHANGED <<disk, minted, objects, lane, deleting>>

\* ResolveFile: the one rule from a Video's columns to a file on disk.
ResolveFile(i, path) ==
    IF sources[i] = NoRecord THEN {"not_found"}
    ELSE IF ~sources[i].enabled THEN {"source_disabled"}
    ELSE IF ~ValidMount(sources[i].mount) THEN {"path_not_allowed"}
    ELSE IF <<sources[i].mount, path>> \notin disk THEN {"path_not_exist"}
    ELSE NoError

ResolveVideoFile(x) ==
    IF x.source = NoSource THEN PlainError ELSE ResolveFile(x.source, x.path)

-----------------------------------------------------------------------------
\* The object store: putting an object may fail, removing one that is not there does not.

Put(kind, v) == objects' = objects \cup {<<kind, v>>}
Remove(kind, v) == objects' = objects \ {<<kind, v>>}

-----------------------------------------------------------------------------
\* Jobs.

PlayMode(path, codecs) ==
    IF codecs # "h264 aac" THEN "transcode" ELSE IF path \in Mp4Paths THEN "direct" ELSE "remux"

UsesKeyframeIndex(path, codecs) == PlayMode(path, codecs) = "remux"

StartJob(kind, i) ==
    /\ lane.kind = "none"
    /\ lane' = [FreeLane EXCEPT !.kind = kind, !.at = "list", !.source = i,
                                !.mount = IF i = NoSource THEN NoItem ELSE sources[i].mount]
    /\ UNCHANGED <<disk, sources, rows, minted, objects, deleting>>

\* An Import keeps the Media Source as it was when it started.
StartImport == \E i \in Sources :
    sources[i] # NoRecord /\ sources[i].enabled /\ StartJob("import", i)

StartBackfill == \E kind \in {"codec", "keyframe", "preview"} : StartJob(kind, NoSource)

\* What each kind of Job lists.
ScanVideoFiles == {p \in Paths : <<lane.mount, p>> \in disk}
MissingCodecs == {v \in Live : rows[v].codecs = "" /\ rows[v].source # NoSource}
KeyframeCandidates == {v \in Live : /\ rows[v].codecs # "" /\ ~rows[v].index
                                     /\ rows[v].source # NoSource
                                     /\ UsesKeyframeIndex(rows[v].path, rows[v].codecs)}
MissingPreviews == {v \in Live : "preview" \notin rows[v].keys}

ListedItems ==
    IF lane.kind = "import"
    THEN [video : {NoVideo}, source : {lane.source}, path : ScanVideoFiles, codecs : {""}]
    ELSE {[video |-> v, source |-> rows[v].source, path |-> rows[v].path,
           codecs |-> rows[v].codecs] :
          v \in CASE lane.kind = "codec" -> MissingCodecs
                 [] lane.kind = "keyframe" -> KeyframeCandidates
                 [] lane.kind = "preview" -> MissingPreviews}

\* A Job that cannot list its items ends.
ListItems ==
    /\ lane.at = "list"
    /\ lane' \in {[lane EXCEPT !.at = "next", !.todo = ListedItems], FreeLane}
    /\ UNCHANGED <<disk, sources, rows, minted, objects, deleting>>

NextItem ==
    /\ lane.kind # "none" /\ lane.at = "next"
    /\ lane' \in IF lane.todo = {} THEN {FreeLane}
                 ELSE {[lane EXCEPT !.at = "find", !.todo = @ \ {x}, !.item = x, !.keys = {}] :
                       x \in lane.todo}
    /\ UNCHANGED <<disk, sources, rows, minted, objects, deleting>>

Step(at) == lane' = [lane EXCEPT !.at = at]
ItemDone == Step("next")

\* What fails the item: a statement, a probe, ffmpeg or an upload.
ItemFails ==
    /\ lane.at \in {"find", "probe", "thumbnail", "write"}
    /\ ItemDone
    /\ UNCHANGED <<disk, sources, rows, minted, objects, deleting>>

\* processOneFile and deriveVideo, in their order.
Registered(i, path) == \E v \in Live : rows[v].source = i /\ rows[v].path = path

FindBySourceAndPath ==
    /\ lane.kind = "import" /\ lane.at = "find"
    /\ IF Registered(lane.item.source, lane.item.path) THEN ItemDone ELSE Step("probe")
    /\ UNCHANGED <<disk, sources, rows, minted, objects, deleting>>

DeriveVideo ==
    /\ lane.kind = "import" /\ lane.at = "probe"
    /\ <<lane.mount, lane.item.path>> \in disk
    /\ \E v \in Videos \ minted, c \in Codecs :
         /\ minted' = minted \cup {v}
         /\ lane' = [lane EXCEPT !.at = "thumbnail", !.item.video = v, !.item.codecs = c]
    /\ UNCHANGED <<disk, sources, rows, objects, deleting>>

MakeThumbnail ==
    /\ lane.kind = "import" /\ lane.at = "thumbnail"
    /\ Put("thumbnail", lane.item.video)
    /\ lane' = [lane EXCEPT !.at = "preview", !.keys = {"thumbnail"}]
    /\ UNCHANGED <<disk, sources, rows, minted, deleting>>

\* Mutant: the key is kept for a Preview that was not made.
PreviewKeysAlways(keys, made) == keys \cup {"preview"}

\* The keys the row will hold: without a Preview the key stays empty.
PreviewKeys(keys, made) == IF made THEN keys \cup {"preview"} ELSE keys

MakePreview ==
    /\ lane.kind = "import" /\ lane.at = "preview"
    /\ \E made \in BOOLEAN :
         /\ IF made THEN Put("preview", lane.item.video) ELSE UNCHANGED objects
         /\ lane' = [lane EXCEPT !.at = "write", !.keys = PreviewKeys(@, made)]
    /\ UNCHANGED <<disk, sources, rows, minted, deleting>>

\* The foreign key on source_id and the unique (source_id, file_path).
CreateVideo ==
    /\ lane.kind = "import" /\ lane.at = "write"
    /\ IF sources[lane.item.source] = NoRecord \/ Registered(lane.item.source, lane.item.path)
       THEN ItemDone /\ UNCHANGED rows
       ELSE /\ rows' = [rows EXCEPT ![lane.item.video] =
                          [source |-> lane.item.source, path |-> lane.item.path,
                           codecs |-> lane.item.codecs, keys |-> lane.keys, index |-> FALSE]]
            /\ Step("index")
    /\ UNCHANGED <<disk, sources, minted, objects, deleting>>

\* EnsureIndex on the Video at hand: it may fail, and only logs.
EnsureIndex ==
    /\ lane.at = "index"
    /\ LET x == lane.item
       IN  rows' \in {rows} \cup
             (IF x.video \in Live /\ UsesKeyframeIndex(x.path, x.codecs)
              THEN {[rows EXCEPT ![x.video].index = TRUE]} ELSE {})
    /\ ItemDone
    /\ UNCHANGED <<disk, sources, minted, objects, deleting>>

\* A Backfill's ProcessOne: resolve the file, or the item is skipped or fails.
ResolveItem ==
    /\ lane.kind \in {"codec", "keyframe", "preview"} /\ lane.at = "find"
    /\ ResolveVideoFile(lane.item) = NoError
    /\ Step(IF lane.kind = "keyframe" THEN "index" ELSE "probe")
    /\ UNCHANGED <<disk, sources, rows, minted, objects, deleting>>

ProbeCodecs ==
    /\ lane.kind = "codec" /\ lane.at = "probe"
    /\ \E c \in Codecs : lane' = [lane EXCEPT !.at = "write", !.item.codecs = c]
    /\ UNCHANGED <<disk, sources, rows, minted, objects, deleting>>

UpdateCodecs ==
    /\ lane.kind = "codec" /\ lane.at = "write"
    /\ IF rows[lane.item.video] = NoRecord THEN ItemDone /\ UNCHANGED rows
       ELSE /\ rows' = [rows EXCEPT ![lane.item.video].codecs = lane.item.codecs]
            /\ Step("index")
    /\ UNCHANGED <<disk, sources, minted, objects, deleting>>

BackfillPreview ==
    /\ lane.kind = "preview" /\ lane.at = "probe"
    /\ Put("preview", lane.item.video) /\ Step("write")
    /\ UNCHANGED <<disk, sources, rows, minted, deleting>>

\* A Video deleted meanwhile leaves the object without a row.
UpdatePreviewKey ==
    /\ lane.kind = "preview" /\ lane.at = "write"
    /\ rows' = IF rows[lane.item.video] = NoRecord THEN rows
               ELSE [rows EXCEPT ![lane.item.video].keys = @ \cup {"preview"}]
    /\ ItemDone
    /\ UNCHANGED <<disk, sources, minted, objects, deleting>>

\* A cancelled Job stops between items.
CancelJob ==
    /\ lane.kind # "none" /\ lane.at = "next"
    /\ lane' = FreeLane
    /\ UNCHANGED <<disk, sources, rows, minted, objects, deleting>>

-----------------------------------------------------------------------------
\* VideoService.Delete: read the keys, delete the row, then the objects.

GetVideoForDeletion(s) ==
    /\ deleting[s].at = "idle"
    /\ \E v \in Live : deleting' = [deleting EXCEPT ![s] =
                                      [at |-> "row", video |-> v, keys |-> rows[v].keys]]
    /\ UNCHANGED <<disk, sources, rows, minted, objects, lane>>

\* The row goes first; a Video another call has deleted is not found.
DeleteRow(s) ==
    /\ deleting[s].at = "row"
    /\ LET v == deleting[s].video
       IN  /\ rows' = [rows EXCEPT ![v] = NoRecord]
           /\ deleting' = [deleting EXCEPT ![s] =
                             IF v \in Live THEN [@ EXCEPT !.at = "thumbnail"] ELSE NoDeletion]
    /\ UNCHANGED <<disk, sources, minted, objects, lane>>

DeletionFails(s) ==
    /\ deleting[s].at = "row"
    /\ deleting' = [deleting EXCEPT ![s] = NoDeletion]
    /\ UNCHANGED <<disk, sources, rows, minted, objects, lane>>

\* Best effort: an object that cannot be removed is left behind.
DeleteObjects(s) ==
    /\ deleting[s].at \in Kind
    /\ LET kind == deleting[s].at  v == deleting[s].video
       IN  /\ \/ kind \in deleting[s].keys /\ Remove(kind, v)
              \/ UNCHANGED objects
           /\ deleting' = [deleting EXCEPT ![s] =
                             IF kind = "thumbnail" THEN [@ EXCEPT !.at = "preview"] ELSE NoDeletion]
    /\ UNCHANGED <<disk, sources, rows, minted, lane>>

-----------------------------------------------------------------------------
\* Files come and go, and the server restarts: Jobs and calls end, rows stay.

FilesChange ==
    /\ \E f \in Prefixed \X Paths : disk' \in {disk \cup {f}, disk \ {f}}
    /\ UNCHANGED <<sources, rows, minted, objects, lane, deleting>>

ServerRestart ==
    /\ lane' = FreeLane
    /\ deleting' = [s \in Deleters |-> NoDeletion]
    /\ UNCHANGED <<disk, sources, rows, minted, objects>>

LibraryNext ==
    \/ CreateSource \/ UpdateSource \/ DeleteSource
    \/ StartImport \/ StartBackfill \/ ListItems \/ NextItem \/ ItemFails \/ CancelJob
    \/ FindBySourceAndPath \/ DeriveVideo \/ MakeThumbnail \/ MakePreview \/ CreateVideo
    \/ EnsureIndex \/ ResolveItem \/ ProbeCodecs \/ UpdateCodecs
    \/ BackfillPreview \/ UpdatePreviewKey
    \/ \E s \in Deleters : GetVideoForDeletion(s) \/ DeleteRow(s) \/ DeleteObjects(s) \/ DeletionFails(s)
    \/ FilesChange \/ ServerRestart

LibrarySpec == LibraryInit /\ [][LibraryNext]_libraryVars

-----------------------------------------------------------------------------
\* A Video's row never names an object that is not stored, whatever step of an
\* Import, a Backfill or a deletion fails, races or is cut off by a restart:
\* pages get a URL that works or none (processOneFile, PreviewBackfill,
\* VideoService.Delete).
RowsNameStoredObjects ==
    \A v \in Live : \A kind \in rows[v].keys : <<kind, v>> \in objects
=============================================================================
