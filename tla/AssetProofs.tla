----------------------------- MODULE AssetProofs ----------------------------
(***************************************************************************)
(* Theorems about what the object store holds and the URLs that reach it:  *)
(* UrlCache, Library and Enrichment, for any Videos, Media Sources, files, *)
(* scrapers, callers, expiry and leeway; and about the HLS Segments cut    *)
(* from a file, for any keyframes and thresholds.                          *)
(***************************************************************************)
EXTENDS Library, UrlCache, Enrichment, SegmentTable, WellFoundedInduction, TLAPS

(***************************************************************************)
(* UrlCache: a call holds a URL for at most MaxDelay ticks before it is    *)
(* remembered or answered.                                                 *)
(***************************************************************************)
\* Signed at the call's start or later, and the call is MaxDelay ticks old at most.
CallsAreShort ==
    \A s \in Slots : asking[s] # NoAsk =>
        /\ asking[s].since <= tick /\ tick <= asking[s].since + MaxDelay
        /\ asking[s].at = "set" => asking[s].url >= asking[s].since + Expiry

\* An entry is forgotten the leeway before its URL ends, less a call's delay.
EntriesEndEarly ==
    \A o \in Objects : entries[o] # NoEntry =>
        entries[o].url + MaxDelay >= entries[o].until + Leeway

UrlInv == UrlCacheTypeOK /\ CallsAreShort /\ EntriesEndEarly /\ ServedUrlsStillWork

LEMMA UrlInit == UrlCacheInit => UrlInv
BY UrlCacheAssumption
   DEF UrlCacheInit, UrlInv, UrlCacheTypeOK, Asks, CallsAreShort, EntriesEndEarly, ServedUrlsStillWork

LEMMA UrlStep == UrlInv /\ [UrlCacheNext]_urlVars => UrlInv'
<1> SUFFICES ASSUME UrlInv, [UrlCacheNext]_urlVars PROVE UrlInv'
  OBVIOUS
<1> USE UrlCacheAssumption
<1>1. ASSUME NEW s \in Slots, Ask(s) PROVE UrlInv'
  BY <1>1 DEF Ask, UrlInv, UrlCacheTypeOK, Asks, NoAsk, CallsAreShort, EntriesEndEarly, ServedUrlsStillWork
<1>2. ASSUME NEW s \in Slots, GetUrl(s) PROVE UrlInv'
  BY <1>2 DEF GetUrl, Answer, UrlInv, UrlCacheTypeOK, Asks, NoAsk, CallsAreShort, EntriesEndEarly, ServedUrlsStillWork
<1>3. ASSUME NEW s \in Slots, ForgetUrl(s) PROVE UrlInv'
  BY <1>3 DEF ForgetUrl, UrlInv, UrlCacheTypeOK, Asks, NoAsk, CallsAreShort, EntriesEndEarly, ServedUrlsStillWork
<1>4. ASSUME NEW s \in Slots, Presign(s) PROVE UrlInv'
  <2>1. asking[s] \in [at : {"get", "forget", "sign", "set"}, object : Objects, since : Nat, url : Nat]
    BY <1>4 DEF Presign, UrlInv, UrlCacheTypeOK, Asks, NoAsk
  <2>2. asking'[s] = [at |-> "set", object |-> asking[s].object, since |-> asking[s].since,
                      url |-> tick + Expiry]
    BY <1>4, <2>1 DEF Presign, UrlInv, UrlCacheTypeOK
  <2>3. \A x \in Slots \ {s} : asking'[x] = asking[x]
    BY <1>4 DEF Presign, UrlInv, UrlCacheTypeOK
  <2>4. asking' \in [Slots -> Asks]
    <3>1. tick + Expiry \in Nat
      BY DEF UrlInv, UrlCacheTypeOK
    <3>2. asking'[s] \in Asks
      BY <2>1, <2>2, <3>1 DEF Asks
    <3>3. DOMAIN asking' = Slots /\ asking' = [x \in Slots |-> asking'[x]]
      BY <1>4 DEF Presign, UrlInv, UrlCacheTypeOK
    <3> QED
      BY <2>3, <3>2, <3>3 DEF UrlInv, UrlCacheTypeOK
  <2> QED
    BY <1>4, <2>1, <2>2, <2>3, <2>4
    DEF Presign, UrlInv, UrlCacheTypeOK, NoAsk, CallsAreShort, EntriesEndEarly, ServedUrlsStillWork
<1>5. ASSUME NEW s \in Slots, SetUrl(s) PROVE UrlInv'
  BY <1>5 DEF SetUrl, Answer, CacheLife, UrlInv, UrlCacheTypeOK, Asks, NoAsk, CallsAreShort, EntriesEndEarly, ServedUrlsStillWork
<1>6. CASE UrlTick
  BY <1>6 DEF UrlTick, UrlInv, UrlCacheTypeOK, Asks, NoAsk, CallsAreShort, EntriesEndEarly, ServedUrlsStillWork
<1>7. CASE UNCHANGED urlVars
  BY <1>7 DEF urlVars, UrlInv, UrlCacheTypeOK, Asks, CallsAreShort, EntriesEndEarly, ServedUrlsStillWork
<1> QED
  BY <1>1, <1>2, <1>3, <1>4, <1>5, <1>6, <1>7 DEF UrlCacheNext

\* A URL that is handed out works for the leeway, less the time a call may take
\* between signing and remembering (presignCached), for any number of objects
\* and calls and any expiry.
THEOREM ServedUrls == UrlCacheSpec => []ServedUrlsStillWork
<1>1. UrlInv => ServedUrlsStillWork
  BY DEF UrlInv
<1> QED
  BY <1>1, UrlInit, UrlStep, PTL DEF UrlCacheSpec

\* Calls and entries keep their types (url_cache.go).
THEOREM UrlTypes == UrlCacheSpec => []UrlCacheTypeOK
<1>1. UrlInv => UrlCacheTypeOK
  BY DEF UrlInv
<1> QED
  BY <1>1, UrlInit, UrlStep, PTL DEF UrlCacheSpec

-----------------------------------------------------------------------------
(***************************************************************************)
(* Library: an object is stored before a row names it, and removed only    *)
(* when the row is gone; no row comes back, as an id is minted once.       *)
(***************************************************************************)
Importing == lane.kind = "import" /\ lane.at \in {"thumbnail", "preview", "write"}
Backfilling == {"codec", "keyframe", "preview"}

\* The lane works on what it listed.
LaneOK ==
    /\ lane \in [kind : {"none", "import", "codec", "keyframe", "preview"},
                 at : {"list", "next", "find", "probe", "thumbnail", "preview", "write", "index"},
                 source : Sources \cup {NoSource}, mount : Mounts \cup {NoItem},
                 todo : SUBSET Item, item : Item \cup {NoItem}, keys : SUBSET Kind]
    /\ lane.kind = "none" => lane.at = "next"
    /\ lane.kind = "import" => lane.source \in Sources /\ \A x \in lane.todo : x.source \in Sources
    /\ lane.kind \in Backfilling => \A x \in lane.todo : x.video \in Videos
    /\ lane.at \notin {"list", "next"} => lane.item \in Item
    /\ lane.kind = "import" /\ lane.at \notin {"list", "next"} => lane.item.source \in Sources
    /\ lane.kind \in Backfilling /\ lane.at \notin {"list", "next"} => lane.item.video \in Videos

TableOK ==
    /\ sources \in [Sources -> Source \cup {NoRecord}]
    /\ rows \in [Videos -> VideoRow \cup {NoRecord}]
    /\ minted \subseteq Videos
    /\ objects \subseteq Kind \X Videos
    /\ deleting \in [Deleters -> [at : {"idle", "read", "row", "thumbnail", "preview"},
                                  video : Videos \cup {NoVideo}, keys : SUBSET Kind]]

\* Deletions are of ids in use, and reach the objects when the row is gone.
RowGoesFirst ==
    \A s \in Deleters : deleting[s].at # "idle" =>
        /\ deleting[s].video \in minted
        /\ deleting[s].at \in Kind => deleting[s].video \notin Live

\* The Video an Import makes is nobody else's yet, and its keys are stored.
NewVideoIsAlone ==
    Importing =>
        /\ lane.item.video \in minted \ Live
        /\ \A s \in Deleters : deleting[s].at # "idle" => deleting[s].video # lane.item.video
        /\ lane.at # "thumbnail" => \A kind \in lane.keys : <<kind, lane.item.video>> \in objects

\* So is the Preview a Backfill is about to name, unless the Video is gone.
PreviewIsStored ==
    lane.kind = "preview" /\ lane.at = "write" /\ lane.item.video \in Live
        => <<"preview", lane.item.video>> \in objects

LibraryInv ==
    /\ LaneOK /\ TableOK /\ Live \subseteq minted
    /\ RowGoesFirst /\ NewVideoIsAlone /\ PreviewIsStored /\ RowsNameStoredObjects

\* A Job's step from one stage to another of the same item.
LEMMA StepKeepsLane ==
    ASSUME LaneOK, lane.at # "list", lane.kind # "none",
           NEW at \in {"next", "find", "probe", "thumbnail", "preview", "write", "index"},
           lane.at # "next" \/ at = "next", Step(at)
    PROVE  /\ LaneOK' /\ lane'.kind = lane.kind /\ lane'.at = at
           /\ lane'.item = lane.item /\ lane'.keys = lane.keys
<1>1. lane' = [kind |-> lane.kind, at |-> at, source |-> lane.source, mount |-> lane.mount,
               todo |-> lane.todo, item |-> lane.item, keys |-> lane.keys]
  BY DEF LaneOK, Step
<1>2. QED
  BY <1>1 DEF LaneOK, Backfilling

\* A row that is written with what it names unchanged, or with more that is stored.
LEMMA RowIsRewritten ==
    ASSUME LibraryInv, NEW v \in Live, NEW row \in VideoRow, rows' = [rows EXCEPT ![v] = row],
           \A kind \in row.keys : kind \in rows[v].keys \/ <<kind, v>> \in objects,
           LaneOK', ~ Importing', ~ (lane.kind = "preview" /\ lane.at = "write")',
           UNCHANGED <<sources, minted, objects, deleting>>
    PROVE  LibraryInv'
<1>1. /\ rows' \in [Videos -> VideoRow \cup {NoRecord}]
      /\ rows'[v] = row /\ \A w \in Videos : w # v => rows'[w] = rows[w]
  BY DEF LibraryInv, TableOK, Live
<1>2. TableOK' /\ Live' \subseteq Live
  BY <1>1 DEF LibraryInv, TableOK, Live
<1>3. RowGoesFirst'
  BY <1>2 DEF LibraryInv, RowGoesFirst
<1>4. NewVideoIsAlone' /\ PreviewIsStored'
  BY DEF NewVideoIsAlone, PreviewIsStored
<1>5. RowsNameStoredObjects'
  BY <1>1, <1>2 DEF LibraryInv, RowsNameStoredObjects, Live
<1>6. QED
  BY <1>2, <1>3, <1>4, <1>5 DEF LibraryInv

LEMMA LibraryStart == LibraryInit => LibraryInv
BY LibraryAssumption
   DEF LibraryInit, LibraryInv, LaneOK, TableOK, Live, RowGoesFirst, NewVideoIsAlone, Importing,
       PreviewIsStored, RowsNameStoredObjects, FreeLane, NoDeletion, Backfilling, VideoRow, Item, Source,
       Kind

LEMMA LibraryStep == LibraryInv /\ [LibraryNext]_libraryVars => LibraryInv'
<1> SUFFICES ASSUME LibraryInv, [LibraryNext]_libraryVars PROVE LibraryInv'
  OBVIOUS
<1>1. CASE CreateSource
  BY <1>1, LibraryAssumption DEF CreateSource, InsertSource, Source, LibraryInv, LaneOK, TableOK, Live, RowGoesFirst, NewVideoIsAlone, Importing, PreviewIsStored, RowsNameStoredObjects, Backfilling
<1>2. CASE UpdateSource
  BY <1>2, LibraryAssumption DEF UpdateSource, Source, LibraryInv, LaneOK, TableOK, Live, RowGoesFirst, NewVideoIsAlone, Importing, PreviewIsStored, RowsNameStoredObjects, Backfilling
<1>3. CASE DeleteSource
  BY <1>3, LibraryAssumption DEF DeleteSource, VideoRow, LibraryInv, LaneOK, TableOK, Live, RowGoesFirst, NewVideoIsAlone, Importing, PreviewIsStored, RowsNameStoredObjects, Backfilling
<1>4. CASE StartImport
  <2> PICK i \in Sources : sources[i] # NoRecord /\ StartJob("import", i)
    BY <1>4 DEF StartImport
  <2>1. sources[i].mount \in Mounts /\ i # NoSource
    BY LibraryAssumption DEF LibraryInv, TableOK, Source
  <2>2. lane' = [kind |-> "import", at |-> "list", source |-> i, mount |-> sources[i].mount,
                 todo |-> {}, item |-> NoItem, keys |-> {}]
    BY <2>1 DEF StartJob, FreeLane
  <2>3. LaneOK'
    <3>1. lane'.kind = "import" /\ lane'.at = "list" /\ lane'.source \in Sources /\ lane'.todo = {}
      BY <2>2
    <3>2. lane' \in [kind : {"none", "import", "codec", "keyframe", "preview"},
                 at : {"list", "next", "find", "probe", "thumbnail", "preview", "write", "index"},
                 source : Sources \cup {NoSource}, mount : Mounts \cup {NoItem},
                 todo : SUBSET Item, item : Item \cup {NoItem}, keys : SUBSET Kind]
      BY <2>1, <2>2
    <3> QED
      BY <3>1, <3>2 DEF LaneOK, Backfilling
  <2> QED
    BY <2>2, <2>3 DEF StartJob, LibraryInv, TableOK, Live, RowGoesFirst, NewVideoIsAlone, Importing, PreviewIsStored, RowsNameStoredObjects, Backfilling
<1>5. CASE StartBackfill
  <2> PICK kind \in {"codec", "keyframe", "preview"} : StartJob(kind, NoSource)
    BY <1>5 DEF StartBackfill
  <2>1. lane' = [kind |-> kind, at |-> "list", source |-> NoSource, mount |-> NoItem,
                 todo |-> {}, item |-> NoItem, keys |-> {}]
    BY DEF StartJob, FreeLane
  <2>2. LaneOK'
    BY <2>1 DEF LaneOK, Backfilling
  <2> QED
    BY <2>1, <2>2 DEF StartJob, LibraryInv, TableOK, Live, RowGoesFirst, NewVideoIsAlone, Importing, PreviewIsStored, RowsNameStoredObjects
<1>6. CASE ListItems
  <2>1. ASSUME lane.at = "list", lane.kind = "import"
        PROVE  ListedItems \subseteq Item /\ \A x \in ListedItems : x.source \in Sources
    <3>1. lane.source \in Sources
      BY <2>1 DEF LibraryInv, LaneOK
    <3> QED
      BY <2>1, <3>1 DEF ListedItems, ScanVideoFiles, Item, Codecs
  <2>2. ASSUME lane.at = "list", lane.kind \in Backfilling
        PROVE  ListedItems \subseteq Item /\ \A x \in ListedItems : x.video \in Videos
    <3>1. \A v \in Live : rows[v] \in VideoRow
      BY DEF LibraryInv, TableOK, Live
    <3>2. /\ MissingCodecs \subseteq Live /\ KeyframeCandidates \subseteq Live
          /\ MissingPreviews \subseteq Live /\ Live \subseteq Videos
      BY DEF MissingCodecs, KeyframeCandidates, MissingPreviews, Live
    <3>3. ListedItems \subseteq {[video |-> v, source |-> rows[v].source, path |-> rows[v].path,
                                 codecs |-> rows[v].codecs] : v \in Live}
      BY <2>2, <3>2 DEF ListedItems, Backfilling
    <3> QED
      BY <3>1, <3>2, <3>3 DEF VideoRow, Item
  <2>3. lane.kind # "none"
    BY <1>6 DEF ListItems, LibraryInv, LaneOK
  <2>4. CASE lane' = [lane EXCEPT !.at = "next", !.todo = ListedItems]
    BY <1>6, <2>1, <2>2, <2>3, <2>4 DEF ListItems, LibraryInv, LaneOK, TableOK, Live, RowGoesFirst, NewVideoIsAlone, Importing, PreviewIsStored, RowsNameStoredObjects, Backfilling
  <2>5. CASE lane' = FreeLane
    BY <1>6, <2>5 DEF ListItems, FreeLane, LibraryInv, LaneOK, TableOK, Live, RowGoesFirst, NewVideoIsAlone, Importing, PreviewIsStored, RowsNameStoredObjects, Backfilling
  <2> QED
    BY <1>6, <2>4, <2>5 DEF ListItems
<1>7. CASE NextItem
  <2>1. CASE lane' = FreeLane
    BY <1>7, <2>1 DEF NextItem, FreeLane, LibraryInv, LaneOK, TableOK, Live, RowGoesFirst, NewVideoIsAlone, Importing, PreviewIsStored, RowsNameStoredObjects, Backfilling
  <2>2. ASSUME NEW x \in lane.todo,
               lane' = [lane EXCEPT !.at = "find", !.todo = @ \ {x}, !.item = x, !.keys = {}]
        PROVE  LibraryInv'
    <3>1. x \in Item
      BY DEF LibraryInv, LaneOK
    <3>2. /\ lane'.at = "find" /\ lane'.todo = lane.todo \ {x} /\ lane'.item = x
          /\ lane'.kind = lane.kind /\ lane'.source = lane.source
      BY <2>2 DEF LibraryInv, LaneOK
    <3>3. LaneOK'
      BY <1>7, <2>2, <3>1 DEF NextItem, LibraryInv, LaneOK, Backfilling
    <3> QED
      BY <1>7, <3>2, <3>3 DEF NextItem, LibraryInv, TableOK, Live, RowGoesFirst, NewVideoIsAlone, Importing, PreviewIsStored, RowsNameStoredObjects, Backfilling
  <2> QED
    BY <1>7, <2>1, <2>2 DEF NextItem
<1>8. CASE ItemFails
  BY <1>8, LibraryAssumption DEF ItemFails, ItemDone, Step, LibraryInv, LaneOK, TableOK, Live, RowGoesFirst, NewVideoIsAlone, Importing, PreviewIsStored, RowsNameStoredObjects, Backfilling
<1>9. CASE CancelJob
  BY <1>9, LibraryAssumption DEF CancelJob, FreeLane, LibraryInv, LaneOK, TableOK, Live, RowGoesFirst, NewVideoIsAlone, Importing, PreviewIsStored, RowsNameStoredObjects, Backfilling
<1>10. CASE FindBySourceAndPath
  BY <1>10, LibraryAssumption DEF FindBySourceAndPath, ItemDone, Step, LibraryInv, LaneOK, TableOK, Live, RowGoesFirst, NewVideoIsAlone, Importing, PreviewIsStored, RowsNameStoredObjects, Backfilling
<1>11. CASE DeriveVideo
  <2> PICK v \in Videos \ minted, c \in Codecs :
         /\ minted' = minted \cup {v}
         /\ lane' = [lane EXCEPT !.at = "thumbnail", !.item.video = v, !.item.codecs = c]
    BY <1>11 DEF DeriveVideo
  <2>1. lane.kind = "import" /\ lane.item \in Item /\ lane.item.source \in Sources
    BY <1>11 DEF DeriveVideo, LibraryInv, LaneOK
  <2>2. lane'.item = [video |-> v, source |-> lane.item.source, path |-> lane.item.path, codecs |-> c]
    BY <2>1 DEF LibraryInv, LaneOK, Item
  <2>3. /\ lane'.at = "thumbnail" /\ lane'.kind = "import" /\ lane'.todo = lane.todo
        /\ lane'.source = lane.source /\ lane'.mount = lane.mount /\ lane'.keys = lane.keys
    BY <2>1 DEF LibraryInv, LaneOK
  <2>4. lane'.item \in Item /\ lane'.item.source \in Sources /\ lane'.item.video = v
    BY <2>1, <2>2 DEF Item
  <2>5. LaneOK'
    <3>1. lane' = [kind |-> "import", at |-> "thumbnail", source |-> lane.source,
                   mount |-> lane.mount, todo |-> lane.todo, item |-> lane'.item,
                   keys |-> lane.keys]
      BY <2>1, <2>3 DEF LibraryInv, LaneOK
    <3>2. lane' \in [kind : {"none", "import", "codec", "keyframe", "preview"},
                 at : {"list", "next", "find", "probe", "thumbnail", "preview", "write", "index"},
                 source : Sources \cup {NoSource}, mount : Mounts \cup {NoItem},
                 todo : SUBSET Item, item : Item \cup {NoItem}, keys : SUBSET Kind]
      BY <2>4, <3>1 DEF LibraryInv, LaneOK
    <3> QED
      BY <2>1, <2>3, <2>4, <3>2 DEF LibraryInv, LaneOK, Backfilling
  <2> QED
    BY <1>11, <2>3, <2>4, <2>5 DEF DeriveVideo, LibraryInv, TableOK, Live, RowGoesFirst, NewVideoIsAlone, Importing, PreviewIsStored, RowsNameStoredObjects, Backfilling
<1>12. CASE MakeThumbnail
  <2>1. /\ lane'.at = "preview" /\ lane'.kind = "import" /\ lane'.item = lane.item
        /\ lane'.keys = {"thumbnail"}
    BY <1>12 DEF MakeThumbnail, LibraryInv, LaneOK
  <2>2. LaneOK'
    BY <1>12 DEF MakeThumbnail, LibraryInv, LaneOK, Kind, Backfilling
  <2>3. lane.item.video \in Videos
    BY <1>12 DEF MakeThumbnail, LibraryInv, NewVideoIsAlone, Importing, TableOK
  <2>4. TableOK'
    BY <1>12, <2>3 DEF MakeThumbnail, Put, Kind, LibraryInv, TableOK
  <2> QED
    BY <1>12, <2>1, <2>2, <2>4 DEF MakeThumbnail, Put, LibraryInv, Live, RowGoesFirst, NewVideoIsAlone, Importing, PreviewIsStored, RowsNameStoredObjects, Backfilling
<1>13. CASE MakePreview
  <2> PICK did \in BOOLEAN :
         /\ IF did THEN Put("preview", lane.item.video) ELSE UNCHANGED objects
         /\ lane' = [lane EXCEPT !.at = "write", !.keys = PreviewKeys(@, did)]
    BY <1>13 DEF MakePreview
  <2>1. /\ lane'.at = "write" /\ lane'.kind = "import" /\ lane'.item = lane.item
        /\ lane'.keys = PreviewKeys(lane.keys, did) /\ lane.keys \subseteq Kind
    BY <1>13 DEF MakePreview, LibraryInv, LaneOK
  <2>2. LaneOK'
    <3>1. PreviewKeys(lane.keys, did) \subseteq Kind
      BY <2>1 DEF PreviewKeys, Kind
    <3> QED
      BY <1>13, <3>1 DEF MakePreview, LibraryInv, LaneOK, Backfilling
  <2>3. lane.item.video \in Videos
    BY <1>13 DEF MakePreview, LibraryInv, NewVideoIsAlone, Importing, TableOK
  <2>4. TableOK' /\ objects \subseteq objects'
    BY <1>13, <2>3 DEF MakePreview, Put, Kind, LibraryInv, TableOK
  <2>5. \A kind \in lane'.keys : <<kind, lane.item.video>> \in objects'
    BY <1>13, <2>1, <2>4 DEF MakePreview, Put, PreviewKeys, LibraryInv, NewVideoIsAlone, Importing
  <2> QED
    BY <1>13, <2>1, <2>2, <2>4, <2>5 DEF MakePreview, LibraryInv, Live, RowGoesFirst, NewVideoIsAlone, Importing, PreviewIsStored, RowsNameStoredObjects, Backfilling
<1>14. CASE CreateVideo
  <2>1. CASE ItemDone /\ UNCHANGED rows
    BY <1>14, <2>1 DEF CreateVideo, ItemDone, Step, LibraryInv, LaneOK, TableOK, Live, RowGoesFirst, NewVideoIsAlone, Importing, PreviewIsStored, RowsNameStoredObjects, Backfilling
  <2>2. ASSUME rows' = [rows EXCEPT ![lane.item.video] =
                          [source |-> lane.item.source, path |-> lane.item.path,
                           codecs |-> lane.item.codecs, keys |-> lane.keys, index |-> FALSE]],
               Step("index")
        PROVE  LibraryInv'
    <3> DEFINE v == lane.item.video
    <3>1. lane.kind = "import" /\ lane.item \in Item /\ v \in minted \ Live /\ v \in Videos
      BY <1>14 DEF CreateVideo, LibraryInv, LaneOK, NewVideoIsAlone, Importing, TableOK
    <3>2. rows'[v] \in VideoRow /\ rows'[v].keys = lane.keys /\ rows' \in [Videos -> VideoRow \cup {NoRecord}]
      <4>1. lane.keys \subseteq Kind
        BY DEF LibraryInv, LaneOK
      <4>2. rows'[v] = [source |-> lane.item.source, path |-> lane.item.path,
                        codecs |-> lane.item.codecs, keys |-> lane.keys, index |-> FALSE]
        BY <2>2, <3>1 DEF LibraryInv, TableOK
      <4>3. rows'[v] \in VideoRow /\ rows'[v].keys = lane.keys
        BY <3>1, <4>1, <4>2 DEF VideoRow, Item
      <4> QED
        BY <2>2, <3>1, <4>3 DEF LibraryInv, TableOK
    <3>3. \A w \in Videos \ {v} : rows'[w] = rows[w]
      BY <2>2 DEF LibraryInv, TableOK
    <3>4. LaneOK' /\ lane'.at = "index" /\ lane'.kind = "import"
      BY <1>14, <2>2, <3>1 DEF CreateVideo, Step, LibraryInv, LaneOK, Backfilling
    <3>5. Live' \subseteq Live \cup {v}
      BY <3>3 DEF Live
    <3>6. RowGoesFirst'
      BY <1>14, <3>1, <3>5 DEF CreateVideo, LibraryInv, RowGoesFirst, NewVideoIsAlone, Importing
    <3>7. RowsNameStoredObjects'
      <4>1. \A kind \in lane.keys : <<kind, v>> \in objects
        BY <1>14 DEF CreateVideo, LibraryInv, NewVideoIsAlone, Importing
      <4>2. UNCHANGED objects
        BY <1>14 DEF CreateVideo
      <4>3. \A w \in Live' \ {v} : w \in Live /\ rows'[w] = rows[w]
        BY <3>3, <3>5 DEF Live
      <4> QED
        BY <3>2, <4>1, <4>2, <4>3 DEF LibraryInv, RowsNameStoredObjects
    <3> QED
      BY <1>14, <3>1, <3>2, <3>4, <3>5, <3>6, <3>7
      DEF CreateVideo, LibraryInv, TableOK, NewVideoIsAlone, Importing, PreviewIsStored
  <2> QED
    BY <1>14, <2>1, <2>2 DEF CreateVideo
<1>15. CASE EnsureIndex
  <2>1. lane.kind # "none" /\ lane.at = "index" /\ Step("next")
    BY <1>15 DEF EnsureIndex, ItemDone, LibraryInv, LaneOK
  <2>2. LaneOK' /\ lane'.at = "next"
    BY <2>1, StepKeepsLane DEF LibraryInv
  <2>3. CASE rows' = rows
    BY <1>15, <2>2, <2>3 DEF EnsureIndex, LibraryInv, TableOK, Live, RowGoesFirst, NewVideoIsAlone, Importing, PreviewIsStored, RowsNameStoredObjects
  <2>4. CASE lane.item.video \in Live /\ rows' = [rows EXCEPT ![lane.item.video].index = TRUE]
    <3> DEFINE v == lane.item.video
               row == [rows[v] EXCEPT !.index = TRUE]
    <3>1. rows[v] \in VideoRow /\ v \in Live /\ rows' = [rows EXCEPT ![v] = row]
      BY <2>4 DEF LibraryInv, TableOK, Live
    <3>2. row \in VideoRow /\ row.keys = rows[v].keys
      BY <3>1 DEF VideoRow
    <3>3. UNCHANGED <<sources, minted, objects, deleting>>
      BY <1>15 DEF EnsureIndex
    <3> HIDE DEF v, row
    <3> QED
      BY <2>2, <3>1, <3>2, <3>3, RowIsRewritten DEF Importing
  <2> QED
    BY <1>15, <2>3, <2>4 DEF EnsureIndex
<1>16. CASE ResolveItem
  BY <1>16, LibraryAssumption DEF ResolveItem, Step, LibraryInv, LaneOK, TableOK, Live, RowGoesFirst, NewVideoIsAlone, Importing, PreviewIsStored, RowsNameStoredObjects, Backfilling
<1>17. CASE ProbeCodecs
  <2> PICK c \in Codecs : lane' = [lane EXCEPT !.at = "write", !.item.codecs = c]
    BY <1>17 DEF ProbeCodecs
  <2>1. lane.kind = "codec" /\ lane.item \in Item /\ lane.item.video \in Videos
    BY <1>17 DEF ProbeCodecs, LibraryInv, LaneOK, Backfilling
  <2>2. lane'.item = [lane.item EXCEPT !.codecs = c] /\ lane'.item \in Item /\ lane'.item.video \in Videos
    BY <2>1 DEF LibraryInv, LaneOK, Item
  <2>3. lane' = [kind |-> "codec", at |-> "write", source |-> lane.source, mount |-> lane.mount,
                 todo |-> lane.todo, item |-> lane'.item, keys |-> lane.keys]
    BY <2>1 DEF LibraryInv, LaneOK
  <2>4. LaneOK'
    BY <2>1, <2>2, <2>3 DEF LibraryInv, LaneOK, Backfilling
  <2> QED
    BY <1>17, <2>3, <2>4 DEF ProbeCodecs, LibraryInv, TableOK, Live, RowGoesFirst, NewVideoIsAlone, Importing, PreviewIsStored, RowsNameStoredObjects, Backfilling
<1>18. CASE UpdateCodecs
  <2> DEFINE v == lane.item.video
             row == [rows[v] EXCEPT !.codecs = lane.item.codecs]
  <2>1. /\ lane.kind = "codec" /\ lane.at = "write" /\ lane.item \in Item /\ v \in Videos
        /\ UNCHANGED <<sources, minted, objects, deleting>>
    BY <1>18 DEF UpdateCodecs, LibraryInv, LaneOK, Backfilling
  <2>2. LaneOK' /\ lane'.kind = "codec"
    BY <1>18, <2>1, StepKeepsLane DEF UpdateCodecs, ItemDone, LibraryInv
  <2>3. CASE rows' = rows
    BY <2>1, <2>2, <2>3 DEF LibraryInv, TableOK, Live, RowGoesFirst, NewVideoIsAlone, Importing, PreviewIsStored, RowsNameStoredObjects
  <2>4. CASE rows[v] # NoRecord /\ rows' = [rows EXCEPT ![v].codecs = lane.item.codecs]
    <3>1. v \in Live /\ rows[v] \in VideoRow
      BY <2>1, <2>4 DEF LibraryInv, TableOK, Live
    <3>2. row \in VideoRow /\ row.keys = rows[v].keys
      BY <2>1, <3>1 DEF VideoRow, Item
    <3>3. rows' = [rows EXCEPT ![v] = row]
      BY <2>4
    <3> HIDE DEF v, row
    <3> QED
      BY <2>1, <2>2, <3>1, <3>2, <3>3, RowIsRewritten DEF Importing
  <2> QED
    BY <1>18, <2>3, <2>4 DEF UpdateCodecs
<1>19. CASE BackfillPreview
  BY <1>19, LibraryAssumption DEF BackfillPreview, Put, Step, Kind, LibraryInv, LaneOK, TableOK, Live, RowGoesFirst, NewVideoIsAlone, Importing, PreviewIsStored, RowsNameStoredObjects, Backfilling
<1>20. CASE UpdatePreviewKey
  <2> DEFINE v == lane.item.video
             row == [rows[v] EXCEPT !.keys = rows[v].keys \cup {"preview"}]
  <2>1. /\ lane.kind = "preview" /\ lane.at = "write" /\ v \in Videos
        /\ UNCHANGED <<sources, minted, objects, deleting>>
    BY <1>20 DEF UpdatePreviewKey, LibraryInv, LaneOK, Backfilling
  <2>2. LaneOK' /\ lane'.kind = "preview" /\ lane'.at = "next"
    BY <1>20, <2>1, StepKeepsLane DEF UpdatePreviewKey, ItemDone, LibraryInv
  <2>3. CASE rows' = rows
    BY <2>1, <2>2, <2>3 DEF LibraryInv, TableOK, Live, RowGoesFirst, NewVideoIsAlone, Importing, PreviewIsStored, RowsNameStoredObjects
  <2>4. CASE rows[v] # NoRecord /\ rows' = [rows EXCEPT ![v].keys = @ \cup {"preview"}]
    <3>1. v \in Live /\ rows[v] \in VideoRow
      BY <2>1, <2>4 DEF LibraryInv, TableOK, Live
    <3>2. row \in VideoRow /\ row.keys = rows[v].keys \cup {"preview"}
      BY <3>1 DEF VideoRow, Kind
    <3>3. rows' = [rows EXCEPT ![v] = row] /\ <<"preview", v>> \in objects
      BY <2>1, <2>4, <3>1 DEF LibraryInv, PreviewIsStored
    <3> HIDE DEF v, row
    <3> QED
      BY <2>1, <2>2, <3>1, <3>2, <3>3, RowIsRewritten DEF Importing
  <2> QED
    BY <1>20, <2>3, <2>4 DEF UpdatePreviewKey
<1>21. CASE FilesChange
  BY <1>21, LibraryAssumption DEF FilesChange, Kind, LibraryInv, LaneOK, TableOK, Live, RowGoesFirst, NewVideoIsAlone, Importing, PreviewIsStored, RowsNameStoredObjects, Backfilling
<1>22. CASE ServerRestart
  BY <1>22, LibraryAssumption DEF ServerRestart, FreeLane, NoDeletion, LibraryInv, LaneOK, TableOK, Live, RowGoesFirst, NewVideoIsAlone, Importing, PreviewIsStored, RowsNameStoredObjects, Backfilling
<1>23. ASSUME NEW s \in Deleters, GetVideoForDeletion(s) PROVE LibraryInv'
  BY <1>23, LibraryAssumption DEF GetVideoForDeletion, Kind, VideoRow, LibraryInv, LaneOK, TableOK, Live, RowGoesFirst, NewVideoIsAlone, Importing, PreviewIsStored, RowsNameStoredObjects, Backfilling
<1>24. ASSUME NEW s \in Deleters, DeleteRow(s) PROVE LibraryInv'
  BY <1>24, LibraryAssumption DEF DeleteRow, NoDeletion, Kind, LibraryInv, LaneOK, TableOK, Live, RowGoesFirst, NewVideoIsAlone, Importing, PreviewIsStored, RowsNameStoredObjects, Backfilling
<1>25. ASSUME NEW s \in Deleters, DeletionFails(s) PROVE LibraryInv'
  BY <1>25, LibraryAssumption DEF DeletionFails, NoDeletion, Kind, LibraryInv, LaneOK, TableOK, Live, RowGoesFirst, NewVideoIsAlone, Importing, PreviewIsStored, RowsNameStoredObjects, Backfilling
<1>26. ASSUME NEW s \in Deleters, DeleteObjects(s) PROVE LibraryInv'
  BY <1>26, LibraryAssumption DEF DeleteObjects, NoDeletion, Remove, Kind, LibraryInv, LaneOK, TableOK, Live, RowGoesFirst, NewVideoIsAlone, Importing, PreviewIsStored, RowsNameStoredObjects, Backfilling
<1>27. CASE UNCHANGED libraryVars
  BY <1>27 DEF libraryVars, LibraryInv, LaneOK, TableOK, Live, RowGoesFirst, NewVideoIsAlone, Importing, PreviewIsStored, RowsNameStoredObjects, Backfilling
<1> QED
  BY <1>1, <1>2, <1>3, <1>4, <1>5, <1>6, <1>7, <1>8, <1>9, <1>10, <1>11, <1>12, <1>13, <1>14, <1>15, <1>16, <1>17, <1>18, <1>19, <1>20, <1>21, <1>22, <1>23, <1>24, <1>25, <1>26, <1>27 DEF LibraryNext

\* A row never names an object that is not stored, for any number of Media
\* Sources, files, Videos and deletions (processOneFile, PreviewBackfill,
\* VideoService.Delete).
THEOREM RowsNameStored == LibrarySpec => []RowsNameStoredObjects
<1>1. LibraryInv => RowsNameStoredObjects
  BY DEF LibraryInv
<1> QED
  BY <1>1, LibraryStart, LibraryStep, PTL DEF LibrarySpec

\* The tables, the lane and the deletions keep their types.
THEOREM LibraryTypes == LibrarySpec => []LibraryTypeOK
<1> DEFINE DiskOK == disk \subseteq Prefixed \X Paths
<1>1. LibraryInit => DiskOK
  BY DEF LibraryInit
<1>2. DiskOK /\ [LibraryNext]_libraryVars => DiskOK'
  <2> SUFFICES ASSUME DiskOK, [LibraryNext]_libraryVars PROVE DiskOK'
    OBVIOUS
  <2>1. FilesChange => DiskOK'
    BY DEF FilesChange
  <2>2. LibraryNext /\ ~FilesChange => UNCHANGED disk
    BY DEF LibraryNext, CreateSource, UpdateSource, DeleteSource, StartImport, StartBackfill, StartJob,
           ListItems, NextItem, ItemFails, CancelJob, FindBySourceAndPath, DeriveVideo, MakeThumbnail,
           MakePreview, CreateVideo, EnsureIndex, ResolveItem, ProbeCodecs, UpdateCodecs,
           BackfillPreview, UpdatePreviewKey, GetVideoForDeletion, DeleteRow, DeleteObjects,
           DeletionFails, ServerRestart
  <2> QED
    BY <2>1, <2>2 DEF libraryVars
<1>3. LibraryInv /\ DiskOK => LibraryTypeOK
  BY DEF LibraryInv, LaneOK, TableOK, LibraryTypeOK
<1> QED
  BY <1>1, <1>2, <1>3, LibraryStart, LibraryStep, PTL DEF LibrarySpec

-----------------------------------------------------------------------------
(***************************************************************************)
(* Enrichment: a key is passed on only after its upload, from the worker   *)
(* to the Suggestion, and from there to the Video and the Performer; an id *)
(* is given once, so the Suggestion a worker read is the one it applies.   *)
(***************************************************************************)
WorkerFields == {"at", "video", "code", "auto", "todo", "found", "keys", "urls", "status", "id"}
RecordFields == {"file", "code", "cover", "status", "applied", "cast"}
WorkerShape(me) == DOMAIN me = WorkerFields /\ me = [f \in WorkerFields |-> me[f]]
RecordShape(r) == DOMAIN r = RecordFields /\ r = [f \in RecordFields |-> r[f]]

Shapes ==
    /\ records = [v \in Videos |-> records[v]]
    /\ \A v \in Videos : Known(v) => RecordShape(records[v])
    /\ workers = [w \in Workers |-> workers[w]]
    /\ \A w \in Workers : WorkerShape(workers[w])
    /\ issued \in Nat

\* What a worker that is busy with a Video has of its images.
Carries(me) ==
    /\ me.keys \subseteq DOMAIN images
    /\ me.urls \subseteq DOMAIN images \cup PathKey
    /\ me.at # "idle" => me.video \in Videos

CarriedKeysAreStored == \A w \in Workers : Carries(workers[w])

IdsAreUsedOnce ==
    /\ \A x \in suggestions : x.id \in Nat /\ x.id <= issued /\ x.video \in Videos
    /\ \A x, y \in suggestions : x.id = y.id => x = y

ReadersAgree ==
    \A w \in Workers : At(w, "apply") =>
        /\ workers[w].id \in Nat /\ workers[w].id <= issued
        /\ \A x \in suggestions : x.id = workers[w].id => x.video = workers[w].video

EnrichmentInv ==
    Shapes /\ CarriedKeysAreStored /\ StagedImagesAreStored /\ IdsAreUsedOnce /\ ReadersAgree

LEMMA RestingShape ==
    /\ WorkerShape(Resting) /\ Resting.at = "idle"
    /\ Resting.keys = {} /\ Resting.urls = {} /\ Carries(Resting)
BY DEF WorkerShape, WorkerFields, Resting, Carries

LEMMA EnrichmentStart == EnrichmentInit => EnrichmentInv
<1> SUFFICES ASSUME EnrichmentInit PROVE EnrichmentInv
  OBVIOUS
<1>1. \A v \in Videos : Known(v) => RecordShape(records[v]) /\ records[v].cover = NoKey
  <2> DEFINE row(v, f, o) == IF SuggestionsOf(v) = {} THEN NewRecord(f, o)
                             ELSE [NewRecord(f, o) EXCEPT !.status = "suggested"]
  <2> PICK there \in SUBSET Videos, named \in [Videos -> Codes \cup {NoCode}], old \in [Videos -> BOOLEAN] :
        records = [v \in Videos |-> IF v \notin there THEN Deleted ELSE row(v, named[v], old[v])]
    BY DEF EnrichmentInit
  <2>1. ASSUME NEW v, NEW f, NEW o
        PROVE  RecordShape(row(v, f, o)) /\ row(v, f, o).cover = NoKey
    <3> DEFINE code == IF o THEN NoCode ELSE CodeFromFilename(f).code
               status == IF o THEN "none" ELSE CodeFromFilename(f).status
    <3>1. NewRecord(f, o) = [file |-> f, code |-> code, cover |-> NoKey, status |-> status,
                             applied |-> 0, cast |-> FALSE]
      BY DEF NewRecord
    <3>2. RecordShape(NewRecord(f, o)) /\ NewRecord(f, o).cover = NoKey
      <4> HIDE DEF code, status
      <4> QED
        BY <3>1 DEF RecordShape, RecordFields
    <3> DEFINE new == NewRecord(f, o)
               suggested == [new EXCEPT !.status = "suggested"]
    <3>3. row(v, f, o) = new \/ row(v, f, o) = suggested
      OBVIOUS
    <3> HIDE DEF new, row
    <3>4. RecordShape(suggested) /\ suggested.cover = NoKey
      BY <3>2 DEF new, RecordShape, RecordFields
    <3> QED
      BY <3>2, <3>3, <3>4 DEF new
  <2> HIDE DEF row
  <2>2. ASSUME NEW v \in Videos, Known(v) PROVE records[v] = row(v, named[v], old[v])
    BY <2>2 DEF Known
  <2> QED
    BY <2>1, <2>2
<1>2. /\ issued = Legacy /\ Legacy \in Nat
      /\ \A x \in suggestions : /\ x.id \in 1..Legacy /\ x.video \in Videos
                               /\ x.keys = {} /\ x.urls \subseteq DOMAIN images
      /\ \A x, y \in suggestions : x.id = y.id => x = y
  <2> DEFINE staged == [id : 1..Legacy, video : Videos, source : SourceNames \cup FormerSources,
                        code : Codes, keys : {{}}, urls : SUBSET ImageKey]
  <2>1. suggestions \subseteq staged /\ \A x, y \in suggestions : x.id = y.id => x = y
    BY DEF EnrichmentInit, LegacySuggestions
  <2>2. DOMAIN images = UNION {x.urls : x \in suggestions}
    BY DEF EnrichmentInit
  <2>3. \A x \in staged : x.id \in 1..Legacy /\ x.video \in Videos /\ x.keys = {}
    OBVIOUS
  <2> HIDE DEF staged
  <2> QED
    BY <2>1, <2>2, <2>3, EnrichmentAssumption DEF EnrichmentInit
<1>3. Shapes
  BY <1>1, <1>2, RestingShape DEF EnrichmentInit, Shapes
<1>4. CarriedKeysAreStored
  BY RestingShape DEF EnrichmentInit, CarriedKeysAreStored
<1>5. StagedImagesAreStored
  BY <1>1, <1>2 DEF EnrichmentInit, StagedImagesAreStored
<1>6. IdsAreUsedOnce /\ ReadersAgree
  BY <1>2, RestingShape DEF EnrichmentInit, IdsAreUsedOnce, ReadersAgree, At
<1> QED
  BY <1>3, <1>4, <1>5, <1>6 DEF EnrichmentInv

\* What a step of worker w that only goes on, or rests, keeps.
LEMMA WorkerGoesOn ==
    ASSUME EnrichmentInv, NEW w \in Workers, NEW me, Become(w, me), WorkerShape(me),
           UNCHANGED <<records, suggestions, issued, images, performer>>,
           Carries(me),
           me.at = "apply" =>
             /\ me.id \in Nat /\ me.id <= issued
             /\ \A x \in suggestions : x.id = me.id => x.video = me.video
    PROVE  EnrichmentInv'
<1>1. workers'[w] = me /\ \A u \in Workers \ {w} : workers'[u] = workers[u]
  BY DEF Become, EnrichmentInv, Shapes
<1>2. workers' = [u \in Workers |-> workers'[u]]
  BY DEF Become, EnrichmentInv, Shapes
<1>3. Shapes'
  BY <1>1, <1>2 DEF EnrichmentInv, Shapes, Known
<1> QED
  BY <1>1, <1>3 DEF EnrichmentInv, CarriedKeysAreStored, Carries, StagedImagesAreStored, MayName,
                    IdsAreUsedOnce, ReadersAgree, At, Known

LEMMA RestingGoesOn ==
    ASSUME EnrichmentInv, NEW w \in Workers, Return(w),
           UNCHANGED <<records, suggestions, issued, images, performer>>
    PROVE  EnrichmentInv'
<1>1. WorkerShape(Resting) /\ Carries(Resting) /\ Resting.at # "apply"
  BY RestingShape
<1> QED
  BY <1>1, WorkerGoesOn DEF Return

\* ReadSuggestion: whatever is read agrees with the table.
LEMMA ReadsOn ==
    ASSUME EnrichmentInv, NEW w \in Workers, NEW id, NEW next \in {"apply", "delete"},
           ReadSuggestion(w, id, next),
           UNCHANGED <<records, suggestions, issued, images, performer>>
    PROVE  EnrichmentInv'
<1> DEFINE read == {x \in suggestions : x.id = id}
           y == CHOOSE x \in read : TRUE
<1>1. CASE read = {}
  BY <1>1, RestingGoesOn DEF ReadSuggestion, Return
<1>2. CASE read # {}
  <2>1. y \in suggestions /\ y.id = id
    BY <1>2
  <2> DEFINE me == [Resting EXCEPT !.at = next, !.id = id, !.keys = y.keys, !.urls = y.urls,
                                   !.video = y.video, !.code = y.code]
  <2>2. Become(w, me)
    BY <1>2 DEF ReadSuggestion
  <2> HIDE DEF y, read
  <2>3. /\ WorkerShape(me) /\ me.id = id /\ me.video = y.video
        /\ me.keys = y.keys /\ me.urls = y.urls
    BY RestingShape DEF WorkerShape, WorkerFields
  <2>4. Carries(me)
    BY <2>1, <2>3 DEF EnrichmentInv, StagedImagesAreStored, IdsAreUsedOnce, Carries
  <2>5. /\ me.id \in Nat /\ me.id <= issued
        /\ \A x \in suggestions : x.id = me.id => x.video = me.video
    BY <2>1, <2>3 DEF EnrichmentInv, IdsAreUsedOnce
  <2> HIDE DEF me
  <2> QED
    BY <2>2, <2>3, <2>4, <2>5, WorkerGoesOn
<1> QED
  BY <1>1, <1>2

\* An image uploaded to a key only adds to what is stored.
LEMMA UploadKeeps ==
    ASSUME EnrichmentInv, NEW w \in Workers, UploadImage(w) PROVE EnrichmentInv'
<1> DEFINE key == StagedImageKey(workers[w].code, Head(workers[w].todo))
<1> PICK url \in UrlsLikeKeys(Head(workers[w].todo)), uploaded \in BOOLEAN :
      /\ images' \in IF uploaded
                     THEN {[k \in DOMAIN images \cup {key} |->
                              IF k = key THEN c ELSE images[k]] : c \in Contents}
                     ELSE {images}
      /\ Become(w, [workers[w] EXCEPT !.keys = @ \cup StagedKeys(key, uploaded),
                      !.urls = @ \cup url, !.todo = Tail(@),
                      !.at = IF Len(workers[w].todo) > 1 THEN "upload" ELSE "stage"])
  BY DEF UploadImage
<1> DEFINE keys == workers[w].keys \cup StagedKeys(key, uploaded)
           urls == workers[w].urls \cup url
           todo == Tail(workers[w].todo)
           at == IF Len(workers[w].todo) > 1 THEN "upload" ELSE "stage"
           me == [workers[w] EXCEPT !.keys = keys, !.urls = urls, !.todo = todo, !.at = at]
<1>1. WorkerShape(workers[w]) /\ Carries(workers[w]) /\ workers[w].video \in Videos
  BY DEF EnrichmentInv, Shapes, CarriedKeysAreStored, Carries, UploadImage, At
<1>2. UNCHANGED <<records, suggestions, issued, performer>>
  BY DEF UploadImage
<1>3. at # "apply"
  OBVIOUS
<1>4. /\ DOMAIN images \subseteq DOMAIN images' /\ keys \subseteq DOMAIN images'
      /\ urls \subseteq DOMAIN images' \cup PathKey
  <2> HIDE DEF key
  <2>1. url \subseteq PathKey
    BY DEF UrlsLikeKeys
  <2>2. CASE uploaded
    <3>1. DOMAIN images' = DOMAIN images \cup {key}
      BY <2>2
    <3> QED
      BY <1>1, <2>1, <2>2, <3>1 DEF StagedKeys, Carries
  <2>3. CASE ~uploaded
    BY <1>1, <2>1, <2>3 DEF StagedKeys, Carries
  <2> QED
    BY <2>2, <2>3
<1> HIDE DEF keys, urls, todo, at
<1>5. WorkerShape(me) /\ me.keys = keys /\ me.urls = urls /\ me.at = at /\ me.video \in Videos
  BY <1>1 DEF WorkerShape, WorkerFields
<1>6. Become(w, me)
  BY <1>1 DEF keys, urls, todo, at, WorkerShape, WorkerFields
<1> HIDE DEF me
<1>7. workers'[w] = me /\ \A u \in Workers \ {w} : workers'[u] = workers[u]
  BY <1>6 DEF Become, EnrichmentInv, Shapes
<1>8. workers' = [u \in Workers |-> workers'[u]]
  BY <1>6 DEF Become, EnrichmentInv, Shapes
<1>9. Shapes'
  BY <1>2, <1>5, <1>7, <1>8 DEF EnrichmentInv, Shapes, Known
<1>10. CarriedKeysAreStored'
  BY <1>4, <1>5, <1>7 DEF EnrichmentInv, CarriedKeysAreStored, Carries
<1>11. StagedImagesAreStored'
  BY <1>2, <1>4 DEF EnrichmentInv, StagedImagesAreStored, MayName, Known
<1>12. IdsAreUsedOnce'
  BY <1>2 DEF EnrichmentInv, IdsAreUsedOnce
<1>13. ReadersAgree'
  BY <1>2, <1>3, <1>5, <1>7 DEF EnrichmentInv, ReadersAgree, At
<1> QED
  BY <1>9, <1>10, <1>11, <1>12, <1>13 DEF EnrichmentInv

\* A Suggestion is staged with an id of its own, and keys its worker carries.
LEMMA StagingKeeps ==
    ASSUME EnrichmentInv, NEW w \in Workers, StageSuggestion(w) PROVE EnrichmentInv'
<1> DEFINE source == Head(workers[w].found)
           keys == {k \in workers[w].keys : k[3] = source}
           urls == {k \in workers[w].urls : k[3] = source}
           new == [id |-> issued + 1, video |-> workers[w].video, source |-> source,
                   code |-> workers[w].code, keys |-> keys, urls |-> urls]
           found == Tail(workers[w].found)
           more == [workers[w] EXCEPT !.found = found]
           last == [workers[w] EXCEPT !.at = "status", !.status = "suggested", !.found = <<>>,
                                      !.keys = {}, !.urls = {}]
<1>1. /\ WorkerShape(workers[w]) /\ Carries(workers[w]) /\ workers[w].at = "stage"
      /\ workers[w].video \in Videos
  BY DEF EnrichmentInv, Shapes, CarriedKeysAreStored, Carries, StageSuggestion, At
<1>2. /\ UNCHANGED <<records, images, performer>>
      /\ issued' = issued + 1 /\ suggestions' = suggestions \cup {new}
  BY DEF StageSuggestion
<1>3. Become(w, more) \/ Become(w, last)
  BY <1>1 DEF StageSuggestion, WorkerShape, WorkerFields
<1>4. keys \subseteq DOMAIN images /\ urls \subseteq DOMAIN images \cup PathKey
  BY <1>1 DEF Carries
<1>5. issued \in Nat /\ issued' \in Nat
  BY <1>2 DEF EnrichmentInv, Shapes
<1> HIDE DEF source, keys, urls, found
<1>6. /\ new.id = issued + 1 /\ new.keys = keys /\ new.urls = urls
      /\ new.video \in Videos
  BY <1>1
<1>7. /\ WorkerShape(more) /\ more.at = "stage" /\ more.keys = workers[w].keys
      /\ more.urls = workers[w].urls /\ more.video = workers[w].video
      /\ WorkerShape(last) /\ last.at = "status" /\ last.keys = {} /\ last.urls = {}
      /\ last.video = workers[w].video
  BY <1>1 DEF WorkerShape, WorkerFields
<1> HIDE DEF new, more, last
<1> PICK me \in {more, last} : Become(w, me)
  BY <1>3
<1>8. WorkerShape(me) /\ me.at # "apply" /\ Carries(me)
  BY <1>1, <1>7 DEF Carries
<1>9. workers'[w] = me /\ \A u \in Workers \ {w} : workers'[u] = workers[u]
  BY DEF Become, EnrichmentInv, Shapes
<1>10. workers' = [u \in Workers |-> workers'[u]]
  BY DEF Become, EnrichmentInv, Shapes
<1>11. Shapes'
  BY <1>2, <1>5, <1>8, <1>9, <1>10 DEF EnrichmentInv, Shapes, Known
<1>12. CarriedKeysAreStored'
  BY <1>2, <1>8, <1>9 DEF EnrichmentInv, CarriedKeysAreStored, Carries
<1>13. StagedImagesAreStored'
  BY <1>2, <1>4, <1>6 DEF EnrichmentInv, StagedImagesAreStored, MayName, Known
<1>14. IdsAreUsedOnce'
  BY <1>2, <1>5, <1>6 DEF EnrichmentInv, IdsAreUsedOnce
<1>15. ReadersAgree'
  <2> SUFFICES ASSUME NEW u \in Workers, At(u, "apply")'
               PROVE  /\ workers[u]'.id \in Nat /\ workers[u]'.id <= issued'
                      /\ \A x \in suggestions' : x.id = workers[u]'.id => x.video = workers[u]'.video
    BY DEF ReadersAgree
  <2>1. u # w /\ workers'[u] = workers[u] /\ At(u, "apply")
    BY <1>8, <1>9 DEF At
  <2>2. workers[u].id \in Nat /\ workers[u].id <= issued
    BY <2>1 DEF EnrichmentInv, ReadersAgree
  <2>3. new.id # workers[u].id
    BY <1>5, <1>6, <2>2
  <2> QED
    BY <1>2, <1>5, <2>1, <2>2, <2>3 DEF EnrichmentInv, ReadersAgree
<1> QED
  BY <1>11, <1>12, <1>13, <1>14, <1>15 DEF EnrichmentInv

\* Suggestions go, and a row, where it is known, takes a Cover it may name:
\* what is left agrees.
LEMMA RowsAndSuggestionsKeep ==
    ASSUME EnrichmentInv, suggestions' \subseteq suggestions, UNCHANGED <<issued, images>>,
           NEW v, NEW r,
           records' = [records EXCEPT ![v] = r],
           r # Deleted => RecordShape(r) /\ r.cover \in MayName("cover") \cup {NoKey},
           performer' \in MayName("avatar") \cup {NoKey},
           NEW w \in Workers, Return(w) \/ UNCHANGED workers
    PROVE  EnrichmentInv'
<1>1. \A u \in Videos : records'[u] = IF u = v THEN r ELSE records[u]
  BY DEF EnrichmentInv, Shapes
<1>2. records' = [u \in Videos |-> records'[u]]
  BY DEF EnrichmentInv, Shapes
<1>3. \A u \in Workers : workers'[u] = workers[u] \/ workers'[u] = Resting
  BY DEF Return, Become, EnrichmentInv, Shapes
<1>4. workers' = [u \in Workers |-> workers'[u]]
  BY DEF Return, Become, EnrichmentInv, Shapes
<1>5. Shapes'
  BY <1>1, <1>2, <1>3, <1>4, RestingShape DEF EnrichmentInv, Shapes, Known
<1>6. CarriedKeysAreStored'
  BY <1>3, RestingShape DEF EnrichmentInv, CarriedKeysAreStored, Carries
<1>7. StagedImagesAreStored'
  BY <1>1 DEF EnrichmentInv, StagedImagesAreStored, MayName, Known
<1>8. IdsAreUsedOnce'
  BY DEF EnrichmentInv, IdsAreUsedOnce
<1>9. ReadersAgree'
  BY <1>3, RestingShape DEF EnrichmentInv, ReadersAgree, At
<1> QED
  BY <1>5, <1>6, <1>7, <1>8, <1>9 DEF EnrichmentInv

LEMMA StatusKeeps ==
    ASSUME EnrichmentInv, NEW w \in Workers, SetStatus(w) PROVE EnrichmentInv'
<1> DEFINE me == workers[w]
           v == me.video
           r == [records[v] EXCEPT !.status = me.status]
           picking == [me EXCEPT !.at = "pick"]
<1>1. UNCHANGED <<suggestions, issued, images, performer>>
  BY DEF SetStatus
<1>2. Become(w, picking) \/ Return(w)
  BY DEF SetStatus
<1>3. (Known(v) /\ records' = [records EXCEPT ![v] = r]) \/ UNCHANGED records
  BY DEF SetStatus
<1>4. WorkerShape(picking) /\ Carries(picking) /\ picking.at # "apply"
  <2>1. WorkerShape(me) /\ Carries(me) /\ me.video \in Videos
    BY DEF EnrichmentInv, Shapes, CarriedKeysAreStored, Carries, SetStatus, At
  <2> HIDE DEF me
  <2>2. /\ WorkerShape(picking) /\ picking.at = "pick" /\ picking.keys = me.keys
        /\ picking.urls = me.urls /\ picking.video = me.video
    BY <2>1 DEF WorkerShape, WorkerFields
  <2> HIDE DEF picking
  <2> QED
    BY <2>1, <2>2 DEF Carries
<1>5. (v \in Videos /\ Known(v)) =>
        RecordShape(r) /\ r.cover = records[v].cover /\ r.cover \in MayName("cover") \cup {NoKey}
  BY DEF EnrichmentInv, Shapes, StagedImagesAreStored, RecordShape, RecordFields
<1>6. \A u \in Videos : records'[u] = records[u] \/ (u = v /\ Known(v) /\ records'[u] = r)
  BY <1>3 DEF EnrichmentInv, Shapes
<1>7. records' = [u \in Videos |-> records'[u]]
  BY <1>3 DEF EnrichmentInv, Shapes
<1> HIDE DEF r, picking
<1>8. \A u \in Workers : \/ workers'[u] = workers[u]
                         \/ workers'[u] = Resting
                         \/ workers'[u] = picking
  BY <1>2 DEF Return, Become, EnrichmentInv, Shapes
<1>9. workers' = [u \in Workers |-> workers'[u]]
  BY <1>2 DEF Return, Become, EnrichmentInv, Shapes
<1> HIDE DEF v
<1>10. Shapes'
  BY <1>1, <1>4, <1>5, <1>6, <1>7, <1>8, <1>9, RestingShape DEF EnrichmentInv, Shapes, Known
<1>11. CarriedKeysAreStored'
  BY <1>1, <1>4, <1>8, RestingShape DEF EnrichmentInv, CarriedKeysAreStored, Carries
<1>12. StagedImagesAreStored'
  BY <1>1, <1>5, <1>6 DEF EnrichmentInv, StagedImagesAreStored, MayName, Known
<1>13. IdsAreUsedOnce'
  BY <1>1 DEF EnrichmentInv, IdsAreUsedOnce
<1>14. ReadersAgree'
  BY <1>1, <1>4, <1>8, RestingShape DEF EnrichmentInv, ReadersAgree, At
<1> QED
  BY <1>10, <1>11, <1>12, <1>13, <1>14 DEF EnrichmentInv

\* stagedKey: what was read of a Suggestion names what may be shown.
LEMMA ReplacedMayBeNamed ==
    ASSUME NEW me, Carries(me), NEW kind, NEW old
    PROVE  Replaced(kind, me.keys, me.urls, old) \in MayName(kind) \cup {old}
<1>1. StagedKey(kind, me.keys, me.urls) \subseteq MayName(kind)
  BY DEF StagedKey, MayName, Carries
<1> HIDE DEF StagedKey, MayName
<1> QED
  BY <1>1 DEF Replaced

LEMMA ApplyKeeps ==
    ASSUME EnrichmentInv, NEW w \in Workers, Apply(w) PROVE EnrichmentInv'
<1> DEFINE me == workers[w]
           v == me.video
           cover == Replaced("cover", me.keys, me.urls, records[v].cover)
           r == [records[v] EXCEPT !.code = me.code, !.cover = cover, !.status = "enriched",
                                   !.applied = me.id, !.cast = TRUE]
           avatar == Replaced("avatar", me.keys, me.urls, performer)
<1>1. Known(v) /\ Carries(me) /\ v \in Videos
  BY DEF Apply, At, EnrichmentInv, CarriedKeysAreStored, Carries
<1>2. records' = [records EXCEPT ![v] = r]
  BY DEF Apply
<1>3. UNCHANGED <<issued, images>> /\ suggestions' \subseteq suggestions /\ Return(w) /\ performer' = avatar
  BY DEF Apply
<1>4. avatar \in MayName("avatar") \cup {NoKey}
  BY <1>1, ReplacedMayBeNamed DEF EnrichmentInv, StagedImagesAreStored
<1>5. RecordShape(records[v]) /\ records[v].cover \in MayName("cover") \cup {NoKey}
  BY <1>1 DEF EnrichmentInv, Shapes, StagedImagesAreStored
<1>6. cover \in MayName("cover") \cup {NoKey}
  BY <1>1, <1>5, ReplacedMayBeNamed
<1> HIDE DEF cover
<1>7. RecordShape(r) /\ r.cover = cover
  BY <1>5 DEF RecordShape, RecordFields
<1> HIDE DEF r, v, avatar
<1> QED
  BY <1>2, <1>3, <1>4, <1>6, <1>7, RowsAndSuggestionsKeep

LEMMA BeginKeeps ==
    ASSUME EnrichmentInv, NEW w \in Workers, NEW v \in Videos, NEW auto, BeginEnrich(w, v, auto),
           UNCHANGED <<records, suggestions, issued, images, performer>>
    PROVE  EnrichmentInv'
<1> DEFINE code == ResolveCode(records[v])
           at == IF code = NoCode THEN "status" ELSE "scrape"
           status == IF code = NoCode THEN "no_code" ELSE "none"
           me == [Resting EXCEPT !.video = v, !.auto = auto, !.code = code, !.at = at,
                                 !.status = status]
<1>1. CASE ~Known(v)
  BY <1>1, RestingGoesOn DEF BeginEnrich, Return
<1>2. CASE Known(v)
  <2>1. Become(w, me)
    BY <1>2 DEF BeginEnrich
  <2>2. at # "apply"
    OBVIOUS
  <2> HIDE DEF code, at, status
  <2>3. WorkerShape(me) /\ Carries(me) /\ me.at # "apply"
    BY <2>2, RestingShape DEF WorkerShape, WorkerFields, Carries
  <2> HIDE DEF me
  <2> QED
    BY <2>1, <2>3, WorkerGoesOn
<1> QED
  BY <1>1, <1>2

LEMMA ScrapingKeeps ==
    ASSUME EnrichmentInv, NEW w \in Workers, ScrapeAll(w) PROVE EnrichmentInv'
<1> DEFINE failed == [workers[w] EXCEPT !.at = "status", !.status = "failed"]
           upload(found, todo) == [workers[w] EXCEPT !.at = "upload", !.found = found, !.todo = todo]
<1>1. WorkerShape(workers[w]) /\ Carries(workers[w]) /\ workers[w].video \in Videos
  BY DEF EnrichmentInv, Shapes, CarriedKeysAreStored, Carries, ScrapeAll, At
<1>2. UNCHANGED <<records, suggestions, issued, images, performer>>
  BY DEF ScrapeAll
<1>3. Become(w, failed) \/ \E found, todo : Become(w, upload(found, todo))
  <2> PICK found : Become(w, IF found = <<>> THEN failed ELSE upload(found, ImagesOf(found)))
    BY DEF ScrapeAll
  <2> HIDE DEF upload, failed
  <2> QED
    OBVIOUS
<1>4. WorkerShape(failed) /\ Carries(failed) /\ failed.at # "apply"
  BY <1>1 DEF WorkerShape, WorkerFields, Carries
<1>5. ASSUME NEW found, NEW todo
      PROVE  /\ WorkerShape(upload(found, todo)) /\ Carries(upload(found, todo))
             /\ upload(found, todo).at # "apply"
  BY <1>1 DEF WorkerShape, WorkerFields, Carries
<1> HIDE DEF failed, upload
<1>6. CASE Become(w, failed)
  BY <1>1, <1>2, <1>4, <1>6, WorkerGoesOn
<1>7. ASSUME NEW found, NEW todo, Become(w, upload(found, todo)) PROVE EnrichmentInv'
  <2> DEFINE me == upload(found, todo)
  <2>1. WorkerShape(me) /\ Carries(me) /\ me.at # "apply" /\ Become(w, me)
    BY <1>5, <1>7
  <2> HIDE DEF me
  <2> QED
    BY <1>1, <1>2, <2>1, WorkerGoesOn
<1> QED
  BY <1>3, <1>6, <1>7

\* The steps that only go on to the next one.
LEMMA GoingOnKeeps ==
    ASSUME EnrichmentInv, NEW w \in Workers,
           AutoAcceptHighestPriority(w) \/ ListRemaining(w)
    PROVE  EnrichmentInv'
<1> DEFINE reading(id) == [workers[w] EXCEPT !.at = "read", !.id = id]
           status == [workers[w] EXCEPT !.at = "status"]
<1>1. WorkerShape(workers[w]) /\ Carries(workers[w]) /\ workers[w].video \in Videos
  BY DEF EnrichmentInv, Shapes, CarriedKeysAreStored, Carries, AutoAcceptHighestPriority,
         ListRemaining, At
<1>2. UNCHANGED <<records, suggestions, issued, images, performer>>
  BY DEF AutoAcceptHighestPriority, ListRemaining
<1>3. Return(w) \/ Become(w, status) \/ \E id : Become(w, reading(id))
  <2> DEFINE found == SuggestionsOf(workers[w].video)
             id == Best(found).id
  <2>1. CASE AutoAcceptHighestPriority(w)
    <3>1. Become(w, IF found = {} THEN Resting ELSE reading(id))
      BY <2>1 DEF AutoAcceptHighestPriority
    <3> HIDE DEF found, id, reading
    <3> QED
      BY <3>1 DEF Return
  <2>2. CASE ListRemaining(w)
    BY <2>2 DEF ListRemaining, Return
  <2> QED
    BY <2>1, <2>2
<1>4. WorkerShape(status) /\ Carries(status) /\ status.at # "apply"
  BY <1>1 DEF WorkerShape, WorkerFields, Carries
<1>5. ASSUME NEW id
      PROVE  WorkerShape(reading(id)) /\ Carries(reading(id)) /\ reading(id).at # "apply"
  BY <1>1 DEF WorkerShape, WorkerFields, Carries
<1> HIDE DEF status, reading
<1>6. CASE Return(w)
  BY <1>2, <1>6, RestingGoesOn
<1>7. CASE Become(w, status)
  BY <1>1, <1>2, <1>4, <1>7, WorkerGoesOn
<1>8. ASSUME NEW id, Become(w, reading(id)) PROVE EnrichmentInv'
  <2> DEFINE me == reading(id)
  <2>1. WorkerShape(me) /\ Carries(me) /\ me.at # "apply" /\ Become(w, me)
    BY <1>5, <1>8
  <2> HIDE DEF me
  <2> QED
    BY <1>1, <1>2, <2>1, WorkerGoesOn
<1> QED
  BY <1>3, <1>6, <1>7, <1>8

LEMMA RejectingKeeps ==
    ASSUME EnrichmentInv, NEW w \in Workers, DeleteSuggestion(w) PROVE EnrichmentInv'
<1> DEFINE me == [workers[w] EXCEPT !.at = "remaining"]
<1>1. WorkerShape(workers[w]) /\ Carries(workers[w]) /\ workers[w].video \in Videos
  BY DEF EnrichmentInv, Shapes, CarriedKeysAreStored, Carries, DeleteSuggestion, At
<1>2. UNCHANGED <<records, issued, images, performer>> /\ suggestions' \subseteq suggestions /\ Become(w, me)
  BY DEF DeleteSuggestion
<1>3. WorkerShape(me) /\ Carries(me) /\ me.at # "apply"
  BY <1>1 DEF WorkerShape, WorkerFields, Carries
<1> HIDE DEF me
<1>4. workers'[w] = me /\ \A u \in Workers \ {w} : workers'[u] = workers[u]
  BY <1>2 DEF Become, EnrichmentInv, Shapes
<1>5. workers' = [u \in Workers |-> workers'[u]]
  BY <1>2 DEF Become, EnrichmentInv, Shapes
<1>6. Shapes'
  BY <1>2, <1>3, <1>4, <1>5 DEF EnrichmentInv, Shapes, Known
<1> QED
  BY <1>1, <1>2, <1>3, <1>4, <1>6 DEF EnrichmentInv, CarriedKeysAreStored, Carries,
                    StagedImagesAreStored, MayName, IdsAreUsedOnce, ReadersAgree, At, Known

\* What the two Jobs list, and still have to do.
ListsOfVideos == "todo" \in DOMAIN batch /\ batch.todo \subseteq Videos /\ seeding \subseteq Videos

LEMMA ListsStart == EnrichmentInit => ListsOfVideos
BY DEF EnrichmentInit, ListsOfVideos

LEMMA ListsStep == ListsOfVideos /\ [EnrichmentNext]_enrichmentVars => ListsOfVideos'
<1> SUFFICES ASSUME ListsOfVideos, [EnrichmentNext]_enrichmentVars PROVE ListsOfVideos'
  OBVIOUS
<1>1. CASE StartBatch
  BY <1>1 DEF StartBatch, ListByEnrichmentStatus, ListsOfVideos
<1>2. CASE EnrichOne
  BY <1>2 DEF EnrichOne, ListsOfVideos
<1>3. CASE CancelBatch
  BY <1>3 DEF CancelBatch, ListsOfVideos
<1>4. CASE StartCodeBackfill
  BY <1>4 DEF StartCodeBackfill, ListByEnrichmentStatus, ListsOfVideos
<1>5. CASE SeedCode
  BY <1>5 DEF SeedCode, ListsOfVideos
<1>6. CASE EnrichmentRestart
  BY <1>6 DEF EnrichmentRestart, ListsOfVideos
<1>7. CASE UNCHANGED <<batch, seeding>>
  BY <1>7 DEF ListsOfVideos
<1> QED
  BY <1>1, <1>2, <1>3, <1>4, <1>5, <1>6, <1>7 DEF EnrichmentNext, enrichmentVars, EnrichVideo,
     ScrapeAll, UploadImage, StageSuggestion, SetStatus, AcceptOrReject, AutoAcceptHighestPriority,
     ReadPicked, Apply, DeleteSuggestion, ListRemaining, StatementFails, DeleteEnriched

LEMMA EnrichmentStep ==
    EnrichmentInv /\ ListsOfVideos /\ [EnrichmentNext]_enrichmentVars => EnrichmentInv'
<1> SUFFICES ASSUME EnrichmentInv, ListsOfVideos, [EnrichmentNext]_enrichmentVars
             PROVE  EnrichmentInv'
  OBVIOUS
<1> PICK anyone \in Workers : TRUE
  BY DEF Workers
<1>1. ASSUME NEW w \in Workers, EnrichVideo(w) PROVE EnrichmentInv'
  BY <1>1, BeginKeeps DEF EnrichVideo
<1>2. ASSUME NEW w \in Workers, AcceptOrReject(w) PROVE EnrichmentInv'
  BY <1>2, ReadsOn DEF AcceptOrReject
<1>3. ASSUME NEW w \in Workers, ReadPicked(w) PROVE EnrichmentInv'
  BY <1>3, ReadsOn DEF ReadPicked
<1>4. ASSUME NEW w \in Workers, StatementFails(w) PROVE EnrichmentInv'
  BY <1>4, RestingGoesOn DEF StatementFails
<1>5. CASE StartBatch \/ CancelBatch \/ StartCodeBackfill \/ UNCHANGED enrichmentVars
  BY <1>5 DEF StartBatch, CancelBatch, StartCodeBackfill, enrichmentVars, EnrichmentInv, Shapes, Known,
              CarriedKeysAreStored, Carries, StagedImagesAreStored, MayName, IdsAreUsedOnce,
              ReadersAgree, At
<1>6. CASE EnrichOne
  <2> PICK v \in batch.todo : BeginEnrich(Batch, v, batch.auto)
    BY <1>6 DEF EnrichOne
  <2>1. Batch \in Workers /\ UNCHANGED <<records, suggestions, issued, images, performer>>
    BY <1>6 DEF EnrichOne, Workers
  <2> QED
    BY <2>1, BeginKeeps DEF ListsOfVideos
<1>7. CASE SeedCode
  <2> PICK v \in seeding :
        records' = IF Known(v) THEN [records EXCEPT ![v] = Seeded(records[v])] ELSE records
    BY <1>7 DEF SeedCode
  <2>1. v \in Videos /\ UNCHANGED <<suggestions, issued, images, performer, workers>>
    BY <1>7 DEF SeedCode, ListsOfVideos
  <2>2. CASE Known(v)
    <3> DEFINE code == CodeFromFilename(records[v].file).code
               status == CodeFromFilename(records[v].file).status
               r == [records[v] EXCEPT !.code = code, !.status = status]
    <3>1. records' = [records EXCEPT ![v] = r]
      BY <2>2 DEF Seeded
    <3>2. RecordShape(records[v]) /\ records[v].cover \in MayName("cover") \cup {NoKey}
      BY <2>1, <2>2 DEF EnrichmentInv, Shapes, StagedImagesAreStored
    <3> HIDE DEF code, status
    <3>3. RecordShape(r) /\ r.cover = records[v].cover
      BY <3>2 DEF RecordShape, RecordFields
    <3> HIDE DEF r
    <3>4. performer \in MayName("avatar") \cup {NoKey}
      BY DEF EnrichmentInv, StagedImagesAreStored
    <3> QED
      BY <2>1, <3>1, <3>2, <3>3, <3>4, RowsAndSuggestionsKeep
  <2>3. CASE ~Known(v)
    BY <2>1, <2>3 DEF EnrichmentInv, Shapes, Known,
              CarriedKeysAreStored, Carries, StagedImagesAreStored, MayName, IdsAreUsedOnce,
              ReadersAgree, At
  <2> QED
    BY <2>2, <2>3
<1>8. CASE DeleteEnriched
  <2> PICK v \in Videos : records' = [records EXCEPT ![v] = Deleted]
    BY <1>8 DEF DeleteEnriched
  <2>1. suggestions' \subseteq suggestions /\ UNCHANGED <<issued, images, performer, workers>>
    BY <1>8 DEF DeleteEnriched
  <2> QED
    BY <2>1, RowsAndSuggestionsKeep DEF EnrichmentInv, StagedImagesAreStored
<1>9. CASE EnrichmentRestart
  BY <1>9, RestingShape DEF EnrichmentRestart, EnrichmentInv, Shapes, Known,
              CarriedKeysAreStored, Carries, StagedImagesAreStored, MayName, IdsAreUsedOnce,
              ReadersAgree, At
<1> QED
  BY <1>1, <1>2, <1>3, <1>4, <1>5, <1>6, <1>7, <1>8, <1>9, UploadKeeps, StagingKeeps, StatusKeeps,
     ApplyKeeps, ScrapingKeeps, GoingOnKeeps, RejectingKeeps DEF EnrichmentNext

\* Every key of a Cover or an Avatar, staged, legacy or accepted, names an
\* image of its kind that was stored, or a path that a source's page gave, for
\* any number of Videos, sources, legacy Suggestions, calls and failures
\* (uploadImages, stageSuggestions, stagedKey, applySuggestion).
THEOREM StagedImages == EnrichmentSpec => []StagedImagesAreStored
<1>1. EnrichmentInv => StagedImagesAreStored
  BY DEF EnrichmentInv
<1> QED
  BY <1>1, EnrichmentStart, EnrichmentStep, ListsStart, ListsStep, PTL DEF EnrichmentSpec

\* What was applied is pending no more, and its id is never given again.
AppliedOnce ==
    /\ applications = [id \in 1..MaxSuggestions |-> applications[id]]
    /\ \A id \in 1..MaxSuggestions : applications[id] # 0 =>
         id <= issued /\ \A x \in suggestions : x.id # id

LEMMA AppliedStart == EnrichmentInit => AppliedOnce
BY DEF EnrichmentInit, AppliedOnce

LEMMA AppliedStep ==
    EnrichmentInv /\ AppliedOnce /\ [EnrichmentNext]_enrichmentVars => AppliedOnce'
<1> SUFFICES ASSUME EnrichmentInv, AppliedOnce, [EnrichmentNext]_enrichmentVars PROVE AppliedOnce'
  OBVIOUS
<1>1. ASSUME NEW w \in Workers, Apply(w) PROVE AppliedOnce'
  <2> DEFINE n == workers[w].id
  <2>1. /\ applications' = [applications EXCEPT ![n] = applications[n] + 1]
        /\ suggestions' = {x \in suggestions : x.id # n} /\ UNCHANGED issued
    BY <1>1 DEF Apply
  <2>2. n <= issued
    BY <1>1 DEF Apply, EnrichmentInv, ReadersAgree
  <2> HIDE DEF n
  <2>3. applications' = [id \in 1..MaxSuggestions |-> applications'[id]]
    BY <2>1 DEF AppliedOnce
  <2>4. ASSUME NEW id \in 1..MaxSuggestions, applications'[id] # 0
        PROVE  id <= issued /\ \A x \in suggestions' : x.id # id
    BY <2>1, <2>2, <2>4 DEF AppliedOnce
  <2> QED
    BY <2>1, <2>3, <2>4 DEF AppliedOnce
<1>2. ASSUME NEW w \in Workers, StageSuggestion(w) PROVE AppliedOnce'
  <2> PICK x : x.id = issued + 1 /\ suggestions' = suggestions \cup {x}
    <3> DEFINE new == [id |-> issued + 1, video |-> workers[w].video,
                       source |-> Head(workers[w].found), code |-> workers[w].code,
                       keys |-> {k \in workers[w].keys : k[3] = Head(workers[w].found)},
                       urls |-> {k \in workers[w].urls : k[3] = Head(workers[w].found)}]
    <3>1. suggestions' = suggestions \cup {new} /\ new.id = issued + 1
      BY <1>2 DEF StageSuggestion
    <3> HIDE DEF new
    <3> QED
      BY <3>1
  <2>1. issued' = issued + 1 /\ UNCHANGED applications /\ issued \in Nat
    BY <1>2 DEF StageSuggestion, EnrichmentInv, Shapes
  <2>2. ASSUME NEW id \in 1..MaxSuggestions, applications'[id] # 0
        PROVE  id <= issued' /\ \A y \in suggestions' : y.id # id
    BY <2>1, <2>2 DEF AppliedOnce
  <2> QED
    BY <2>1, <2>2 DEF AppliedOnce
<1>3. CASE UNCHANGED <<applications, issued>> /\ suggestions' \subseteq suggestions
  BY <1>3 DEF AppliedOnce
<1> QED
  BY <1>1, <1>2, <1>3 DEF EnrichmentNext, enrichmentVars, EnrichVideo, ScrapeAll, UploadImage,
     SetStatus, AcceptOrReject, AutoAcceptHighestPriority, ReadPicked, DeleteSuggestion,
     ListRemaining, StatementFails, StartBatch, EnrichOne, CancelBatch, StartCodeBackfill,
     SeedCode, DeleteEnriched, EnrichmentRestart

\* A Suggestion's Metadata is applied once at most, to its own Video, in a step
\* that finds it pending and takes it away: whatever calls and batches race for
\* it, and however often one of them tries (Apply).
THEOREM AppliedWhilePending == EnrichmentSpec => AppliedOnlyWhilePending
<1>1. EnrichmentInv /\ AppliedOnce /\ [EnrichmentNext]_enrichmentVars
        => [\A id \in 1..MaxSuggestions : applications'[id] # applications[id] =>
              /\ applications'[id] = 1
              /\ \E x \in suggestions \ suggestions' :
                   x.id = id /\ Known(x.video)' /\ records'[x.video].applied = id]_enrichmentVars
  <2> SUFFICES ASSUME EnrichmentInv, AppliedOnce, [EnrichmentNext]_enrichmentVars,
                      NEW id \in 1..MaxSuggestions, applications'[id] # applications[id]
               PROVE  /\ applications'[id] = 1
                      /\ \E x \in suggestions \ suggestions' :
                           x.id = id /\ Known(x.video)' /\ records'[x.video].applied = id
    OBVIOUS
  <2>1. ASSUME NEW w \in Workers, Apply(w)
        PROVE  /\ applications'[id] = 1
               /\ \E x \in suggestions \ suggestions' :
                    x.id = id /\ Known(x.video)' /\ records'[x.video].applied = id
    <3> DEFINE me == workers[w]
               cover == Replaced("cover", me.keys, me.urls, records[me.video].cover)
               r == [records[me.video] EXCEPT !.code = me.code, !.cover = cover, !.status = "enriched",
                                              !.applied = me.id, !.cast = TRUE]
    <3>1. /\ records' = [records EXCEPT ![me.video] = r]
          /\ applications' = [applications EXCEPT ![me.id] = applications[me.id] + 1]
          /\ suggestions' = {x \in suggestions : x.id # me.id}
          /\ At(w, "apply") /\ Known(me.video)
      BY <2>1 DEF Apply
    <3>2. id = me.id /\ applications'[id] = applications[id] + 1
      BY <3>1 DEF AppliedOnce
    <3>3. PICK x \in suggestions : x.id = me.id
      BY <2>1 DEF Apply, StillPending
    <3>4. x.video = me.video /\ x \notin suggestions' /\ me.video \in Videos
      BY <3>1, <3>3 DEF EnrichmentInv, ReadersAgree, IdsAreUsedOnce
    <3>5. applications[id] = 0
      BY <3>2, <3>3 DEF AppliedOnce
    <3> HIDE DEF cover
    <3>6. RecordShape(records[me.video])
      BY <3>1, <3>4 DEF EnrichmentInv, Shapes
    <3>7. RecordShape(r) /\ r.applied = me.id
      BY <3>6 DEF RecordShape, RecordFields
    <3>8. r # Deleted
      <4>1. "applied" \in DOMAIN r /\ "applied" \notin DOMAIN Deleted
        BY <3>7 DEF RecordShape, RecordFields, Deleted
      <4> QED
        BY <4>1
    <3>9. records'[me.video] = r
      <4> HIDE DEF r
      <4> QED
        BY <3>1, <3>4 DEF EnrichmentInv, Shapes
    <3> HIDE DEF r, me
    <3> QED
      BY <3>2, <3>3, <3>4, <3>5, <3>7, <3>8, <3>9 DEF Known
  <2>2. CASE UNCHANGED applications
    BY <2>2
  <2> QED
    BY <2>1, <2>2 DEF EnrichmentNext, enrichmentVars, EnrichVideo, ScrapeAll, UploadImage,
       StageSuggestion, SetStatus, AcceptOrReject, AutoAcceptHighestPriority, ReadPicked,
       DeleteSuggestion, ListRemaining, StatementFails, StartBatch, EnrichOne, CancelBatch,
       StartCodeBackfill, SeedCode, DeleteEnriched, EnrichmentRestart
<1> QED
  BY <1>1, EnrichmentStart, EnrichmentStep, ListsStart, ListsStep, AppliedStart, AppliedStep, PTL
  DEF EnrichmentSpec, AppliedOnlyWhilePending

-----------------------------------------------------------------------------
(***************************************************************************)
(* SegmentTable: the boundaries are a loop over the keyframes, so what the *)
(* loop has built after each is an induction over time (Numbers).  The     *)
(* Segments then meet, and what the window takes of ffmpeg's list is what  *)
(* a Segment owns, wherever the seek landed.                               *)
(***************************************************************************)
\* Every set of numbers has a least member; the induction the loop needs.
LEMMA LeastOf ==
    ASSUME NEW S \in SUBSET Nat, S # {}
    PROVE  \E m \in S : \A n \in S : m <= n
<1>1. PICK m \in S : \A n \in S : <<n, m>> \notin OpToRel(<, Nat)
  BY NatLessThanWellFounded, WFMin
<1>2. \A n \in S : ~ (n < m)
  BY <1>1 DEF OpToRel
<1>3. QED
  BY <1>2

LEMMA Numbers ==
    ASSUME NEW S \in SUBSET Nat, 0 \in S, \A n \in S : n + 1 \in S
    PROVE  S = Nat
<1>1. SUFFICES ASSUME Nat \ S # {} PROVE FALSE
  OBVIOUS
<1>2. PICK m \in Nat \ S : \A n \in Nat \ S : m <= n
  BY <1>1, LeastOf
<1>3. m # 0 /\ m - 1 \in Nat
  BY <1>2
<1>4. m - 1 \in S
  BY <1>2, <1>3
<1>5. QED
  BY <1>2, <1>3, <1>4

\* One turn of the loop, and the states of the loop up to time n.
CutAt(times, acc, t) == IF t \in times THEN Cut(acc, t) ELSE acc

GroupedTo(times, n, f) ==
    f = [t \in 0..n |-> IF t = 0 THEN Uncut ELSE CutAt(times, f[t - 1], t)]

\* A function that is defined by the loop exists, and Grouped is one.
LEMMA GroupingEnds ==
    ASSUME NEW times, NEW N \in Nat
    PROVE  \E f : GroupedTo(times, N, f)
<1> DEFINE S == {n \in Nat : \E f : GroupedTo(times, n, f)}
<1>1. 0 \in S
  <2>1. GroupedTo(times, 0, [t \in 0..0 |-> Uncut])
    BY DEF GroupedTo
  <2>2. QED
    BY <2>1
<1>2. ASSUME NEW n \in S PROVE n + 1 \in S
  <2>1. PICK f : GroupedTo(times, n, f)
    OBVIOUS
  <2> DEFINE g == [t \in 0..n + 1 |-> IF t = n + 1 THEN CutAt(times, f[n], t) ELSE f[t]]
  <2>2. n \in Nat
    OBVIOUS
  <2>3. ASSUME NEW t \in 0..n + 1 PROVE g[t] = IF t = 0 THEN Uncut ELSE CutAt(times, g[t - 1], t)
    <3>1. CASE t = n + 1
      <4>1. g[t - 1] = f[n]
        BY <2>2, <3>1
      <4>2. g[t] = CutAt(times, f[n], t)
        BY <2>2, <3>1
      <4> HIDE DEF g
      <4>3. QED
        BY <2>2, <3>1, <4>1, <4>2
    <3>2. CASE t # n + 1
      <4>1. t \in 0..n
        BY <2>2, <3>2
      <4>2. g[t] = f[t]
        BY <3>2
      <4>3. t # 0 => g[t - 1] = f[t - 1]
        BY <2>2, <4>1
      <4>4. f[t] = IF t = 0 THEN Uncut ELSE CutAt(times, f[t - 1], t)
        BY <2>1, <4>1 DEF GroupedTo
      <4> HIDE DEF g
      <4>5. QED
        BY <4>2, <4>3, <4>4
    <3>3. QED
      BY <3>1, <3>2
  <2>4. g = [t \in 0..n + 1 |-> g[t]]
    OBVIOUS
  <2> HIDE DEF g
  <2>5. GroupedTo(times, n + 1, g)
    BY <2>3, <2>4 DEF GroupedTo
  <2>6. QED
    BY <2>2, <2>5
<1> HIDE DEF S
<1>3. S \in SUBSET Nat
  BY DEF S
<1>4. S = Nat
  BY <1>1, <1>2, <1>3, Numbers
<1>5. QED
  BY <1>4 DEF S

LEMMA GroupedIs ==
    ASSUME NEW times, Longest \in Nat
    PROVE  GroupedTo(times, Longest, Grouped(times))
<1>1. Grouped(times) = CHOOSE f : GroupedTo(times, Longest, f)
  BY DEF Grouped, GroupedTo, CutAt
<1>2. QED
  BY <1>1, GroupingEnds

Boundary == [start : Nat, duration : Nat]

\* Each row ends where the next one starts, at a keyframe, and is long enough.
Meeting(table, times) ==
    \A i \in 1..Len(table) - 1 :
       /\ table[i].start + table[i].duration = table[i + 1].start
       /\ table[i + 1].start \in times
       /\ table[i].duration >= Target

\* The loop's invariant: the rows meet and end at cur, a keyframe or 0.
CutSoFar(acc, times, n) ==
    /\ acc.cur \in 0..n
    /\ acc.table \in Seq(Boundary)
    /\ Meeting(acc.table, times)
    /\ IF acc.table = <<>>
       THEN acc.cur = 0
       ELSE LET last == acc.table[Len(acc.table)]
            IN  /\ acc.cur \in times
                /\ acc.table[1].start = 0
                /\ last.start + last.duration = acc.cur
                /\ last.duration >= Target

LEMMA AppendMeets ==
    ASSUME NEW times, NEW table \in Seq(Boundary), Meeting(table, times), NEW row \in Boundary,
           table # <<>> =>
             LET last == table[Len(table)]
             IN  /\ last.start + last.duration = row.start
                 /\ last.duration >= Target
                 /\ row.start \in times
    PROVE  /\ Meeting(Append(table, row), times)
           /\ Append(table, row) \in Seq(Boundary)
           /\ Len(Append(table, row)) = Len(table) + 1
           /\ Append(table, row)[Len(table) + 1] = row
           /\ \A i \in 1..Len(table) : Append(table, row)[i] = table[i]
<1> DEFINE longer == Append(table, row)
           n == Len(table)
<1>1. /\ n \in Nat
      /\ longer \in Seq(Boundary)
      /\ Len(longer) = n + 1
      /\ longer[n + 1] = row
  OBVIOUS
<1>2. \A i \in 1..n : longer[i] = table[i]
  OBVIOUS
<1>3. ASSUME NEW i \in 1..Len(longer) - 1
      PROVE  /\ longer[i].start + longer[i].duration = longer[i + 1].start
             /\ longer[i + 1].start \in times
             /\ longer[i].duration >= Target
  <2>1. i \in 1..n /\ longer[i] = table[i]
    BY <1>1, <1>2
  <2>2. CASE i = n
    <3>1. table # <<>>
      BY <1>1, <2>1
    <3>2. longer[i + 1] = row
      BY <1>1, <2>2
    <3> HIDE DEF longer
    <3>3. QED
      BY <2>1, <2>2, <3>1, <3>2
  <2>3. CASE i # n
    <3>1. i \in 1..n - 1 /\ i + 1 \in 1..n
      BY <1>1, <2>1, <2>3
    <3>2. longer[i + 1] = table[i + 1]
      BY <1>2, <3>1
    <3> HIDE DEF longer
    <3>3. QED
      BY <2>1, <3>1, <3>2 DEF Meeting
  <2>4. QED
    BY <2>2, <2>3
<1> HIDE DEF longer
<1>4. Meeting(longer, times)
  BY <1>3 DEF Meeting
<1>5. QED
  BY <1>1, <1>2, <1>4 DEF longer

\* A keyframe far enough from cur closes a row.
LEMMA CutHere ==
    ASSUME NEW acc, NEW pts, pts - acc.cur >= Target
    PROVE  Cut(acc, pts) = [table |-> Append(acc.table, [start |-> acc.cur, duration |-> pts - acc.cur]),
                            cur |-> pts]
<1> DEFINE longer == Append(acc.table, [start |-> acc.cur, duration |-> pts - acc.cur])
<1>1. Cut(acc, pts) = IF pts - acc.cur >= Target THEN [table |-> longer, cur |-> pts] ELSE acc
  BY DEF Cut
<1> HIDE DEF longer
<1>2. Cut(acc, pts) = [table |-> longer, cur |-> pts]
  BY <1>1, Zenon
<1>3. QED
  BY <1>2 DEF longer

LEMMA CutMeets ==
    ASSUME NEW times \in SUBSET Nat, NEW acc, NEW n \in Nat, CutSoFar(acc, times, n),
           NEW pts \in times, pts = n + 1, Target \in Nat \ {0}
    PROVE  CutSoFar(Cut(acc, pts), times, pts)
<1>0. acc.cur \in Nat
  BY DEF CutSoFar
<1>1. CASE pts - acc.cur >= Target
  <2> DEFINE row == [start |-> acc.cur, duration |-> pts - acc.cur]
             longer == Append(acc.table, row)
  <2>1. row \in Boundary /\ row.start = acc.cur /\ row.duration = pts - acc.cur
    BY DEF CutSoFar, Boundary
  <2>2. Cut(acc, pts) = [table |-> longer, cur |-> pts]
    BY <1>1, CutHere
  <2>3. /\ Meeting(longer, times)
        /\ longer \in Seq(Boundary)
        /\ Len(longer) = Len(acc.table) + 1
        /\ longer[Len(acc.table) + 1] = row
        /\ \A i \in 1..Len(acc.table) : longer[i] = acc.table[i]
    <3> HIDE DEF row
    <3>1. QED
      BY <2>1, AppendMeets DEF CutSoFar
  <2>4. Len(acc.table) \in Nat /\ (acc.table = <<>> <=> Len(acc.table) = 0)
    BY DEF CutSoFar
  <2> HIDE DEF longer
  <2>5. longer # <<>>
    BY <2>3, <2>4
  <2>6. longer[1].start = 0
    <3>1. CASE acc.table = <<>>
      <4>1. longer[1] = row
        BY <2>3, <2>4, <3>1
      <4>2. QED
        BY <2>1, <3>1, <4>1 DEF CutSoFar
    <3>2. CASE acc.table # <<>>
      <4>1. longer[1] = acc.table[1]
        BY <2>3, <2>4, <3>2
      <4>2. QED
        BY <3>2, <4>1 DEF CutSoFar
    <3>3. QED
      BY <3>1, <3>2
  <2>7. longer[Len(longer)] = row
    BY <2>3
  <2> HIDE DEF row
  <2> DEFINE next == [table |-> longer, cur |-> pts]
  <2>8. next.table = longer /\ next.cur = pts
    OBVIOUS
  <2> HIDE DEF next
  <2>9. acc.cur + (pts - acc.cur) = pts
    BY DEF CutSoFar
  <2>10. CutSoFar(next, times, pts)
    BY <1>1, <2>1, <2>3, <2>5, <2>6, <2>7, <2>8, <2>9 DEF CutSoFar
  <2>11. QED
    BY <2>2, <2>10 DEF next
<1>2. CASE ~ (pts - acc.cur >= Target)
  <2>1. Cut(acc, pts) = acc
    BY <1>0, <1>2 DEF Cut
  <2>2. acc.cur \in 0..pts
    BY DEF CutSoFar
  <2>3. QED
    BY <2>1, <2>2 DEF CutSoFar
<1>3. QED
  BY <1>1, <1>2

LEMMA GroupedMeets ==
    ASSUME NEW times \in SUBSET Nat, SegmentTableAssumption
    PROVE  CutSoFar(Grouped(times)[Longest], times, Longest)
<1> DEFINE f == Grouped(times)
           S == {n \in Nat : n <= Longest => CutSoFar(f[n], times, n)}
<1>1. Longest \in Nat /\ Target \in Nat \ {0}
  BY DEF SegmentTableAssumption
<1>2. \A t \in 0..Longest : f[t] = IF t = 0 THEN Uncut ELSE CutAt(times, f[t - 1], t)
  <2>1. GroupedTo(times, Longest, f)
    BY <1>1, GroupedIs
  <2> HIDE DEF f
  <2>2. QED
    BY <2>1 DEF GroupedTo
<1> HIDE DEF f
<1>3. 0 \in S
  <2>1. f[0] = Uncut
    BY <1>1, <1>2
  <2>2. CutSoFar(Uncut, times, 0)
    BY DEF CutSoFar, Uncut, Meeting
  <2>3. QED
    BY <2>1, <2>2
<1>4. ASSUME NEW n \in S PROVE n + 1 \in S
  <2>1. SUFFICES ASSUME n + 1 <= Longest PROVE CutSoFar(f[n + 1], times, n + 1)
    OBVIOUS
  <2>2. n \in Nat /\ CutSoFar(f[n], times, n)
    BY <1>1, <2>1
  <2>3. f[n + 1] = CutAt(times, f[n], n + 1)
    BY <1>1, <1>2, <2>1, <2>2
  <2>4. CASE n + 1 \in times
    BY <1>1, <2>2, <2>3, <2>4, CutMeets DEF CutAt
  <2>5. CASE n + 1 \notin times
    <3>1. f[n + 1] = f[n]
      BY <2>3, <2>5 DEF CutAt
    <3>2. f[n].cur \in 0..n + 1
      BY <2>2 DEF CutSoFar
    <3>3. QED
      BY <2>2, <3>1, <3>2 DEF CutSoFar
  <2>6. QED
    BY <2>4, <2>5
<1> HIDE DEF S
<1>5. S = Nat
  <2>1. S \in SUBSET Nat
    BY DEF S
  <2>2. QED
    BY <1>3, <1>4, <2>1, Numbers
<1>6. QED
  BY <1>1, <1>5 DEF S, f

\* What is known of a file: keyframes before its end, one of them early.
FileOK ==
    /\ file.keys \in SUBSET Nat
    /\ file.seen \in SUBSET file.keys
    /\ file.total \in Nat
    /\ file.total > 0 => \A k \in file.keys : k < file.total
    /\ \E k \in file.keys : k <= Backoff

\* The rows cover 0 to total without hole or overlap.
Tiles(table, times, total) ==
    /\ table \in Seq(Boundary)
    /\ \A i \in 1..Len(table) :
         /\ table[i].start + table[i].duration = IF i = Len(table) THEN total ELSE table[i + 1].start
         /\ IF i = 1 THEN table[i].start = 0 ELSE table[i].start \in times /\ table[i].start >= Target
         /\ i # Len(table) => table[i].duration >= Target

\* The last row is long enough, too, or alone.
TailJoined(table) ==
    \/ Len(table) = 1
    \/ table[Len(table)].duration >= ShortTail
    \/ table[Len(table)].duration >= Target

LEMMA MeetingTiles ==
    ASSUME NEW times, NEW total, NEW table \in Seq(Boundary), Meeting(table, times), table # <<>>,
           table[1].start = 0, table[Len(table)].start + table[Len(table)].duration = total,
           Target \in Nat
    PROVE  Tiles(table, times, total)
<1>1. Len(table) \in Nat
  OBVIOUS
<1>2. ASSUME NEW i \in 1..Len(table)
      PROVE  table[i].start + table[i].duration = IF i = Len(table) THEN total ELSE table[i + 1].start
  <2>1. CASE i = Len(table)
    BY <2>1
  <2>2. CASE i # Len(table)
    <3>1. i \in 1..Len(table) - 1
      BY <1>1, <2>2
    <3>2. QED
      BY <2>2, <3>1 DEF Meeting
  <2>3. QED
    BY <2>1, <2>2
<1>3. ASSUME NEW i \in 1..Len(table), i # 1
      PROVE  table[i].start \in times /\ table[i].start >= Target
  <2>1. i - 1 \in 1..Len(table) - 1 /\ i - 1 \in 1..Len(table) /\ (i - 1) + 1 = i
    BY <1>1, <1>3
  <2>2. table[i - 1] \in Boundary
    BY <2>1
  <2>3. table[i - 1].start \in Nat /\ table[i - 1].duration \in Nat
    BY <2>2 DEF Boundary
  <2>4. /\ table[i - 1].start + table[i - 1].duration = table[i].start
        /\ table[i].start \in times
        /\ table[i - 1].duration >= Target
    BY <2>1 DEF Meeting
  <2>5. QED
    BY <2>3, <2>4
<1>4. ASSUME NEW i \in 1..Len(table), i # Len(table)
      PROVE  table[i].duration >= Target
  <2>1. i \in 1..Len(table) - 1
    BY <1>1, <1>4
  <2>2. QED
    BY <2>1 DEF Meeting
<1>5. QED
  BY <1>2, <1>3, <1>4 DEF Tiles

LEMMA LastReplaced ==
    ASSUME NEW S, NEW s \in Seq(S), s # <<>>, NEW x \in S, NEW new, new = [s EXCEPT ![Len(s)] = x]
    PROVE  /\ new \in Seq(S)
           /\ Len(new) = Len(s)
           /\ new[Len(new)] = x
           /\ \A i \in 1..Len(s) - 1 : new[i] = s[i]
<1>1. Len(s) \in Nat \ {0} /\ Len(s) \in 1..Len(s)
  OBVIOUS
<1>2. new \in Seq(S) /\ Len(new) = Len(s)
  BY <1>1
<1>3. new[Len(s)] = x
  BY <1>1
<1>4. \A i \in 1..Len(s) - 1 : new[i] = s[i]
  BY <1>1
<1>5. QED
  BY <1>2, <1>3, <1>4

LEMMA ClosedTiles ==
    ASSUME NEW times \in SUBSET Nat, NEW total \in Nat, total > 0, \A t \in times : t < total,
           NEW n \in Nat, NEW acc, CutSoFar(acc, times, n), SegmentTableAssumption
    PROVE  /\ Tiles(CloseTable(acc, total), times, total)
           /\ CloseTable(acc, total) # <<>>
           /\ TailJoined(CloseTable(acc, total))
<1> DEFINE last == acc.table[Len(acc.table)]
<1>0. Target \in Nat \ {0}
  BY DEF SegmentTableAssumption
<1>1. /\ acc.cur \in Nat
      /\ acc.table \in Seq(Boundary)
      /\ Meeting(acc.table, times)
      /\ Len(acc.table) \in Nat
      /\ acc.table = <<>> <=> Len(acc.table) = 0
  BY DEF CutSoFar
<1>2. acc.cur < total
  BY <1>1 DEF CutSoFar
<1>3. CASE total - acc.cur >= ShortTail \/ acc.table = <<>>
  <2> DEFINE row == [start |-> acc.cur, duration |-> total - acc.cur]
             longer == Append(acc.table, row)
  <2>1. CloseTable(acc, total) = longer
    BY <1>3 DEF CloseTable
  <2>2. row \in Boundary /\ row.start = acc.cur /\ row.start + row.duration = total
    BY <1>1, <1>2 DEF Boundary
  <2> HIDE DEF row
  <2>3. /\ Meeting(longer, times)
        /\ longer \in Seq(Boundary)
        /\ Len(longer) = Len(acc.table) + 1
        /\ longer[Len(acc.table) + 1] = row
        /\ \A i \in 1..Len(acc.table) : longer[i] = acc.table[i]
    BY <1>1, <2>2, AppendMeets DEF CutSoFar
  <2> HIDE DEF longer
  <2>4. longer # <<>>
    BY <1>1, <2>3
  <2>5. longer[1].start = 0
    <3>1. CASE acc.table = <<>>
      <4>1. longer[1] = row
        BY <1>1, <2>3, <3>1
      <4>2. QED
        BY <2>2, <3>1, <4>1 DEF CutSoFar
    <3>2. CASE acc.table # <<>>
      <4>1. longer[1] = acc.table[1]
        BY <1>1, <2>3, <3>2
      <4>2. QED
        BY <3>2, <4>1 DEF CutSoFar
    <3>3. QED
      BY <3>1, <3>2
  <2>6. longer[Len(longer)] = row
    BY <2>3
  <2>7. Tiles(longer, times, total)
    BY <1>0, <2>2, <2>3, <2>4, <2>5, <2>6, MeetingTiles
  <2>8. TailJoined(longer)
    <3>1. CASE acc.table = <<>>
      BY <1>1, <2>3, <3>1 DEF TailJoined
    <3>2. CASE total - acc.cur >= ShortTail
      <4>1. row.duration = total - acc.cur
        BY DEF row
      <4>2. QED
        BY <2>6, <3>2, <4>1 DEF TailJoined
    <3>3. QED
      BY <1>3, <3>1, <3>2
  <2>9. QED
    BY <2>1, <2>4, <2>7, <2>8
<1>4. CASE ~ (total - acc.cur >= ShortTail) /\ acc.table # <<>>
  <2> DEFINE row == [last EXCEPT !.duration = total - last.start]
             table == [acc.table EXCEPT ![Len(acc.table)].duration = total - last.start]
  <2>1. CloseTable(acc, total) = table
    BY <1>4 DEF CloseTable
  <2>2. Len(acc.table) \in 1..Len(acc.table) /\ last \in Boundary
    BY <1>1, <1>4
  <2>3. last.start \in Nat /\ last.duration \in Nat /\ last.start + last.duration = acc.cur
    BY <1>4, <2>2 DEF CutSoFar, Boundary
  <2>4. last.start \in Nat /\ total - last.start \in Nat
    <3> HIDE DEF last
    <3>1. last.start <= acc.cur
      BY <2>3
    <3>2. QED
      BY <1>1, <1>2, <2>3, <3>1
  <2>5. /\ row.start = last.start
        /\ row.duration = total - last.start
        /\ row \in Boundary
    BY <2>2, <2>4 DEF Boundary
  <2>6. table = [acc.table EXCEPT ![Len(acc.table)] = row]
    OBVIOUS
  <2> HIDE DEF row
  <2>7. /\ table \in Seq(Boundary)
        /\ Len(table) = Len(acc.table)
        /\ table[Len(table)] = row
        /\ \A i \in 1..Len(acc.table) - 1 : table[i] = acc.table[i]
    <3> HIDE DEF table
    <3>1. QED
      BY <1>1, <1>4, <2>5, <2>6, LastReplaced
  <2> HIDE DEF table
  <2>8. ASSUME NEW i \in 1..Len(table) PROVE table[i].start = acc.table[i].start
    <3>1. CASE i = Len(table)
      <4>1. table[i].start = row.start
        BY <2>7, <3>1
      <4>2. acc.table[i].start = last.start
        BY <2>7, <3>1
      <4>3. QED
        BY <2>5, <4>1, <4>2
    <3>2. CASE i # Len(table)
      <4>1. i \in 1..Len(acc.table) - 1
        BY <1>1, <2>7, <3>2
      <4>2. QED
        BY <2>7, <4>1
    <3>3. QED
      BY <3>1, <3>2
  <2> HIDE DEF last
  <2>9. ASSUME NEW i \in 1..Len(table) - 1
        PROVE  /\ table[i].start + table[i].duration = table[i + 1].start
               /\ table[i + 1].start \in times
               /\ table[i].duration >= Target
    <3>1. /\ i \in 1..Len(acc.table) - 1
          /\ i + 1 \in 1..Len(table)
      BY <1>1, <2>7
    <3>2. table[i] = acc.table[i] /\ table[i + 1].start = acc.table[i + 1].start
      BY <2>7, <2>8, <3>1
    <3>3. QED
      BY <1>1, <3>1, <3>2 DEF Meeting
  <2>10. Meeting(table, times)
    BY <2>9 DEF Meeting
  <2>11. table # <<>> /\ 1 \in 1..Len(table)
    BY <1>1, <1>4, <2>7
  <2>12. table[1].start = 0
    BY <1>4, <2>8, <2>11 DEF CutSoFar
  <2>13. table[Len(table)].start + table[Len(table)].duration = total
    BY <2>3, <2>4, <2>5, <2>7
  <2>14. Tiles(table, times, total)
    BY <1>0, <2>7, <2>10, <2>11, <2>12, <2>13, MeetingTiles
  <2>15. table[Len(table)].duration >= Target
    <3>1. last.duration >= Target
      BY <1>4 DEF CutSoFar, last
    <3>2. total - last.start >= last.duration
      BY <1>1, <1>2, <2>3
    <3>3. QED
      BY <1>0, <2>3, <2>4, <2>5, <2>7, <3>1, <3>2
  <2>16. QED
    BY <2>1, <2>11, <2>14, <2>15 DEF TailJoined
<1>5. QED
  BY <1>3, <1>4

LEMMA TableTiles ==
    ASSUME FileOK
    PROVE  /\ Tiles(Table, file.seen, file.total)
           /\ Table # <<>> => Probed(file) /\ TailJoined(Table)
<1>1. CASE Probed(file)
  <2> DEFINE acc == Grouped(file.seen)[Longest]
  <2>1. Table = CloseTable(acc, file.total)
    BY <1>1 DEF Table, GroupSegments
  <2>2. file.seen \in SUBSET Nat /\ file.total \in Nat /\ file.total > 0
        /\ \A t \in file.seen : t < file.total
    BY <1>1 DEF FileOK, Probed
  <2>3. CutSoFar(acc, file.seen, Longest)
    BY <2>2, GroupedMeets, SegmentTableAssumption
  <2>4. Longest \in Nat
    BY SegmentTableAssumption DEF SegmentTableAssumption
  <2> HIDE DEF acc
  <2>5. QED
    BY <1>1, <2>1, <2>2, <2>3, <2>4, ClosedTiles, SegmentTableAssumption
<1>2. CASE ~ Probed(file)
  <2>1. Table = <<>>
    BY <1>2 DEF Table
  <2>2. QED
    BY <2>1 DEF Tiles
<1>3. QED
  BY <1>1, <1>2

\* A part ends no later than any keyframe that follows it.
LEMMA NextKeyframe ==
    ASSUME FileOK, NEW until \in Nat, NEW k \in Nat, NEW n \in file.keys, n > k
    PROVE  EndOfPart(k, until) \in Nat /\ EndOfPart(k, until) <= n
<1> DEFINE later == {m \in file.keys \cup {file.total, until} : m > k}
<1>1. later \in SUBSET Nat /\ n \in later
  BY DEF FileOK
<1>2. EndOfPart(k, until) = CHOOSE m \in later : \A o \in later : m <= o
  BY DEF EndOfPart
<1> HIDE DEF later
<1>3. \E m \in later : \A o \in later : m <= o
  BY <1>1, LeastOf
<1>4. EndOfPart(k, until) \in later /\ \A o \in later : EndOfPart(k, until) <= o
  BY <1>2, <1>3
<1>5. QED
  BY <1>1, <1>4

LEMMA BoundariesMeet ==
    ASSUME FileOK, NEW i \in DOMAIN Table
    PROVE  /\ Table[i].start = StartOf(i)
           /\ Table[i].start + Table[i].duration = EndOf(i)
           /\ Table[i].start \in Nat /\ Table[i].duration \in Nat
           /\ i = 1 => Table[i].start = 0
           /\ i # 1 => Table[i].start >= Target
           /\ \A k \in file.keys : i = 1 /\ k <= Backoff => k < EndOf(i)
<1>1. Tiles(Table, file.seen, file.total) /\ Probed(file)
  <2>1. Table # <<>>
    BY TableTiles DEF Tiles
  <2>2. QED
    BY <2>1, TableTiles
<1>2. /\ i \in 1..Len(Table) /\ Len(Table) \in Nat
      /\ \A j \in 1..Len(Table) : Table[j] \in Boundary
  BY <1>1 DEF Tiles
<1>3. /\ Table[i].start \in Nat /\ Table[i].duration \in Nat
      /\ Table[i].start + Table[i].duration = IF i = Len(Table) THEN file.total ELSE Table[i + 1].start
      /\ IF i = 1 THEN Table[i].start = 0 ELSE Table[i].start \in file.seen /\ Table[i].start >= Target
  BY <1>1, <1>2 DEF Tiles, Boundary
<1>4. EndOf(i) = IF i = Len(Table) THEN file.total ELSE Table[i + 1].start
  BY DEF EndOf
<1>5. StartOf(i) = Table[i].start
  BY <1>3 DEF StartOf
<1>6. ASSUME NEW k \in file.keys, k <= Backoff, i = 1
      PROVE  k < EndOf(i)
  <2>1. CASE i = Len(Table)
    BY <1>1, <1>4, <2>1 DEF FileOK, Probed
  <2>2. CASE i # Len(Table)
    <3>1. i + 1 \in 1..Len(Table) /\ i + 1 # 1
      BY <1>2, <2>2
    <3>2. Table[i + 1].start >= Target /\ Table[i + 1].start \in Nat
      BY <1>1, <1>2, <3>1 DEF Tiles, Boundary
    <3>3. k \in Nat
      BY DEF FileOK
    <3>4. Backoff < Target /\ Backoff \in Nat /\ Target \in Nat
      BY SegmentTableAssumption DEF SegmentTableAssumption
    <3>5. QED
      BY <1>4, <1>6, <2>2, <3>2, <3>3, <3>4
  <2>3. QED
    BY <2>1, <2>2
<1>7. QED
  BY <1>3, <1>4, <1>5, <1>6

\* A row of ffmpeg's list, and the keyframes of Segment i.
Row(k, landing, until) ==
    [key |-> k, start |-> IF k = landing THEN 0 ELSE k, end |-> EndOfPart(k, until)]

OwnKeys(i) == {k \in file.keys : (i = 1 \/ StartOf(i) <= k) /\ k < EndOf(i)}

\* The seek lands before a later Segment, and before every keyframe for the first.
LEMMA LandsBefore ==
    ASSUME FileOK, NEW i \in DOMAIN Table, NEW landing \in Landings(Table[i].start)
    PROVE  /\ landing \in file.keys
           /\ i = 1 => landing < EndOf(i) /\ \A k \in file.keys : landing <= k
           /\ i # 1 => landing < Table[i].start
<1>1. /\ Table[i].start \in Nat
      /\ i = 1 => Table[i].start = 0
      /\ i # 1 => Table[i].start >= Target
      /\ \A k \in file.keys : i = 1 /\ k <= Backoff => k < EndOf(i)
  BY BoundariesMeet
<1>2. Backoff \in Nat /\ Backoff > 0 /\ Target \in Nat /\ Backoff < Target
  BY SegmentTableAssumption DEF SegmentTableAssumption
<1> DEFINE start == Table[i].start
           reached == {k \in file.keys : k <= SeekTo(start)}
<1>3. SeekTo(start) \in Nat /\ (i = 1 => SeekTo(start) = 0) /\ (i # 1 => SeekTo(start) < start)
  BY <1>1, <1>2 DEF SeekTo
<1>4. landing \in file.keys /\ (landing <= SeekTo(start) \/ \A k \in file.keys : landing <= k)
  BY DEF Landings
<1>5. landing \in Nat /\ \A k \in file.keys : k \in Nat
  BY <1>4 DEF FileOK
<1> HIDE DEF start, reached
<1>6. PICK early \in file.keys : early <= Backoff
  BY DEF FileOK
<1>7. ASSUME i = 1 PROVE \A k \in file.keys : landing <= k
  BY <1>3, <1>4, <1>5, <1>7
<1>8. ASSUME i = 1 PROVE landing < EndOf(i)
  <2>1. landing <= early
    BY <1>7, <1>8
  <2>2. landing <= Backoff
    BY <1>2, <1>5, <1>6, <2>1
  <2>3. QED
    BY <1>1, <1>4, <1>8, <2>2
<1>9. ASSUME i # 1 PROVE landing < start
  <2>1. CASE landing <= SeekTo(start)
    BY <1>1, <1>3, <1>5, <1>9, <2>1 DEF start
  <2>2. CASE \A k \in file.keys : landing <= k
    <3>1. landing <= early /\ early \in Nat
      BY <1>5, <2>2
    <3>2. QED
      BY <1>1, <1>2, <1>5, <1>6, <1>9, <3>1 DEF start
  <2>3. QED
    BY <1>4, <2>1, <2>2
<1>10. QED
  BY <1>4, <1>7, <1>8, <1>9 DEF start

\* The window takes the rows of a Segment's own keyframes and no others.
LEMMA WindowIsOwn ==
    ASSUME FileOK, NEW i \in DOMAIN Table, NEW landing \in Landings(Table[i].start), NEW until \in Nat,
           EndOf(i) < until, NEW k \in file.keys
    PROVE  /\ (landing <= k /\ k < until /\ InWindow(Row(k, landing, until), StartOf(i), EndOf(i)))
                 <=> k \in OwnKeys(i)
           /\ k \in OwnKeys(i) /\ i # 1 => k # landing
<1>1. /\ StartOf(i) \in Nat /\ EndOf(i) \in Nat
      /\ i = 1 => StartOf(i) = 0
      /\ i # 1 => StartOf(i) >= Target
  BY BoundariesMeet
<1>2. /\ landing \in file.keys
      /\ i = 1 => landing < EndOf(i) /\ landing <= k
      /\ i # 1 => landing < StartOf(i)
  BY BoundariesMeet, LandsBefore
<1>3. k \in Nat /\ landing \in Nat /\ Target \in Nat /\ Target > 0
  BY <1>2, SegmentTableAssumption DEF FileOK, SegmentTableAssumption
<1>4. Row(k, landing, until).start = IF k = landing THEN 0 ELSE k
  BY DEF Row
<1>5. InWindow(Row(k, landing, until), StartOf(i), EndOf(i))
        <=> StartOf(i) <= (IF k = landing THEN 0 ELSE k) /\ (IF k = landing THEN 0 ELSE k) < EndOf(i)
  BY <1>4 DEF InWindow
<1>6. k \in OwnKeys(i) <=> (i = 1 \/ StartOf(i) <= k) /\ k < EndOf(i)
  BY DEF OwnKeys
<1>7. QED
  BY <1>1, <1>2, <1>3, <1>5, <1>6

LEMMA ListedParts ==
    ASSUME FileOK, NEW i \in DOMAIN Table, NEW landing \in Landings(Table[i].start), NEW until \in Nat,
           EndOf(i) < until, NEW lost
    PROVE  PartsOf({p \in PartList(landing, until) : p.key \notin lost}, StartOf(i), EndOf(i))
             = {Row(k, landing, until) : k \in OwnKeys(i) \ lost}
<1> DEFINE listed == {n \in file.keys : landing <= n /\ n < until}
           parts == PartsOf({p \in PartList(landing, until) : p.key \notin lost}, StartOf(i), EndOf(i))
           owned == {Row(k, landing, until) : k \in OwnKeys(i) \ lost}
<1>1. PartList(landing, until) = {Row(k, landing, until) : k \in listed}
  BY DEF PartList, Row
<1>2. \A k : Row(k, landing, until).key = k
  BY DEF Row
<1>3. \A p : p \in parts <=> /\ \E k \in listed : p = Row(k, landing, until)
                             /\ p.key \notin lost
                             /\ InWindow(p, StartOf(i), EndOf(i))
  BY <1>1 DEF PartsOf
<1>4. \A k \in file.keys : k \in listed /\ InWindow(Row(k, landing, until), StartOf(i), EndOf(i))
                             <=> k \in OwnKeys(i)
  BY WindowIsOwn
<1>5. OwnKeys(i) \subseteq file.keys /\ listed \subseteq file.keys
  BY DEF OwnKeys
<1> HIDE DEF listed
<1>6. ASSUME NEW p \in parts PROVE p \in owned
  <2> HIDE DEF parts
  <2>1. PICK k \in listed : p = Row(k, landing, until)
    BY <1>3
  <2>2. k \notin lost /\ k \in OwnKeys(i)
    BY <1>2, <1>3, <1>4, <1>5, <2>1
  <2>3. QED
    BY <2>1, <2>2
<1>7. ASSUME NEW p \in owned PROVE p \in parts
  <2>1. PICK k \in OwnKeys(i) \ lost : p = Row(k, landing, until)
    OBVIOUS
  <2> HIDE DEF parts, owned
  <2>2. k \in listed /\ InWindow(p, StartOf(i), EndOf(i)) /\ p.key \notin lost
    BY <1>2, <1>4, <1>5, <2>1
  <2>3. QED
    BY <1>3, <2>1, <2>2
<1> HIDE DEF parts, owned
<1>8. parts = owned
  BY <1>6, <1>7
<1>9. QED
  BY <1>8 DEF parts, owned

\* The part of SegmentsTileTheVideo that is about a Segment that was made.
WholeSegment(i, kept, lost) ==
    /\ kept \subseteq OwnKeys(i)
    /\ \E k \in kept : \A n \in OwnKeys(i) : k <= n
    /\ \A k \in OwnKeys(i) \ kept :
         /\ k \in lost
         /\ \/ \A p \in kept : p < k
            \/ EndOfPart(k, file.total) - k <= MaxGap

\* The two checks of selectPartsFromList leave out no more than that.
LEMMA AcceptedIsWhole ==
    ASSUME FileOK, NEW i \in DOMAIN Table, NEW landing \in Landings(Table[i].start), NEW until \in Nat,
           EndOf(i) < until, NEW lost,
           Acceptable({Row(k, landing, until) : k \in OwnKeys(i) \ lost}, StartOf(i))
    PROVE  WholeSegment(i, OwnKeys(i) \ lost, lost)
<1> DEFINE own == OwnKeys(i)
           kept == own \ lost
           R(k) == Row(k, landing, until)
           parts == {R(k) : k \in kept}
<1>1. own \subseteq file.keys /\ own \in SUBSET Nat /\ kept \subseteq own
  BY DEF OwnKeys, FileOK
<1>2. \A k : /\ R(k).key = k
             /\ R(k).end = EndOfPart(k, until)
             /\ R(k).start = IF k = landing THEN 0 ELSE k
  BY DEF Row
<1>3. /\ \E k \in kept : R(k).start <= StartOf(i)
      /\ \A k \in kept :
           \/ \A n \in kept : k <= n
           \/ \E n \in kept : n < k /\ R(k).start - R(n).end <= MaxGap
  <2>1. /\ \E p \in parts : p.start <= StartOf(i)
        /\ \A p \in parts :
             \/ \A first \in parts : p.key <= first.key
             \/ \E prev \in parts : prev.key < p.key /\ p.start - prev.end <= MaxGap
    BY DEF Acceptable
  <2>2. \A k \in kept : R(k) \in parts
    OBVIOUS
  <2>3. \A p \in parts : \E k \in kept : p = R(k)
    OBVIOUS
  <2> HIDE DEF parts, kept, R
  <2>4. \E k \in kept : R(k).start <= StartOf(i)
    BY <2>1, <2>3
  <2>5. ASSUME NEW k \in kept
        PROVE  \/ \A n \in kept : k <= n
               \/ \E n \in kept : n < k /\ R(k).start - R(n).end <= MaxGap
    <3>1. R(k) \in parts /\ R(k).key = k
      BY <1>2, <2>2
    <3>2. CASE \A first \in parts : R(k).key <= first.key
      <4>1. \A n \in kept : R(n) \in parts /\ R(n).key = n
        BY <1>2, <2>2
      <4>2. QED
        BY <3>1, <3>2, <4>1
    <3>3. CASE \E prev \in parts : prev.key < R(k).key /\ R(k).start - prev.end <= MaxGap
      <4>1. PICK prev \in parts : prev.key < k /\ R(k).start - prev.end <= MaxGap
        BY <3>1, <3>3
      <4>2. PICK n \in kept : prev = R(n)
        BY <2>3
      <4>3. R(n).key = n
        BY <1>2
      <4>4. n < k /\ R(k).start - R(n).end <= MaxGap
        BY <4>1, <4>2, <4>3
      <4>5. QED
        BY <4>4
    <3>4. QED
      BY <2>1, <3>1, <3>2, <3>3
  <2>6. QED
    BY <2>4, <2>5
<1>4. /\ StartOf(i) \in Nat
      /\ i = 1 => StartOf(i) = 0
      /\ i # 1 => landing < StartOf(i)
      /\ landing \in file.keys /\ landing \in Nat
      /\ i = 1 => \A k \in file.keys : landing <= k
  BY BoundariesMeet, LandsBefore DEF FileOK
<1>5. \A k \in own : i # 1 => StartOf(i) <= k /\ k # landing
  BY <1>1, <1>4 DEF OwnKeys
<1> HIDE DEF own, R
<1>6. PICK head \in kept : \A n \in own : head <= n
  <2>1. PICK head \in kept : R(head).start <= StartOf(i)
    BY <1>3
  <2>2. head \in own /\ head \in Nat
    BY <1>1
  <2>3. R(head).start = IF head = landing THEN 0 ELSE head
    BY <1>2
  <2>4. CASE i = 1
    <3>1. head = landing \/ head = 0
      BY <1>4, <2>1, <2>2, <2>3, <2>4
    <3>2. \A n \in own : head <= n
      BY <1>1, <1>4, <2>4, <3>1
    <3>3. QED
      BY <3>2
  <2>5. CASE i # 1
    <3>1. head <= StartOf(i)
      BY <1>5, <2>1, <2>2, <2>3, <2>5
    <3>2. \A n \in own : head <= n
      BY <1>1, <1>4, <1>5, <2>2, <2>5, <3>1
    <3>3. QED
      BY <3>2
  <2>6. QED
    BY <2>4, <2>5
<1>7. ASSUME NEW k \in own \ kept, NEW p \in kept, ~ (p < k)
      PROVE  EndOfPart(k, file.total) - k <= MaxGap
  <2> DEFINE after == {q \in kept : q > k}
  <2>1. k \in Nat /\ p \in Nat /\ p # k /\ k \in lost
    <3>1. k \in own /\ k \notin kept /\ p \in own
      BY <1>1, <1>7
    <3>2. k \in lost
      BY <3>1
    <3> HIDE DEF kept
    <3>3. QED
      BY <1>1, <3>1, <3>2
  <2>2. after \in SUBSET Nat /\ p \in after
    <3>1. p > k
      BY <1>7, <2>1
    <3>2. kept \in SUBSET Nat
      BY <1>1
    <3> HIDE DEF kept
    <3>3. QED
      BY <3>1, <3>2
  <2>3. PICK q \in after : \A n \in after : q <= n
    <3> HIDE DEF after
    <3>1. QED
      BY <2>2, LeastOf
  <2>4. q \in kept /\ q \in Nat /\ q > k /\ q \in file.keys /\ q \in own
    BY <1>1, <2>3
  <2>5. head <= k /\ head \in Nat /\ head \in file.keys
    BY <1>1, <1>6
  <2>6. PICK n \in kept : n < q /\ R(q).start - R(n).end <= MaxGap
    <3>1. ~ (q <= head)
      BY <2>1, <2>4, <2>5
    <3>2. QED
      BY <1>3, <1>6, <2>4, <3>1
  <2>7. n \in Nat /\ n < k
    <3>1. n \in Nat /\ n # k
      BY <1>1, <1>7
    <3>2. n \notin after
      BY <2>3, <2>4, <2>6, <3>1
    <3>3. QED
      BY <2>1, <2>6, <3>1, <3>2
  <2>8. EndOfPart(n, until) \in Nat /\ EndOfPart(n, until) <= k
    BY <1>1, <2>1, <2>7, NextKeyframe
  <2>9. EndOfPart(k, file.total) \in Nat /\ EndOfPart(k, file.total) <= q
    <3>1. file.total \in Nat
      BY DEF FileOK
    <3>2. QED
      BY <2>1, <2>4, <3>1, NextKeyframe
  <2>10. R(q).start = q
    <3>1. q # landing
      <4>1. CASE i = 1
        BY <1>4, <2>1, <2>4, <2>5, <4>1
      <4>2. CASE i # 1
        BY <1>5, <2>4, <4>2
      <4>3. QED
        BY <4>1, <4>2
    <3>2. QED
      BY <1>2, <3>1
  <2>11. R(n).end = EndOfPart(n, until)
    BY <1>2
  <2>12. q - EndOfPart(n, until) <= MaxGap
    BY <2>6, <2>10, <2>11
  <2>13. MaxGap \in Nat
    BY SegmentTableAssumption DEF SegmentTableAssumption
  <2>14. QED
    BY <2>1, <2>4, <2>8, <2>9, <2>12, <2>13
<1>8. \A k \in own \ kept : k \in lost
  OBVIOUS
<1> HIDE DEF kept
<1>9. QED
  <2>1. WholeSegment(i, kept, lost)
    BY <1>1, <1>6, <1>7, <1>8 DEF WholeSegment, own
  <2>2. QED
    BY <2>1 DEF kept, own

SegmentInv == FileOK /\ SegmentsTileTheVideo

LEMMA SegmentInit == SegmentTableInit => SegmentInv
<1> SUFFICES ASSUME SegmentTableInit PROVE SegmentInv
  OBVIOUS
<1>0. PICK end \in 1..Longest, total \in {0, 1} :
         \E keys \in SUBSET (0..end - 1) :
           /\ \E k \in keys : k <= Backoff
           /\ \E seen \in SUBSET keys : file = [keys |-> keys, seen |-> seen, total |-> total * end]
  BY DEF SegmentTableInit
<1>1. PICK keys, seen :
         /\ keys \in SUBSET (0..end - 1)
         /\ \E k \in keys : k <= Backoff
         /\ seen \in SUBSET keys
         /\ file = [keys |-> keys, seen |-> seen, total |-> total * end]
  BY <1>0
<1>2. file.keys = keys /\ file.seen = seen /\ file.total = total * end
  BY <1>1
<1>3. Longest \in Nat
  BY SegmentTableAssumption DEF SegmentTableAssumption
<1>4. total * end \in Nat /\ (total * end > 0 => total * end = end)
  <2>1. CASE total = 0
    BY <1>3, <2>1
  <2>2. CASE total = 1
    BY <1>3, <2>2
  <2>3. QED
    BY <2>1, <2>2
<1>5. FileOK
  BY <1>1, <1>2, <1>3, <1>4 DEF FileOK
<1>6. made = NotMade
  BY DEF SegmentTableInit
<1>7. SegmentsTileTheVideo
  BY <1>5, <1>6, BoundariesMeet DEF SegmentsTileTheVideo
<1>8. QED
  BY <1>5, <1>7 DEF SegmentInv

Whole == made # NotMade => WholeSegment(made.segment, made.parts, made.lost)

LEMMA TilingMeansWhole ==
    ASSUME FileOK
    PROVE  SegmentsTileTheVideo <=> Whole
<1>1. \A i \in DOMAIN Table :
         Table[i].start = StartOf(i) /\ Table[i].start + Table[i].duration = EndOf(i)
  BY BoundariesMeet
<1>2. QED
  BY <1>1 DEF SegmentsTileTheVideo, Whole, WholeSegment, OwnKeys

LEMMA MakeWhole ==
    ASSUME FileOK, NEW i \in DOMAIN Table, Generate(i)
    PROVE  made' = NotMade \/ \E kept, lost :
              /\ made' = [segment |-> i, parts |-> kept, lost |-> lost]
              /\ WholeSegment(i, kept, lost)
<1> DEFINE start == Table[i].start
           end == start + Table[i].duration
           until == end + ReadMargin
<1>1. start = StartOf(i) /\ end = EndOf(i) /\ start \in Nat /\ end \in Nat
  BY BoundariesMeet
<1>2. until \in Nat /\ EndOf(i) < until
  BY <1>1, SegmentTableAssumption DEF SegmentTableAssumption
<1> HIDE DEF until
<1>3. PICK landing, lost :
           /\ landing \in Landings(start)
           /\ LET parts == PartsOf({p \in PartList(landing, until) : p.key \notin lost}, start, end)
              IN  made' = IF Acceptable(parts, start)
                          THEN [segment |-> i, parts |-> {p.key : p \in parts}, lost |-> lost]
                          ELSE NotMade
  BY DEF Generate, until
<1> HIDE DEF start, end
<1> DEFINE parts == PartsOf({p \in PartList(landing, until) : p.key \notin lost}, start, end)
<1>4. parts = {Row(k, landing, until) : k \in OwnKeys(i) \ lost}
  BY <1>1, <1>2, <1>3, ListedParts DEF start
<1>5. CASE Acceptable(parts, start)
  <2>1. {p.key : p \in parts} = OwnKeys(i) \ lost
    <3> HIDE DEF parts
    <3>1. \A k : Row(k, landing, until).key = k
      BY DEF Row
    <3>2. QED
      BY <1>4, <3>1
  <2>2. made' = [segment |-> i, parts |-> OwnKeys(i) \ lost, lost |-> lost]
    BY <1>3, <1>5, <2>1
  <2> HIDE DEF parts
  <2>3. WholeSegment(i, OwnKeys(i) \ lost, lost)
    <3>1. landing \in Landings(Table[i].start)
      BY <1>3 DEF start
    <3>2. Acceptable({Row(k, landing, until) : k \in OwnKeys(i) \ lost}, StartOf(i))
      BY <1>1, <1>4, <1>5
    <3>3. QED
      BY <1>2, <3>1, <3>2, AcceptedIsWhole
  <2>4. QED
    BY <2>2, <2>3
<1>6. CASE ~ Acceptable(parts, start)
  BY <1>3, <1>6
<1>7. QED
  BY <1>5, <1>6

LEMMA SegmentNext == SegmentInv /\ [SegmentTableNext]_segmentVars => SegmentInv'
<1> SUFFICES ASSUME SegmentInv, [SegmentTableNext]_segmentVars PROVE SegmentInv'
  OBVIOUS
<1>1. file' = file
  BY DEF SegmentTableNext, MakeSegment, segmentVars
<1>2. FileOK /\ FileOK'
  BY <1>1 DEF SegmentInv, FileOK
<1>3. Whole
  BY <1>2, TilingMeansWhole DEF SegmentInv
<1>4. Table' = Table
  BY <1>1 DEF Table, Probed
<1>5. \A i, kept, lost : WholeSegment(i, kept, lost) => WholeSegment(i, kept, lost)'
  BY <1>1, <1>4 DEF WholeSegment, OwnKeys, StartOf, EndOf, EndOfPart
<1>6. Whole'
  <2>1. CASE UNCHANGED segmentVars
    <3>1. made' = made
      BY <2>1 DEF segmentVars
    <3>2. QED
      BY <1>3, <1>5, <3>1 DEF Whole
  <2>2. CASE MakeSegment
    <3>1. PICK i \in DOMAIN Table : Generate(i)
      BY <2>2 DEF MakeSegment
    <3>2. CASE made' = NotMade
      BY <3>2 DEF Whole, NotMade
    <3>3. CASE made' # NotMade
      <4>1. PICK kept, lost : /\ made' = [segment |-> i, parts |-> kept, lost |-> lost]
                              /\ WholeSegment(i, kept, lost)
        BY <1>2, <3>1, <3>3, MakeWhole
      <4>2. made'.segment = i /\ made'.parts = kept /\ made'.lost = lost
        BY <4>1
      <4>3. WholeSegment(i, kept, lost)'
        BY <1>5, <4>1
      <4>4. QED
        BY <4>2, <4>3 DEF Whole
    <3>4. QED
      BY <3>2, <3>3
  <2>3. QED
    BY <2>1, <2>2 DEF SegmentTableNext
<1>7. FileOK' => (SegmentsTileTheVideo' <=> Whole')
  BY <1>2, TilingMeansWhole, PTL
<1>8. QED
  BY <1>2, <1>6, <1>7 DEF SegmentInv

\* A player that fetches the Segments one after the other gets the whole Video:
\* for any keyframes, thresholds, landings of the seek and unreadable rows of
\* ffmpeg's list (GroupSegments, selectPartsFromList).
THEOREM SegmentsTile == SegmentTableSpec => []SegmentsTileTheVideo
<1>1. SegmentInv => SegmentsTileTheVideo
  BY DEF SegmentInv
<1>2. QED
  BY SegmentInit, SegmentNext, <1>1, PTL DEF SegmentTableSpec

\* Every inner boundary is a keyframe the probe saw, the only places where
\* ffmpeg can cut without decoding; every Segment is at least as long as the
\* target, and a shorter last one is longer than the tail that is joined to the
\* one before, or it is the only one (GroupSegments).
WellCut ==
    /\ \A i \in 2..Len(Table) : Table[i].start \in file.seen
    /\ \A i \in 1..Len(Table) - 1 : Table[i].duration >= Target
    /\ Table # <<>> => TailJoined(Table)

\* The cuts are where they may be and no Segment is a splinter, for any
\* keyframes, target and tail (GroupSegments).
THEOREM CutAtKeyframes == SegmentTableSpec => []WellCut
<1>1. FileOK => WellCut
  <2> SUFFICES ASSUME FileOK PROVE WellCut
    OBVIOUS
  <2>1. Tiles(Table, file.seen, file.total) /\ Len(Table) \in Nat /\ (Table # <<>> => TailJoined(Table))
    BY TableTiles DEF Tiles
  <2>2. ASSUME NEW i \in 2..Len(Table) PROVE Table[i].start \in file.seen
    <3>1. i \in 1..Len(Table) /\ i # 1
      BY <2>1
    <3>2. QED
      BY <2>1, <3>1 DEF Tiles
  <2>3. ASSUME NEW i \in 1..Len(Table) - 1 PROVE Table[i].duration >= Target
    <3>1. i \in 1..Len(Table) /\ i # Len(Table)
      BY <2>1
    <3>2. QED
      BY <2>1, <3>1 DEF Tiles
  <2>4. QED
    BY <2>1, <2>2, <2>3 DEF WellCut
<1>2. SegmentInv => FileOK
  BY DEF SegmentInv
<1>3. QED
  BY SegmentInit, SegmentNext, <1>1, <1>2, PTL DEF SegmentTableSpec
=============================================================================
