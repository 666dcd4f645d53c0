----------------------------- MODULE Enrichment -----------------------------
(***************************************************************************)
(* Enrichment: a Video's Code, the scrape of every source, the staged      *)
(* images and Metadata Suggestions, accepting and rejecting them, the      *)
(* batch with its auto-accept, and the Code Backfill.  The calls of the    *)
(* pages and the batch run at the same time: each SQL statement and each   *)
(* upload is a step, accepting a Suggestion is one transaction.            *)
(*                                                                         *)
(* A row's applied stands for the columns an accepted Suggestion fills     *)
(* (title, release date, maker, ...): they are those of the Suggestion     *)
(* with that id.  Every page names one Performer, and has a Cover and an   *)
(* Avatar or not.                                                          *)
(*                                                                         *)
(* Of an image's URL only this is kept: whether it begins like an object   *)
(* key of its kind ("covers/", "actresses/").  Such a URL is the key of a  *)
(* Suggestion from before there was a field for it, or a relative path on  *)
(* a source's page, which cannot be downloaded.                            *)
(***************************************************************************)
EXTENDS Catalogue

CONSTANTS Scrapers,       \* the sources, in their order of priority
          FormerSources,  \* sources of old Suggestions that are not scraped any more
          PathKinds,      \* the kinds of image a page may name by a path like a key
          Codes, NoCode,
          Contents,       \* what an image may show
          NoKey,          \* an empty object key
          Callers,        \* bound: the pages' calls in flight
          Batch,          \* the worker of the Enrichment Job
          Legacy,         \* bound: Suggestions from before the key fields
          MaxSuggestions  \* bound: Suggestions ever staged

ASSUME EnrichmentAssumption ==
    /\ NoCode \notin Codes /\ Batch \notin Callers
    /\ NoKey \notin {"cover", "avatar"} \X (Codes \cup {NoCode})
                      \X (FormerSources \cup {Scrapers[i] : i \in DOMAIN Scrapers})
    /\ PathKinds \subseteq {"cover", "avatar"}
    /\ MaxSuggestions \in Nat /\ Legacy \in 0..MaxSuggestions

VARIABLES
    records,     \* the videos table, its columns for Enrichment
    suggestions, \* the metadata_suggestions table
    issued,      \* ids given to Suggestions
    images,      \* the object store's Covers and Avatars, with their contents
    performer,   \* the Performer's avatar_key
    workers,     \* workers[w]: a call, or the Video the batch works on
    batch,       \* the Enrichment Job: Videos to do, and whether it accepts
    seeding,     \* the Code Backfill: Videos to do
    applications \* history: how often each Suggestion was applied

enrichmentVars ==
    <<records, suggestions, issued, images, performer, workers, batch, seeding, applications>>

SourceNames == {Scrapers[i] : i \in DOMAIN Scrapers}
ImageKey == {"cover", "avatar"} \X Codes \X (SourceNames \cup FormerSources)
PathKey == PathKinds \X {NoCode} \X SourceNames \* a path like a key, on a source's page
EnrichmentStatus == {"none", "pending", "suggested", "enriched", "failed", "no_code"}
Deleted == [status |-> "deleted"]
Suggestion == [id : 1..MaxSuggestions, video : Videos, source : SourceNames \cup FormerSources,
               code : Codes, keys : SUBSET ImageKey, urls : SUBSET (ImageKey \cup PathKey)]
Workers == Callers \cup {Batch}
Resting == [at |-> "idle", video |-> NoVideo, code |-> NoCode, auto |-> FALSE,
            todo |-> <<>>, found |-> <<>>, keys |-> {}, urls |-> {}, status |-> "none", id |-> 0]

EnrichmentTypeOK ==
    /\ records \in [Videos -> {Deleted} \cup
         [file : Codes \cup {NoCode}, code : Codes \cup {NoCode},
          cover : ImageKey \cup PathKey \cup {NoKey},
          status : EnrichmentStatus, applied : Nat, cast : BOOLEAN]]
    /\ suggestions \subseteq Suggestion
    /\ issued \in Nat
    /\ \A k \in DOMAIN images : k \in ImageKey /\ images[k] \in Contents
    /\ performer \in ImageKey \cup PathKey \cup {NoKey}
    /\ workers \in [Workers ->
         [at : {"idle", "scrape", "upload", "stage", "status", "pick", "read", "apply",
                "delete", "remaining"},
          video : Videos \cup {NoVideo}, code : Codes \cup {NoCode}, auto : BOOLEAN,
          todo : Seq({"cover", "avatar"} \X SourceNames), found : Seq(SourceNames),
          keys : SUBSET ImageKey, urls : SUBSET (ImageKey \cup PathKey),
          status : EnrichmentStatus, id : Nat]]
    /\ batch \in [todo : SUBSET Videos, auto : BOOLEAN]
    /\ seeding \subseteq Videos
    /\ applications \in [1..MaxSuggestions -> Nat]

Known(v) == records[v] # Deleted
SuggestionsOf(v) == {x \in suggestions : x.video = v}

\* codeFromFilename: with what Code and status a file name's Video starts.
CodeFromFilename(file) ==
    [code |-> file, status |-> IF file = NoCode THEN "no_code" ELSE "pending"]

\* A Video is imported with its Code, or is older than Enrichment.
NewRecord(file, old) ==
    [file |-> file, code |-> IF old THEN NoCode ELSE CodeFromFilename(file).code, cover |-> NoKey,
     status |-> IF old THEN "none" ELSE CodeFromFilename(file).status,
     applied |-> 0, cast |-> FALSE]

\* Suggestions from before the key fields: the URL fields hold the keys of the
\* images that were uploaded.
LegacySuggestions ==
    LET Staged == [id : 1..Legacy, video : Videos, source : SourceNames \cup FormerSources,
                   code : Codes, keys : {{}}, urls : SUBSET ImageKey]
    IN  {old \in SUBSET Staged :
           /\ \A x, y \in old : x.id = y.id => x = y
           /\ \A x \in old : \A k, l \in x.urls : k[1] = l[1] => k = l}

EnrichmentInit ==
    /\ suggestions \in LegacySuggestions /\ issued = Legacy
    /\ \E there \in SUBSET Videos, file \in [Videos -> Codes \cup {NoCode}],
          old \in [Videos -> BOOLEAN] :
         /\ \A x \in suggestions : x.video \in there
         /\ records = [v \in Videos |->
              IF v \notin there THEN Deleted
              ELSE IF SuggestionsOf(v) = {} THEN NewRecord(file[v], old[v])
              ELSE [NewRecord(file[v], old[v]) EXCEPT !.status = "suggested"]]
    /\ images \in [UNION {x.urls : x \in suggestions} -> Contents]
    /\ performer = NoKey
    /\ workers = [w \in Workers |-> Resting]
    /\ batch = [todo |-> {}, auto |-> FALSE]
    /\ seeding = {}
    /\ applications = [id \in 1..MaxSuggestions |-> 0]

Become(w, state) == workers' = [workers EXCEPT ![w] = state]
Return(w) == Become(w, Resting)
At(w, at) == workers[w].at = at

-----------------------------------------------------------------------------
\* EnrichVideo.

\* A stored Code takes precedence over the file name's.
ResolveCode(r) == IF r.code # NoCode THEN r.code ELSE r.file

BeginEnrich(w, v, auto) ==
    LET code == ResolveCode(records[v])
    IN  Become(w, IF ~Known(v) THEN Resting
                  ELSE [Resting EXCEPT !.video = v, !.auto = auto, !.code = code,
                          !.at = IF code = NoCode THEN "status" ELSE "scrape",
                          !.status = IF code = NoCode THEN "no_code" ELSE "none"])

EnrichVideo(w) ==
    /\ w # Batch /\ At(w, "idle")
    /\ \E v \in Videos : Known(v) /\ BeginEnrich(w, v, FALSE)
    /\ UNCHANGED <<records, suggestions, issued, images, performer, batch, seeding, applications>>

\* The images of the sources that answered, the Cover before the Avatar.
ImagesOf(found) ==
    [i \in 1..2 * Len(found) |-> <<IF i % 2 = 1 THEN "cover" ELSE "avatar", found[(i + 1) \div 2]>>]

ScrapeAll(w) ==
    /\ At(w, "scrape")
    /\ \E answering \in SUBSET SourceNames :
         LET found == SelectSeq(Scrapers, LAMBDA x : x \in answering)
         IN  Become(w, IF found = <<>>
                       THEN [workers[w] EXCEPT !.at = "status", !.status = "failed"]
                       ELSE [workers[w] EXCEPT !.at = "upload", !.found = found,
                                               !.todo = ImagesOf(found)])
    /\ UNCHANGED <<records, suggestions, issued, images, performer, batch, seeding, applications>>

\* coverKey, avatarKey: scoped by the Code and the source.
StagedImageKey(code, image) == <<image[1], code, image[2]>>

\* Mutant: the key is staged whatever the upload's outcome.
StagedKeysAlways(key, uploaded) == {key}

\* The key that is staged: none for a failed download or upload.
StagedKeys(key, uploaded) == IF uploaded THEN {key} ELSE {}

\* Where a page names the image by a path like a key, there is no download.
UrlsLikeKeys(image) ==
    {{}} \cup {{path} : path \in {k \in PathKey : k[1] = image[1] /\ k[3] = image[2]}}

UploadImage(w) ==
    /\ At(w, "upload")
    /\ LET me == workers[w]
           key == StagedImageKey(me.code, Head(me.todo))
       IN  \E url \in UrlsLikeKeys(Head(me.todo)), uploaded \in BOOLEAN :
             /\ uploaded => url = {}
             /\ images' \in IF uploaded
                            THEN {[k \in DOMAIN images \cup {key} |->
                                     IF k = key THEN c ELSE images[k]] : c \in Contents}
                            ELSE {images}
             /\ Become(w, [me EXCEPT !.keys = @ \cup StagedKeys(key, uploaded),
                             !.urls = @ \cup url, !.todo = Tail(@),
                             !.at = IF Len(me.todo) > 1 THEN "upload" ELSE "stage"])
    /\ UNCHANGED <<records, suggestions, issued, performer, batch, seeding, applications>>

\* One INSERT for each source, with the Video still there.
StageSuggestion(w) ==
    /\ At(w, "stage")
    /\ LET me == workers[w]
           source == Head(me.found)
       IN  /\ Known(me.video) /\ issued < MaxSuggestions
           /\ issued' = issued + 1
           /\ suggestions' = suggestions \cup
                {[id |-> issued + 1, video |-> me.video, source |-> source, code |-> me.code,
                  keys |-> {k \in me.keys : k[3] = source},
                  urls |-> {k \in me.urls : k[3] = source}]}
           /\ Become(w, IF Len(me.found) > 1 THEN [me EXCEPT !.found = Tail(@)]
                        ELSE [me EXCEPT !.at = "status", !.status = "suggested",
                                        !.found = <<>>, !.keys = {}, !.urls = {}])
    /\ UNCHANGED <<records, images, performer, batch, seeding, applications>>

\* SetEnrichmentStatus: a failure, or a Video that is gone, is only logged.
SetStatus(w) ==
    /\ At(w, "status")
    /\ LET me == workers[w]
       IN  /\ \/ /\ Known(me.video)
                 /\ records' = [records EXCEPT ![me.video].status = me.status]
              \/ UNCHANGED records
           /\ IF me.auto /\ me.status = "suggested" THEN Become(w, [me EXCEPT !.at = "pick"])
              ELSE Return(w)
    /\ UNCHANGED <<suggestions, issued, images, performer, batch, seeding, applications>>

-----------------------------------------------------------------------------
\* Accepting and rejecting.

ReadSuggestion(w, id, next) ==
    LET read == {x \in suggestions : x.id = id}
    IN  Become(w, IF read = {} THEN Resting
                  ELSE [Resting EXCEPT !.at = next, !.id = id, !.keys = (CHOOSE x \in read : TRUE).keys,
                          !.urls = (CHOOSE x \in read : TRUE).urls,
                          !.video = (CHOOSE x \in read : TRUE).video,
                          !.code = (CHOOSE x \in read : TRUE).code])

AcceptOrReject(w) ==
    /\ w # Batch /\ At(w, "idle")
    /\ \E x \in suggestions, next \in {"apply", "delete"} : ReadSuggestion(w, x.id, next)
    /\ UNCHANGED <<records, suggestions, issued, images, performer, batch, seeding, applications>>

\* Of the best source that has one, or of all where no source is scraped any
\* more, the Suggestion fetched last.
Best(found) ==
    LET ranked(i) == {x \in found : x.source = Scrapers[i]}
        matched == {i \in DOMAIN Scrapers : ranked(i) # {}}
        best == IF matched = {} THEN found
                ELSE ranked(CHOOSE i \in matched : \A j \in matched : i <= j)
    IN  CHOOSE x \in best : \A y \in best : y.id <= x.id

AutoAcceptHighestPriority(w) ==
    /\ At(w, "pick")
    /\ LET found == SuggestionsOf(workers[w].video)
       IN  Become(w, IF found = {} THEN Resting
                     ELSE [workers[w] EXCEPT !.at = "read", !.id = Best(found).id])
    /\ UNCHANGED <<records, suggestions, issued, images, performer, batch, seeding, applications>>

ReadPicked(w) ==
    /\ At(w, "read")
    /\ ReadSuggestion(w, workers[w].id, "apply")
    /\ UNCHANGED <<records, suggestions, issued, images, performer, batch, seeding, applications>>

\* stagedKey: the image's key, or its URL where that begins like one.
StagedKey(kind, keys, urls) ==
    LET OfKind(S) == {k \in S : k[1] = kind}
    IN  IF OfKind(keys) # {} THEN OfKind(keys) ELSE OfKind(urls)

\* COALESCE(NULLIF(key, ''), old): no key leaves the one there is.
Replaced(kind, keys, urls, old) ==
    LET staged == StagedKey(kind, keys, urls)
    IN  IF staged = {} THEN old ELSE CHOOSE k \in staged : TRUE

\* Mutant: the DELETE's row count is not looked at.
StillPendingUnchecked(id) == TRUE

\* The transaction's first statement: a Suggestion that is gone aborts it.
StillPending(id) == \E x \in suggestions : x.id = id

\* applySuggestion, in one transaction: all of it, or nothing (StatementFails)
\* when the Suggestion or the Video is gone or a statement fails.
Apply(w) ==
    /\ At(w, "apply")
    /\ LET me == workers[w]
           row == records[me.video]
       IN  /\ StillPending(me.id) /\ Known(me.video)
           /\ suggestions' = {x \in suggestions : x.id # me.id}
           /\ records' = [records EXCEPT ![me.video] =
                [row EXCEPT !.code = me.code,
                            !.cover = Replaced("cover", me.keys, me.urls, row.cover),
                            !.status = "enriched", !.applied = me.id, !.cast = TRUE]]
           /\ performer' = Replaced("avatar", me.keys, me.urls, performer)
           /\ applications' = [applications EXCEPT ![me.id] = @ + 1]
    /\ Return(w)
    /\ UNCHANGED <<issued, images, batch, seeding>>

\* DELETE: a Suggestion that is gone already is no error.
DeleteSuggestion(w) ==
    /\ At(w, "delete")
    /\ suggestions' = {x \in suggestions : x.id # workers[w].id}
    /\ Become(w, [workers[w] EXCEPT !.at = "remaining"])
    /\ UNCHANGED <<records, issued, images, performer, batch, seeding, applications>>

ListRemaining(w) ==
    /\ At(w, "remaining")
    /\ Become(w, IF SuggestionsOf(workers[w].video) = {}
                 THEN [workers[w] EXCEPT !.at = "status"] ELSE Resting)
    /\ UNCHANGED <<records, suggestions, issued, images, performer, batch, seeding, applications>>

\* A statement that fails ends the call, or the batch's Video, with an error.
StatementFails(w) ==
    /\ workers[w].at \in {"stage", "pick", "read", "apply", "delete", "remaining"}
    /\ Return(w)
    /\ UNCHANGED <<records, suggestions, issued, images, performer, batch, seeding, applications>>

-----------------------------------------------------------------------------
\* The Jobs: each lists its Videos once, and takes one after the other.

ListByEnrichmentStatus(status) == {v \in Videos : records[v].status = status}

StartBatch ==
    /\ batch.todo = {} /\ At(Batch, "idle")
    /\ \E status \in EnrichmentStatus, auto \in BOOLEAN :
         batch' = [todo |-> ListByEnrichmentStatus(status), auto |-> auto]
    /\ UNCHANGED <<records, suggestions, issued, images, performer, workers, seeding, applications>>

EnrichOne ==
    /\ At(Batch, "idle")
    /\ \E v \in batch.todo :
         /\ batch' = [batch EXCEPT !.todo = @ \ {v}]
         /\ BeginEnrich(Batch, v, batch.auto)
    /\ UNCHANGED <<records, suggestions, issued, images, performer, seeding, applications>>

CancelBatch ==
    /\ batch.todo # {}
    /\ batch' = [batch EXCEPT !.todo = {}]
    /\ UNCHANGED <<records, suggestions, issued, images, performer, workers, seeding, applications>>

StartCodeBackfill ==
    /\ seeding = {}
    /\ seeding' = ListByEnrichmentStatus("none")
    /\ UNCHANGED <<records, suggestions, issued, images, performer, workers, batch, applications>>

\* SeedCode, on whatever the row is by then.
Seeded(r) == [r EXCEPT !.code = CodeFromFilename(r.file).code,
                       !.status = CodeFromFilename(r.file).status]

SeedCode ==
    /\ \E v \in seeding :
         /\ seeding' = seeding \ {v}
         /\ records' = IF Known(v) THEN [records EXCEPT ![v] = Seeded(@)] ELSE records
    /\ UNCHANGED <<suggestions, issued, images, performer, workers, batch, applications>>

-----------------------------------------------------------------------------
\* A Video's deletion takes its Suggestions with it, and keeps its Cover.
DeleteEnriched ==
    /\ \E v \in Videos :
         /\ Known(v)
         /\ records' = [records EXCEPT ![v] = Deleted]
         /\ suggestions' = suggestions \ SuggestionsOf(v)
    /\ UNCHANGED <<issued, images, performer, workers, batch, seeding, applications>>

EnrichmentRestart ==
    /\ workers' = [w \in Workers |-> Resting]
    /\ batch' = [todo |-> {}, auto |-> FALSE] /\ seeding' = {}
    /\ UNCHANGED <<records, suggestions, issued, images, performer, applications>>

EnrichmentNext ==
    \/ \E w \in Workers :
         \/ EnrichVideo(w) \/ ScrapeAll(w) \/ UploadImage(w) \/ StageSuggestion(w)
         \/ SetStatus(w) \/ AcceptOrReject(w) \/ AutoAcceptHighestPriority(w) \/ ReadPicked(w)
         \/ Apply(w) \/ DeleteSuggestion(w) \/ ListRemaining(w) \/ StatementFails(w)
    \/ StartBatch \/ EnrichOne \/ CancelBatch \/ StartCodeBackfill \/ SeedCode
    \/ DeleteEnriched \/ EnrichmentRestart

EnrichmentSpec == EnrichmentInit /\ [][EnrichmentNext]_enrichmentVars

-----------------------------------------------------------------------------
\* A Suggestion is applied once at most, to its own Video, and only in a step
\* that finds it pending and takes it away: two accepts of the same Suggestion,
\* an accept and a reject, or the batch's accept and a viewer's never write its
\* Metadata twice, nor after it was rejected (Apply).
AppliedOnlyWhilePending ==
    [][\A id \in 1..MaxSuggestions : applications'[id] # applications[id] =>
         /\ applications'[id] = 1
         /\ \E x \in suggestions \ suggestions' :
              x.id = id /\ Known(x.video)' /\ records'[x.video].applied = id
      ]_enrichmentVars

\* What a Cover or an Avatar may name: an image of its kind that is stored, or
\* a path like a key that a source's page gave.
MayName(kind) == {k \in DOMAIN images \cup PathKey : k[1] = kind}

\* Every key that is staged, in its own field or in a legacy Suggestion's URL
\* field, and every key a Video or a Performer has, names an image that was
\* stored, whichever download, upload or statement fails.  The one exception
\* is a path on a source's page that begins like a key of its kind: it was not
\* downloaded, and stands in an URL field only (uploadImages, stagedKey).
StagedImagesAreStored ==
    /\ \A x \in suggestions :
         x.keys \subseteq DOMAIN images /\ x.urls \subseteq DOMAIN images \cup PathKey
    /\ \A v \in Videos : Known(v) => records[v].cover \in MayName("cover") \cup {NoKey}
    /\ performer \in MayName("avatar") \cup {NoKey}

\* asset_keys.go:28: "It is scoped by Code and source so staging never
\* overwrites an accepted Cover (ADR-0010)."
StagingKeepsAcceptedCovers ==
    [][\A v \in Videos :
         Known(v) /\ records[v].cover # NoKey =>
           images'[records[v].cover] = images[records[v].cover]]_enrichmentVars
=============================================================================
