------------------------------- MODULE MCServer -----------------------------
(* Instances of the server's smaller components for TLC.  Each behaviour    *)
(* exercises one of them, chosen at the start; the others stay as they are. *)
EXTENDS Accounts, Watching, Curation, Library, UrlCache, Enrichment, SegmentTable, TLC

CONSTANTS v1

VARIABLE part

serverVars == <<part, accountVars, watchingVars, curationVars, libraryVars, urlVars,
                enrichmentVars, segmentVars>>

MCScrapers == <<"javbus">>
MCSymmetry == Permutations(Slots)

ServerInit ==
    /\ part \in {"accounts", "watching", "curation", "library", "urls", "enrichment", "segments"}
    /\ AccountsInit /\ WatchingInit /\ CurationInit /\ LibraryInit /\ UrlCacheInit
    /\ EnrichmentInit
    /\ \A v \in Videos : v = v1 <=> Known(v)
    /\ part # "enrichment" => records[v1] = NewRecord(NoCode, TRUE) /\ suggestions = {}
    /\ \A x \in suggestions : x.code = records[x.video].code \* bound: its Video's Code
    /\ IF part = "segments" THEN SegmentTableInit
       ELSE file = [keys |-> {0}, seen |-> {0}, total |-> 1] /\ made = NotMade

ServerNext ==
    /\ UNCHANGED part
    /\ IF part = "accounts" THEN AccountsNext ELSE UNCHANGED accountVars
    /\ IF part = "watching" THEN WatchingNext ELSE UNCHANGED watchingVars
    /\ IF part = "curation" THEN CurationNext ELSE UNCHANGED curationVars
    /\ IF part = "library" THEN LibraryNext ELSE UNCHANGED libraryVars
    /\ IF part = "urls" THEN UrlCacheNext ELSE UNCHANGED urlVars
    /\ IF part = "enrichment" THEN EnrichmentNext ELSE UNCHANGED enrichmentVars
    /\ IF part = "segments" THEN SegmentTableNext ELSE UNCHANGED segmentVars

ServerSpec == ServerInit /\ [][ServerNext]_serverVars
=============================================================================
