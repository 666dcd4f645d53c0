------------------------------ MODULE Curation ------------------------------
(***************************************************************************)
(* What viewers and admins attach to Videos: Favorites, Tags and the Daily *)
(* Recommendation, from the handlers' answers down to the statements.      *)
(*                                                                         *)
(* Each SQL statement is a step.  A call of one statement is one action;   *)
(* tagging a Video and recommending one run several, and other calls come  *)
(* between them.                                                           *)
(***************************************************************************)
EXTENDS Catalogue

CONSTANTS Viewers,    \* users with Favorites
          Tags,       \* names a Tag may have: a Tag keeps its name and is never deleted
          Categories, \* the categories a Tag may ask for, allowed or not
          Days,       \* recommend_date
          MaxPicks    \* bound: recommendations ever made

\* The kinds of ids differ, so that no two entries of told share a key.
ASSUME CurationAssumption ==
    /\ MaxPicks \in Nat
    /\ Tags \cap Days = {} /\ Viewers \cap Videos = {}

VARIABLES
    catalogue, \* the Videos that exist
    favorites, \* the favorites table
    tags,      \* the tags that exist
    links,     \* the video_tags table
    picks,     \* the daily_recommendations table, in the order of its ids
    curating,  \* curating[s]: the call of several statements in slot s
    told       \* history: rows made less rows removed, as the answers tell it

curationVars == <<catalogue, favorites, tags, links, picks, curating, told>>

Link == Videos \X Tags
Pick == [video : Videos, day : Days, order : Nat, deleted : BOOLEAN]
Keys == Link \cup (Videos \X Days) \cup (Viewers \X Videos)
Quiet == [kind |-> "none"]

CurationTypeOK ==
    /\ catalogue \subseteq Videos
    /\ favorites \subseteq Viewers \X Videos
    /\ tags \subseteq Tags
    /\ links \subseteq Link
    /\ picks \in Seq(Pick)
    /\ curating \in [Slots -> {Quiet}
                       \cup [kind : {"tag"}, at : {"video", "tag", "link"}, link : Link]
                       \cup [kind : {"recommend"}, at : {"video", "insert"},
                             video : Videos, day : Days]]
    /\ told \in [Keys -> Int]

CurationInit ==
    /\ catalogue = Videos
    /\ favorites = {} /\ tags = {} /\ links = {}
    /\ picks = <<>>
    /\ curating = [s \in Slots |-> Quiet]
    /\ told = [k \in Keys |-> 0]

\* history: 201 tells of a row that was made, 204 of one that was removed.
Tell(key, status) ==
    told' = [told EXCEPT ![key] =
               @ + (IF status = 201 THEN 1 ELSE IF status = 204 THEN -1 ELSE 0)]

-----------------------------------------------------------------------------
\* Favorites: one statement each.

AddFavorite(u, v) ==
    IF v \notin catalogue THEN [rows |-> favorites, err |-> {"not_found"}]
    ELSE IF <<u, v>> \in favorites THEN [rows |-> favorites, err |-> {"already_exists"}]
    ELSE [rows |-> favorites \cup {<<u, v>>}, err |-> NoError]

RemoveFavorite(u, v) ==
    [rows |-> favorites \ {<<u, v>>},
     err |-> IF <<u, v>> \in favorites THEN NoError ELSE {"not_found"}]

\* A Favorite that exists is no error to FavoriteService.Add.
AddedFavorite(err) == err \ {"already_exists"}

\* history: the handler answers 201 for a Favorite that was there as well.
Favorite ==
    /\ \E u \in Viewers, v \in Videos :
         LET added == AddFavorite(u, v)
         IN  /\ favorites' = added.rows
             /\ told' = [told EXCEPT ![<<u, v>>] =
                           IF StatusOf(AddedFavorite(added.err), 201) = 201 THEN 1 ELSE @]
    /\ UNCHANGED <<catalogue, tags, links, picks, curating>>

Unfavorite ==
    /\ \E u \in Viewers, v \in Videos :
         LET removed == RemoveFavorite(u, v)
         IN  favorites' = removed.rows /\ Tell(<<u, v>>, StatusOf(removed.err, 204))
    /\ UNCHANGED <<catalogue, tags, links, picks, curating>>

-----------------------------------------------------------------------------
\* Tags.

AllowedCategory(c) == c \in {"genre", "actor", "studio", "custom"}

InsertTag(t) ==
    [rows |-> tags \cup {t}, err |-> IF t \in tags THEN {"already_exists"} ELSE NoError]

CreateTag ==
    /\ \E t \in Tags, c \in Categories :
         tags' = IF AllowedCategory(c) THEN InsertTag(t).rows ELSE tags
    /\ UNCHANGED <<catalogue, favorites, links, picks, curating, told>>

GetOrCreateByName(t) == tags \cup {t}

\* Applying a Suggestion: its Tag and its link, in one transaction.
ApplyTag ==
    /\ \E v \in Videos, t \in Tags :
         /\ v \in catalogue
         /\ tags' = GetOrCreateByName(t)
         /\ links' = links \cup {<<v, t>>}
         /\ IF <<v, t>> \in links THEN UNCHANGED told ELSE Tell(<<v, t>>, 201)
    /\ UNCHANGED <<catalogue, favorites, picks, curating>>

InsertLink(v, t) ==
    IF <<v, t>> \in links THEN [rows |-> links, err |-> {"conflict"}]
    ELSE IF v \in catalogue /\ t \in tags
    THEN [rows |-> links \cup {<<v, t>>}, err |-> NoError]
    ELSE [rows |-> links, err |-> {"not_found"}]

\* Mutant: the duplicate is answered like the first.
TagAnswerCreated(err) == StatusOf(err \ {"conflict"}, 201)

\* The handler's answer: tagging again is 200 instead of 201.
TagAnswer(err) == IF err = {"conflict"} THEN 200 ELSE StatusOf(err, 201)

StartTagVideo(s) ==
    /\ curating[s] = Quiet
    /\ \E l \in Link :
         curating' = [curating EXCEPT ![s] = [kind |-> "tag", at |-> "video", link |-> l]]
    /\ UNCHANGED <<catalogue, favorites, tags, links, picks, told>>

\* TagService.AddVideoTag: is the Video there, is the Tag there, link them.
AddVideoTag(s) ==
    /\ curating[s].kind = "tag"
    /\ LET v == curating[s].link[1]  t == curating[s].link[2]
           at == curating[s].at
           found == IF at = "video" THEN v \in catalogue ELSE t \in tags
           next == IF at = "video" THEN "tag" ELSE "link"
           linked == InsertLink(v, t)
       IN  \/ /\ at \in {"video", "tag"}
              /\ curating' = [curating EXCEPT ![s] =
                                IF found THEN [@ EXCEPT !.at = next] ELSE Quiet]
              /\ UNCHANGED <<links, told>>
           \/ /\ at = "link"
              /\ links' = linked.rows
              /\ Tell(<<v, t>>, TagAnswer(linked.err))
              /\ curating' = [curating EXCEPT ![s] = Quiet]
    /\ UNCHANGED <<catalogue, favorites, tags, picks>>

DeleteLink(v, t) ==
    [rows |-> links \ {<<v, t>>}, err |-> IF <<v, t>> \in links THEN NoError ELSE {"not_found"}]

RemoveVideoTag ==
    /\ \E v \in Videos, t \in Tags :
         LET deleted == DeleteLink(v, t)
         IN  /\ links' = deleted.rows
             /\ Tell(<<v, t>>, StatusOf(deleted.err, 204))
    /\ UNCHANGED <<catalogue, favorites, tags, picks, curating>>

-----------------------------------------------------------------------------
\* The Daily Recommendation.  A row's id is its place in picks.

Listed(day) == {i \in DOMAIN picks : ~picks[i].deleted /\ picks[i].day = day}

InsertPick(v, day) ==
    IF \E i \in Listed(day) : picks[i].video = v THEN [rows |-> picks, err |-> {"conflict"}]
    ELSE IF v \notin catalogue THEN [rows |-> picks, err |-> PlainError]
    ELSE [rows |-> Append(picks, [video |-> v, day |-> day, order |-> 0, deleted |-> FALSE]),
          err |-> NoError]

StartRecommend(s) ==
    /\ curating[s] = Quiet
    /\ \E v \in Videos, day \in Days :
         curating' = [curating EXCEPT ![s] =
                        [kind |-> "recommend", at |-> "video", video |-> v, day |-> day]]
    /\ UNCHANGED <<catalogue, favorites, tags, links, picks, told>>

\* RecommendationService.Create: is the Video there, insert the row.
Recommend(s) ==
    /\ curating[s].kind = "recommend"
    /\ LET call == curating[s]
           made == InsertPick(call.video, call.day)
       IN  \/ /\ call.at = "video"
              /\ curating' = [curating EXCEPT ![s] =
                    IF call.video \in catalogue THEN [@ EXCEPT !.at = "insert"] ELSE Quiet]
              /\ UNCHANGED <<picks, told>>
           \/ /\ call.at = "insert"
              /\ made.err = NoError => Len(picks) < MaxPicks
              /\ picks' = made.rows
              /\ Tell(<<call.video, call.day>>, StatusOf(made.err, 201))
              /\ curating' = [curating EXCEPT ![s] = Quiet]
    /\ UNCHANGED <<catalogue, favorites, tags, links>>

\* A recommendation's sort_order takes either of two values.
UpdateSortOrder ==
    /\ \E i \in DOMAIN picks, n \in {0, 1} :
         /\ ~picks[i].deleted
         /\ picks' = [picks EXCEPT ![i].order = n]
    /\ UNCHANGED <<catalogue, favorites, tags, links, curating, told>>

DeletePick ==
    /\ \E i \in DOMAIN picks :
         /\ picks' = [picks EXCEPT ![i].deleted = TRUE]
         /\ Tell(<<picks[i].video, picks[i].day>>,
                 StatusOf(IF picks[i].deleted THEN {"not_found"} ELSE NoError, 204))
    /\ UNCHANGED <<catalogue, favorites, tags, links, curating>>

\* A statement fails or the client gives up.
CuratingFails(s) ==
    /\ curating[s] # Quiet
    /\ curating' = [curating EXCEPT ![s] = Quiet]
    /\ UNCHANGED <<catalogue, favorites, tags, links, picks, told>>

-----------------------------------------------------------------------------
\* A Video's rows go with it (ON DELETE CASCADE).
CuratedVideoDeleted ==
    /\ \E v \in catalogue :
         /\ catalogue' = catalogue \ {v}
         /\ favorites' = {f \in favorites : f[2] # v}
         /\ links' = {l \in links : l[1] # v}
         /\ picks' = [i \in DOMAIN picks |->
                        [picks[i] EXCEPT !.deleted = @ \/ picks[i].video = v]]
    /\ UNCHANGED <<tags, curating, told>>

CurationNext ==
    \/ Favorite \/ Unfavorite \/ CreateTag \/ ApplyTag \/ RemoveVideoTag
    \/ UpdateSortOrder \/ DeletePick \/ CuratedVideoDeleted
    \/ \E s \in Slots :
         \/ StartTagVideo(s) \/ AddVideoTag(s) \/ StartRecommend(s) \/ Recommend(s)
         \/ CuratingFails(s)

CurationSpec == CurationInit /\ [][CurationNext]_curationVars

-----------------------------------------------------------------------------
\* Of the calls that race to tag or to recommend a Video, one is told 201 and
\* the others 200 or 409; of those that race to undo it, one is told 204: while
\* a Video lives, the answers count what is stored (TagService.AddVideoTag and
\* RecommendationService.Create check, then insert).
AnswersBalance ==
    \A v \in catalogue :
        /\ \A t \in Tags :
             told[<<v, t>>] = IF <<v, t>> \in links THEN 1 ELSE 0
        /\ \A day \in Days :
             told[<<v, day>>] = IF \E i \in Listed(day) : picks[i].video = v THEN 1 ELSE 0
        /\ \A u \in Viewers :
             told[<<u, v>>] = IF <<u, v>> \in favorites THEN 1 ELSE 0
=============================================================================
