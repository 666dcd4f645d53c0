----------------------------- MODULE Catalogue -----------------------------
(***************************************************************************)
(* What the server's components share: the ids of the Videos, and the      *)
(* calls that are in flight at a time.                                     *)
(***************************************************************************)
EXTENDS HttpAnswers, FiniteSets

CONSTANTS Videos,
          NoVideo,
          Slots      \* bound: calls in flight

ASSUME CatalogueAssumption == NoVideo \notin Videos
=============================================================================
