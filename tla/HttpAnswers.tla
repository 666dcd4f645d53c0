---------------------------- MODULE HttpAnswers -----------------------------
(***************************************************************************)
(* How an operation's error becomes an HTTP status: the one table of       *)
(* internal/handler/errors.go that every handler answers through.          *)
(*                                                                         *)
(* An error is the set of the sentinels of internal/model/errors.go that   *)
(* errors.Is finds in its chain, so a busy Job Lane is {"busy",            *)
(* "conflict"}; an error without a sentinel is PlainError.                 *)
(***************************************************************************)
EXTENDS Integers, Sequences

NoError == {}
PlainError == {"plain"}

AuthOrStreamAnswers ==
    << <<"invalid_credentials", 401>>, <<"account_disabled", 403>>,
       <<"code_not_found", 422>>, <<"keyframe_index_failed", 422>>,
       <<"stream_preparing", 503>> >>

\* The rules in their order: the more specific errors come first.
Answers ==
    << <<"busy", 409>>, <<"username_taken", 409>>, <<"already_exists", 409>>,
       <<"source_disabled", 409>>, <<"conflict", 409>>, <<"path_not_exist", 404>>,
       <<"not_found", 404>>, <<"not_remux", 404>>, <<"path_not_allowed", 403>>,
       <<"invalid_input", 400>>, <<"cannot_disable_admin", 400>> >>
    \o AuthOrStreamAnswers

\* writeError: the first rule that matches answers, and 500 without one.
StatusOf(err, ok) ==
    IF err = NoError THEN ok
    ELSE LET matching == {i \in DOMAIN Answers : Answers[i][1] \in err}
         IN  IF matching = {} THEN 500
             ELSE Answers[CHOOSE i \in matching : \A j \in matching : i <= j][2]
=============================================================================
