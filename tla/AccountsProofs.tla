--------------------------- MODULE AccountsProofs ---------------------------
(***************************************************************************)
(* Theorems about Accounts, for any Users, passwords, tokens, calls and    *)
(* restarts.  AccountsInv strengthens the four invariants: a call keeps    *)
(* what the middlewares and its service's lookup established until its     *)
(* write, and no other call's statement takes that away.                   *)
(***************************************************************************)
EXTENDS Accounts, FiniteSetTheorems, TLAPS

TokenKinds == Kinds \ {"register", "login", "admin_reset"}
NamedKinds == {"register", "login", "create", "disable", "enable", "reset", "admin_reset"}

\* The User a call speaks for.
Subject(c) == IF c.token = NoToken THEN c.name ELSE c.token.user

ActiveAdmin(rows) ==
    \E n \in Names : rows[n] # NoUser /\ rows[n].role = "admin" /\ ~rows[n].disabled

\* What holds of a call in a slot.
CallOK(c) ==
    /\ c \in Call
    /\ c.at # "idle" /\ c.kind # "admin_reset" => server = "serving"
    /\ c.kind \in NamedKinds => c.name \in Names
    /\ c.kind \in TokenKinds <=> c.token # NoToken
    /\ c.token # NoToken => c.at # "idle" /\ c.token \in tokens /\ now < c.token.exp
    /\ c.token # NoToken /\ c.at \in {"lookup", "write"} => ~c.shut
    /\ c.kind = "stream_token" /\ c.at = "lookup" => c.token.scope = "login"
    /\ c.shut => /\ Subject(c) \in Names /\ users[Subject(c)] # NoUser
                 /\ users[Subject(c)].disabled
    /\ c.kind = "disable" /\ c.at = "write" =>
         users[c.name] # NoUser /\ users[c.name].role # "admin"

TokensOK ==
    \A t \in tokens :
        /\ t \in Token /\ ~t.shut
        /\ t.scope = "login" => t.exp = t.login + LoginLife
        /\ t.exp < t.login + LoginLife + StreamLife

UsersOK ==
    /\ users \in [Names -> Row \cup {NoUser}]
    /\ server \in {"down", "lookup", "write", "serving"}
    /\ server = "serving" => ActiveAdmin(users)
    /\ (\E n \in Names : users[n] # NoUser) => ActiveAdmin(users)

CreatedOK ==
    /\ created \in [Names -> Nat]
    /\ \A n \in Names : created[n] <= 1 /\ (users[n] = NoUser => created[n] = 0)

CallsOK ==
    /\ calls = [s \in Slots |-> calls[s]]
    /\ \A s \in Slots : CallOK(calls[s])

AccountsInv == now \in Nat /\ UsersOK /\ TokensOK /\ CreatedOK /\ CallsOK

LEMMA NoTokenNoUser ==
    NoToken \notin Token /\ NoUser \notin Row /\ NoName \notin Names /\ AdminName \in Names
BY AccountsAssumption DEF Token, Row, Roles

LEMMA IdleCall == CallOK(NoCall)
BY NoTokenNoUser, AccountsAssumption DEF CallOK, NoCall, Call, Kinds, Roles, TokenKinds, NamedKinds

LEMMA AccountsStart == AccountsInit => AccountsInv
BY IdleCall DEF AccountsInit, AccountsInv, UsersOK, TokensOK, CreatedOK, CallsOK

\* One call's step that changes nothing else.
LEMMA CallGoesOn ==
    ASSUME AccountsInv, NEW s \in Slots, NEW c, CallOK(c), calls' = [calls EXCEPT ![s] = c],
           UNCHANGED <<users, server, tokens, now, created>>
    PROVE  AccountsInv'
<1>1. \A x \in Slots : calls'[x] = IF x = s THEN c ELSE calls[x]
  BY DEF AccountsInv, CallsOK
<1>2. calls' = [x \in Slots |-> calls'[x]]
  BY DEF AccountsInv, CallsOK
<1>3. CallsOK'
  BY <1>1, <1>2 DEF AccountsInv, CallsOK, CallOK
<1> QED
  BY <1>3 DEF AccountsInv, UsersOK, TokensOK, CreatedOK

\* A call that only moves on, to a place that asks for no more.
LEMMA MovesOn ==
    ASSUME AccountsInv, NEW s \in Slots, NEW place \in {"lookup", "write"}, Goto(s, place),
           calls[s].at # "idle",
           calls[s].token # NoToken => ~calls[s].shut,
           calls[s].kind = "stream_token" /\ place = "lookup" => calls[s].token.scope = "login",
           calls[s].kind = "disable" /\ place = "write" =>
             users[calls[s].name] # NoUser /\ users[calls[s].name].role # "admin",
           UNCHANGED <<users, server, tokens, now, created>>
    PROVE  AccountsInv'
<1> DEFINE c == [calls[s] EXCEPT !.at = place]
<1>1. CallOK(calls[s]) /\ calls[s] \in Call
  BY DEF AccountsInv, CallsOK, CallOK
<1>2. /\ c \in Call /\ c.kind = calls[s].kind /\ c.at = place /\ c.token = calls[s].token
      /\ c.name = calls[s].name /\ c.shut = calls[s].shut
  BY <1>1 DEF Call
<1>3. calls' = [calls EXCEPT ![s] = c]
  BY DEF Goto
<1> HIDE DEF c
<1>4. CallOK(c)
  BY <1>1, <1>2 DEF CallOK, Subject
<1> QED
  BY <1>3, <1>4, CallGoesOn

LEMMA RefusedKeeps ==
    ASSUME AccountsInv, NEW s \in Slots, Refuse(s),
           UNCHANGED <<users, server, tokens, now, created>>
    PROVE  AccountsInv'
BY IdleCall, CallGoesOn DEF Refuse

LEMMA LookUpKeeps ==
    ASSUME AccountsInv, NEW s \in Slots, NEW err, LookUp(s, err), calls[s].at = "lookup",
           calls[s].kind = "disable" /\ err = NoError =>
             users[calls[s].name] # NoUser /\ users[calls[s].name].role # "admin"
    PROVE  AccountsInv'
<1>1. UNCHANGED <<users, server, tokens, now, created>>
  BY DEF LookUp
<1>2. CASE err = NoError
  <2>1. Goto(s, "write")
    BY <1>2 DEF LookUp
  <2>2. calls[s].token # NoToken => ~calls[s].shut
    BY DEF AccountsInv, CallsOK, CallOK
  <2> QED
    BY <1>1, <1>2, <2>1, <2>2, MovesOn
<1>3. CASE err # NoError
  BY <1>1, <1>3, RefusedKeeps DEF LookUp
<1> QED
  BY <1>2, <1>3
-----------------------------------------------------------------------------
\* The answers, and what a statement may do to the table.

\* Only a statement that succeeds is answered 201.
LEMMA CreatedAnswers ==
    ASSUME NEW err \in {NoError, PlainError, {"not_found"}}, NEW ok
    PROVE  StatusOf(err, ok) = 201 => err = NoError /\ ok = 201
<1>1. /\ DOMAIN Answers = 1..16
      /\ \A i \in 1..16 : Answers[i][1] # "plain" /\ (Answers[i][1] = "not_found" <=> i = 7)
      /\ Answers[7][2] = 404
  BY DEF Answers, AuthOrStreamAnswers
<1>2. CASE err = NoError
  BY <1>2 DEF StatusOf
<1>3. CASE err = PlainError
  <2>1. {i \in DOMAIN Answers : Answers[i][1] \in err} = {}
    BY <1>1, <1>3 DEF PlainError
  <2>2. err # NoError
    BY <1>3 DEF PlainError, NoError
  <2> QED
    BY <2>1, <2>2 DEF StatusOf
<1>4. CASE err = {"not_found"}
  <2> DEFINE matching == {i \in DOMAIN Answers : Answers[i][1] \in err}
             first == CHOOSE i \in matching : \A j \in matching : i <= j
  <2>1. matching = {7}
    BY <1>1, <1>4
  <2>2. first = 7
    BY <2>1
  <2>3. err # NoError
    BY <1>4 DEF NoError
  <2>4. StatusOf(err, ok) = Answers[first][2]
    BY <2>1, <2>3 DEF StatusOf
  <2> HIDE DEF first
  <2> QED
    BY <1>1, <2>2, <2>4
<1> QED
  BY <1>2, <1>3, <1>4

\* What every statement keeps: the Users there are, their roles, and an admin
\* that can log in.
Keeps(rows) ==
    /\ rows \in [Names -> Row \cup {NoUser}]
    /\ \A n \in Names : users[n] # NoUser => rows[n] # NoUser /\ rows[n].role = users[n].role
    /\ ActiveAdmin(users) => ActiveAdmin(rows)
    /\ ActiveAdmin(users) \/ rows = users

Statements(statement) == Keeps(statement.rows) /\ statement.err \in {NoError, PlainError, {"not_found"}}

LEMMA Inserting ==
    ASSUME AccountsInv, NEW n \in Names, NEW row \in Row
    PROVE  LET statement == InsertUser(n, row)
           IN  /\ ActiveAdmin(users) => Statements(statement)
               /\ statement.err \in {NoError, PlainError}
               /\ statement.err = NoError => /\ users[n] = NoUser
                                             /\ statement.rows = [users EXCEPT ![n] = row]
               /\ statement.err # NoError => statement.rows = users
BY NoTokenNoUser DEF AccountsInv, UsersOK, InsertUser, Statements, Keeps, ActiveAdmin, NoError, PlainError

LEMMA Disabling ==
    ASSUME AccountsInv, NEW n \in Names, ActiveAdmin(users),
           users[n] # NoUser => users[n].role # "admin"
    PROVE  Statements(DisableUser(n))
<1> DEFINE rows == [users EXCEPT ![n].disabled = TRUE]
<1>1. CASE users[n] = NoUser \/ users[n].disabled
  BY <1>1 DEF AccountsInv, UsersOK, DisableUser, Missing, Statements, Keeps
<1>2. CASE ~(users[n] = NoUser \/ users[n].disabled)
  <2>1. users[n] \in Row /\ rows[n] \in Row /\ rows[n].role = users[n].role
    BY <1>2 DEF AccountsInv, UsersOK, Row
  <2>2. rows \in [Names -> Row \cup {NoUser}] /\ \A m \in Names \ {n} : rows[m] = users[m]
    BY <2>1 DEF AccountsInv, UsersOK
  <2>3. DisableUser(n) = [rows |-> rows, err |-> NoError]
    BY <1>2 DEF DisableUser
  <2> HIDE DEF rows
  <2>4. Keeps(rows)
    BY <1>2, <2>1, <2>2, NoTokenNoUser DEF Keeps, ActiveAdmin
  <2> QED
    BY <2>3, <2>4 DEF Statements
<1> QED
  BY <1>1, <1>2

LEMMA Enabling ==
    ASSUME AccountsInv, NEW n \in Names, ActiveAdmin(users)
    PROVE  Statements(EnableUser(n))
<1> DEFINE rows == [users EXCEPT ![n].disabled = FALSE]
<1>1. CASE users[n] = NoUser \/ ~users[n].disabled
  BY <1>1 DEF AccountsInv, UsersOK, EnableUser, Missing, Statements, Keeps
<1>2. CASE ~(users[n] = NoUser \/ ~users[n].disabled)
  <2>1. users[n] \in Row /\ rows[n] \in Row /\ rows[n].role = users[n].role /\ ~rows[n].disabled
    BY <1>2 DEF AccountsInv, UsersOK, Row
  <2>2. rows \in [Names -> Row \cup {NoUser}] /\ \A m \in Names \ {n} : rows[m] = users[m]
    BY <2>1 DEF AccountsInv, UsersOK
  <2>3. EnableUser(n) = [rows |-> rows, err |-> NoError]
    BY <1>2 DEF EnableUser
  <2> HIDE DEF rows
  <2>4. Keeps(rows)
    BY <1>2, <2>1, <2>2, NoTokenNoUser DEF Keeps, ActiveAdmin
  <2> QED
    BY <2>3, <2>4 DEF Statements
<1> QED
  BY <1>1, <1>2

LEMMA UpdatingPassword ==
    ASSUME AccountsInv, NEW n \in Names, NEW p \in Passwords
    PROVE  Statements(UpdatePassword(n, p))
<1> DEFINE rows == [users EXCEPT ![n].password = p]
<1>1. CASE users[n] = NoUser
  BY <1>1 DEF AccountsInv, UsersOK, UpdatePassword, Missing, Statements, Keeps
<1>2. CASE users[n] # NoUser
  <2>1. /\ users[n] \in Row /\ rows[n] \in Row /\ rows[n].role = users[n].role
        /\ rows[n].disabled = users[n].disabled
    BY <1>2 DEF AccountsInv, UsersOK, Row
  <2>2. rows \in [Names -> Row \cup {NoUser}] /\ \A m \in Names \ {n} : rows[m] = users[m]
    BY <2>1 DEF AccountsInv, UsersOK
  <2>3. UpdatePassword(n, p) = [rows |-> rows, err |-> NoError]
    BY <1>2 DEF UpdatePassword
  <2>4. ActiveAdmin(users)
    BY <1>2 DEF AccountsInv, UsersOK
  <2> HIDE DEF rows
  <2>5. Keeps(rows)
    BY <1>2, <2>1, <2>2, <2>4, NoTokenNoUser DEF Keeps, ActiveAdmin
  <2> QED
    BY <2>3, <2>5 DEF Statements
<1> QED
  BY <1>1, <1>2

-----------------------------------------------------------------------------
LEMMA CommitKeeps ==
    ASSUME AccountsInv, NEW s \in Slots, NEW statement, NEW ok, Commit(s, statement, ok),
           Statements(statement),
           statement.err = NoError /\ ok = 201 =>
             /\ calls[s].name \in Names /\ users[calls[s].name] = NoUser
             /\ statement.rows[calls[s].name] # NoUser
    PROVE  AccountsInv'
<1> DEFINE rows == statement.rows
           kept(x) == [calls[x] EXCEPT !.shut = StillShut(calls[x], rows)]
<1>1. UNCHANGED <<server, tokens, now>> /\ users' = rows /\ Keeps(rows)
  BY DEF Commit, Statements
<1>2. \A x \in Slots : calls'[x] = IF x = s THEN NoCall ELSE kept(x)
  BY DEF Commit
<1>3. calls' = [x \in Slots |-> calls'[x]]
  BY DEF Commit
<1>4. UsersOK'
  BY <1>1 DEF Keeps, AccountsInv, UsersOK, ActiveAdmin
<1>5. TokensOK' /\ now' \in Nat
  BY <1>1 DEF AccountsInv, TokensOK
<1>6. CreatedOK'
  <2>1. CASE StatusOf(statement.err, ok) = 201
    <3>1. statement.err = NoError /\ ok = 201
      BY <2>1, CreatedAnswers DEF Statements
    <3>2. created' = [created EXCEPT ![calls[s].name] = @ + 1]
      BY <2>1 DEF Commit
    <3>3. calls[s].name \in Names /\ users[calls[s].name] = NoUser /\ rows[calls[s].name] # NoUser
      BY <3>1
    <3> HIDE DEF rows
    <3> QED
      BY <1>1, <3>2, <3>3 DEF AccountsInv, CreatedOK, Keeps
  <2>2. CASE StatusOf(statement.err, ok) # 201
    <3>1. created' = created
      BY <2>2 DEF Commit
    <3> QED
      BY <1>1, <3>1 DEF AccountsInv, CreatedOK, Keeps
  <2> QED
    BY <2>1, <2>2
<1>7. ASSUME NEW x \in Slots PROVE CallOK(calls[x])'
  <2> DEFINE c == calls[x]
             shut == StillShut(c, rows)
             k == [c EXCEPT !.shut = shut]
  <2>1. CASE x = s
    <3>1. calls'[x] = NoCall
      BY <1>2, <2>1
    <3> QED
      BY <3>1, NoTokenNoUser, AccountsAssumption
      DEF CallOK, NoCall, Call, Kinds, Roles, TokenKinds, NamedKinds
  <2>2. CASE x # s
    <3>1. CallOK(c) /\ calls'[x] = k
      BY <1>2, <2>2 DEF AccountsInv, CallsOK
    <3>2. shut \in BOOLEAN /\ (shut => c.shut /\ rows[Subject(c)].disabled)
      BY <3>1 DEF CallOK, StillShut, Subject, Call
    <3> HIDE DEF shut, rows
    <3>3. /\ k \in Call /\ k.kind = c.kind /\ k.at = c.at /\ k.token = c.token /\ k.name = c.name
          /\ k.shut = shut
      BY <3>1, <3>2 DEF CallOK, Call
    <3> HIDE DEF k, c
    <3>4. /\ users' = rows /\ UNCHANGED <<server, tokens, now>>
          /\ \A n \in Names : users[n] # NoUser => rows[n] # NoUser /\ rows[n].role = users[n].role
      BY <1>1 DEF Keeps, rows
    <3>5. Subject(calls[x])' = Subject(c)
      BY <3>1, <3>3 DEF Subject
    <3> HIDE DEF Subject
    <3> QED
      BY <3>1, <3>2, <3>3, <3>4, <3>5 DEF CallOK, NamedKinds
  <2> QED
    BY <2>1, <2>2
<1>9. CallsOK'
  BY <1>3, <1>7 DEF CallsOK
<1> QED
  BY <1>4, <1>5, <1>6, <1>9 DEF AccountsInv

\* A token that is issued: only to a login, or for a call with a login token.
LEMMA IssueKeeps ==
    ASSUME AccountsInv, NEW s \in Slots, NEW t \in Token, Issue(s, t), ~t.shut,
           t.scope = "login" => t.exp = t.login + LoginLife,
           t.exp < t.login + LoginLife + StreamLife
    PROVE  AccountsInv'
<1>1. /\ UNCHANGED <<users, server, now, created>> /\ tokens' = tokens \cup {t}
      /\ calls' = [calls EXCEPT ![s] = NoCall]
  BY DEF Issue
<1>2. UsersOK' /\ CreatedOK' /\ now' \in Nat
  BY <1>1 DEF AccountsInv, UsersOK, CreatedOK, ActiveAdmin
<1>3. TokensOK'
  BY <1>1 DEF AccountsInv, TokensOK
<1>4. calls' = [x \in Slots |-> calls'[x]]
  BY <1>1 DEF AccountsInv, CallsOK
<1>5. ASSUME NEW x \in Slots PROVE CallOK(calls[x])'
  <2>1. CASE x = s
    <3>1. calls'[x] = NoCall
      BY <1>1, <2>1 DEF AccountsInv, CallsOK
    <3> QED
      BY <3>1, NoTokenNoUser, AccountsAssumption
      DEF CallOK, NoCall, Call, Kinds, Roles, TokenKinds, NamedKinds
  <2>2. CASE x # s
    <3>1. calls'[x] = calls[x] /\ CallOK(calls[x])
      BY <1>1, <2>2 DEF AccountsInv, CallsOK
    <3> QED
      BY <1>1, <3>1 DEF CallOK, Subject
  <2> QED
    BY <2>1, <2>2
<1> QED
  BY <1>2, <1>3, <1>4, <1>5 DEF AccountsInv, CallsOK

-----------------------------------------------------------------------------
\* The actions.

LEMMA EmptyCall == NoCall \in Call /\ NoCall.token = NoToken /\ ~NoCall.shut
BY NoTokenNoUser, AccountsAssumption DEF NoCall, Call, Kinds, Roles

LEMMA ArrivalKeeps ==
    ASSUME AccountsInv, NEW s \in Slots,
           RegisterCall(s) \/ LoginCall(s) \/ JWTAuth(s) \/ StartAdminReset(s)
    PROVE  AccountsInv'
<1>1. UNCHANGED <<users, server, tokens, now, created>>
  BY DEF RegisterCall, LoginCall, JWTAuth, StartAdminReset, Public
<1>2. CASE RegisterCall(s)
  <2> PICK n \in Names, p \in Passwords :
        Public(s, [NoCall EXCEPT !.kind = "register", !.at = "lookup", !.name = n, !.password = p])
    BY <1>2 DEF RegisterCall
  <2> DEFINE c == [NoCall EXCEPT !.kind = "register", !.at = "lookup", !.name = n, !.password = p]
  <2>1. calls' = [calls EXCEPT ![s] = c] /\ server = "serving"
    BY DEF Public
  <2>2. /\ c \in Call /\ c.kind = "register" /\ c.name = n /\ c.token = NoToken /\ ~c.shut
    BY EmptyCall DEF Call, Kinds
  <2> HIDE DEF c
  <2>3. CallOK(c)
    BY <2>1, <2>2 DEF CallOK, Kinds, TokenKinds, NamedKinds
  <2> QED
    BY <1>1, <2>1, <2>3, CallGoesOn
<1>3. CASE LoginCall(s)
  <2> PICK n \in Names, p \in Passwords :
        Public(s, [NoCall EXCEPT !.kind = "login", !.at = "lookup", !.name = n, !.password = p,
                                 !.shut = Shut(n)])
    BY <1>3 DEF LoginCall
  <2> DEFINE shut == Shut(n)
             c == [NoCall EXCEPT !.kind = "login", !.at = "lookup", !.name = n, !.password = p,
                                 !.shut = shut]
  <2>1. shut \in BOOLEAN /\ (shut => users[n] # NoUser /\ users[n].disabled)
    BY DEF Shut, AccountsInv, UsersOK, Row
  <2> HIDE DEF shut
  <2>2. calls' = [calls EXCEPT ![s] = c] /\ server = "serving"
    BY DEF Public, shut
  <2>3. /\ c \in Call /\ c.kind = "login" /\ c.name = n /\ c.token = NoToken /\ c.shut = shut
    BY <2>1, EmptyCall DEF Call, Kinds
  <2> HIDE DEF c
  <2>4. CallOK(c)
    BY <2>1, <2>2, <2>3 DEF CallOK, Kinds, TokenKinds, NamedKinds, Subject
  <2> QED
    BY <1>1, <2>2, <2>4, CallGoesOn
<1>4. CASE JWTAuth(s)
  <2> PICK t \in tokens, k \in Kinds \ {"register", "login", "admin_reset"} :
        /\ ValidToken(t)
        /\ \E n \in Names, p \in Passwords, r \in Roles, v \in Streamed :
             calls' = [calls EXCEPT ![s] =
                [kind |-> k, at |-> "admit", token |-> t, shut |-> Shut(t.user),
                 name |-> IF k \in {"create", "disable", "enable", "reset"} THEN n ELSE NoName,
                 password |-> IF k \in {"create", "reset"} THEN p ELSE AdminPassword,
                 role |-> IF k = "create" THEN r ELSE "viewer",
                 video |-> IF k \in {"stream_token", "stream"} THEN v ELSE NoVideo]]
    BY <1>4, Zenon DEF JWTAuth
  <2> PICK n \in Names, p \in Passwords, r \in Roles, v \in Streamed :
        calls' = [calls EXCEPT ![s] =
                [kind |-> k, at |-> "admit", token |-> t, shut |-> Shut(t.user),
                 name |-> IF k \in {"create", "disable", "enable", "reset"} THEN n ELSE NoName,
                 password |-> IF k \in {"create", "reset"} THEN p ELSE AdminPassword,
                 role |-> IF k = "create" THEN r ELSE "viewer",
                 video |-> IF k \in {"stream_token", "stream"} THEN v ELSE NoVideo]]
    OBVIOUS
  <2> DEFINE shut == Shut(t.user)
             name == IF k \in {"create", "disable", "enable", "reset"} THEN n ELSE NoName
             password == IF k \in {"create", "reset"} THEN p ELSE AdminPassword
             role == IF k = "create" THEN r ELSE "viewer"
             video == IF k \in {"stream_token", "stream"} THEN v ELSE NoVideo
             c == [kind |-> k, at |-> "admit", token |-> t, shut |-> shut, name |-> name,
                   password |-> password, role |-> role, video |-> video]
  <2>1. t \in Token /\ t # NoToken /\ t.user \in Names /\ now < t.exp
    BY NoTokenNoUser DEF AccountsInv, TokensOK, ValidToken, Token
  <2>2. shut \in BOOLEAN /\ (shut => users[t.user] # NoUser /\ users[t.user].disabled)
    BY <2>1 DEF Shut, AccountsInv, UsersOK, Row
  <2>3. /\ name \in Names \cup {NoName} /\ (k \in NamedKinds => name \in Names)
        /\ password \in Passwords /\ role \in Roles /\ video \in Videos \cup {NoVideo}
    BY AccountsAssumption DEF NamedKinds, Roles
  <2>4. calls' = [calls EXCEPT ![s] = c]
    OBVIOUS
  <2>5. server = "serving" /\ k \in TokenKinds /\ k \in Kinds
    BY <1>4 DEF JWTAuth, TokenKinds
  <2> HIDE DEF shut, name, password, role, video
  <2>6. c \in Call
    BY <2>1, <2>2, <2>3, <2>5 DEF Call
  <2>7. CallOK(c)
    BY <2>1, <2>2, <2>3, <2>5, <2>6 DEF CallOK, Subject, TokenKinds
  <2> QED
    BY <1>1, <2>4, <2>7, CallGoesOn
<1>5. CASE StartAdminReset(s)
  <2> DEFINE c == [NoCall EXCEPT !.kind = "admin_reset", !.at = "lookup", !.name = AdminName]
  <2>1. calls' = [calls EXCEPT ![s] = c]
    BY <1>5 DEF StartAdminReset
  <2>2. /\ c \in Call /\ c.kind = "admin_reset" /\ c.name = AdminName /\ c.token = NoToken
        /\ ~c.shut
    BY EmptyCall, NoTokenNoUser DEF Call, Kinds
  <2> HIDE DEF c
  <2>3. CallOK(c)
    BY <2>2, NoTokenNoUser DEF CallOK, Kinds, TokenKinds, NamedKinds
  <2> QED
    BY <1>1, <2>1, <2>3, CallGoesOn
<1> QED
  BY <1>2, <1>3, <1>4, <1>5

LEMMA AdmissionKeeps ==
    ASSUME AccountsInv, NEW s \in Slots, RequireActiveUser(s) PROVE AccountsInv'
<1> DEFINE c == calls[s]
<1>1. UNCHANGED <<users, server, tokens, now, created>> /\ c.at = "admit" /\ CallOK(c)
  BY DEF RequireActiveUser, AccountsInv, CallsOK
<1>2. CASE Refuse(s)
  BY <1>1, <1>2, RefusedKeeps
<1>3. CASE ~Refuse(s)
  <2>1. /\ Goto(s, "lookup") /\ Guard(c.kind, c.token, c.video)
        /\ users[c.token.user] # NoUser /\ ~users[c.token.user].disabled
    BY <1>3 DEF RequireActiveUser
  <2>2. c.token # NoToken => ~c.shut
    BY <1>1, <2>1 DEF CallOK, Subject
  <2>3. c.kind = "stream_token" => c.token.scope = "login"
    <3>1. c.kind = "stream_token" => ~RouteAccess[c.kind].stream /\ c.token \in Token
      BY <1>1 DEF RouteAccess, CallOK, Kinds, TokenKinds, AccountsInv, TokensOK
    <3> QED
      BY <2>1, <3>1 DEF Guard, Token
  <2> QED
    BY <1>1, <2>1, <2>2, <2>3, MovesOn
<1> QED
  BY <1>2, <1>3

LEMMA LookingUpKeeps ==
    ASSUME AccountsInv, NEW s \in Slots, NEW err, LookUp(s, err), calls[s].at = "lookup",
           calls[s].kind # "disable"
    PROVE  AccountsInv'
BY LookUpKeeps

\* A User's INSERT, by Register or CreateUser.
LEMMA InsertKeeps ==
    ASSUME AccountsInv, NEW s \in Slots, NEW row \in Row, calls[s].at = "write",
           calls[s].kind \in {"register", "create"}, Commit(s, InsertUser(calls[s].name, row), 201)
    PROVE  AccountsInv'
<1> DEFINE n == calls[s].name
           statement == InsertUser(n, row)
<1>1. n \in Names /\ ActiveAdmin(users)
  BY DEF AccountsInv, CallsOK, CallOK, NamedKinds, UsersOK
<1>2. Statements(statement)
  BY <1>1, Inserting
<1>3. statement.err = NoError => users[n] = NoUser /\ statement.rows[n] # NoUser
  <2>1. statement.err = NoError => users[n] = NoUser /\ statement.rows = [users EXCEPT ![n] = row]
    BY <1>1, Inserting
  <2> HIDE DEF statement
  <2> QED
    BY <1>1, <2>1, NoTokenNoUser DEF AccountsInv, UsersOK
<1> HIDE DEF statement
<1> QED
  BY <1>1, <1>2, <1>3, CommitKeeps DEF statement

LEMMA ServiceKeeps ==
    ASSUME AccountsInv, NEW s \in Slots,
           \/ Register(s) \/ CreateUser(s) \/ Disable(s) \/ Enable(s) \/ ResetPassword(s)
           \/ RunAdminReset(s)
    PROVE  AccountsInv'
<1> DEFINE c == calls[s]
           n == c.name
<1>1. CallOK(c) /\ c \in Call /\ c.password \in Passwords /\ c.role \in Roles
  BY DEF AccountsInv, CallsOK, CallOK, Call
<1>2. c.kind \in NamedKinds => n \in Names
  BY <1>1 DEF CallOK
<1>3. c.at = "write" /\ c.kind # "admin_reset" => ActiveAdmin(users)
  BY <1>1 DEF CallOK, AccountsInv, UsersOK
<1>4. CASE Register(s)
  <2> DEFINE row == [role |-> "viewer", password |-> c.password, disabled |-> FALSE]
  <2>1. row \in Row
    BY <1>1 DEF Row, Roles
  <2> QED
    BY <1>4, <2>1, LookingUpKeeps, InsertKeeps DEF Register, CallAt
<1>5. CASE CreateUser(s)
  <2> DEFINE row == [role |-> c.role, password |-> c.password, disabled |-> FALSE]
  <2>1. row \in Row
    BY <1>1 DEF Row, Roles
  <2> QED
    BY <1>5, <2>1, LookingUpKeeps, InsertKeeps DEF CreateUser, CallAt
<1>6. CASE Disable(s)
  <2> DEFINE err == IF users[n] = NoUser THEN {"not_found"}
                    ELSE IF users[n].role = "admin" THEN {"cannot_disable_admin"} ELSE NoError
  <2>1. CASE CallAt(s, "disable", "lookup") /\ LookUp(s, err)
    <3>1. err = NoError => users[n] # NoUser /\ users[n].role # "admin"
      BY DEF NoError
    <3> HIDE DEF err
    <3> QED
      BY <2>1, <3>1, LookUpKeeps DEF CallAt
  <2>2. CASE CallAt(s, "disable", "write") /\ Commit(s, DisableUser(n), 204)
    <3>1. n \in Names /\ users[n].role # "admin" /\ ActiveAdmin(users)
      BY <1>1, <1>2, <1>3, <2>2 DEF CallAt, CallOK, NamedKinds
    <3> QED
      BY <2>2, <3>1, Disabling, CommitKeeps
  <2> QED
    BY <1>6, <2>1, <2>2 DEF Disable
<1>7. CASE Enable(s)
  <2>1. CASE CallAt(s, "enable", "lookup") /\ LookUp(s, Exists(n))
    BY <2>1, LookingUpKeeps DEF CallAt
  <2>2. CASE CallAt(s, "enable", "write") /\ Commit(s, EnableUser(n), 200)
    <3>1. n \in Names /\ ActiveAdmin(users)
      BY <1>2, <1>3, <2>2 DEF CallAt, NamedKinds
    <3> QED
      BY <2>2, <3>1, Enabling, CommitKeeps
  <2> QED
    BY <1>7, <2>1, <2>2 DEF Enable
<1>8. CASE ResetPassword(s)
  <2>1. CASE CallAt(s, "reset", "lookup") /\ LookUp(s, Exists(n))
    BY <2>1, LookingUpKeeps DEF CallAt
  <2>2. CASE CallAt(s, "reset", "write") /\ Commit(s, UpdatePassword(n, c.password), 200)
    <3>1. n \in Names
      BY <1>2, <2>2 DEF CallAt, NamedKinds
    <3> QED
      BY <1>1, <2>2, <3>1, UpdatingPassword, CommitKeeps
  <2> QED
    BY <1>8, <2>1, <2>2 DEF ResetPassword
<1>9. CASE RunAdminReset(s)
  <2>1. CASE CallAt(s, "admin_reset", "lookup") /\ LookUp(s, Exists(AdminName))
    BY <2>1, LookingUpKeeps DEF CallAt
  <2>2. CASE CallAt(s, "admin_reset", "write") /\ Commit(s, UpdatePassword(AdminName, AdminPassword), 0)
    BY <2>2, AccountsAssumption, UpdatingPassword, CommitKeeps
  <2> QED
    BY <1>9, <2>1, <2>2 DEF RunAdminReset
<1> QED
  BY <1>4, <1>5, <1>6, <1>7, <1>8, <1>9

LEMMA LoginKeeps ==
    ASSUME AccountsInv, NEW s \in Slots, Login(s) PROVE AccountsInv'
<1> DEFINE c == calls[s]
           n == c.name
           row == users[n]
           t == [user |-> n, role |-> row.role, scope |-> "login", video |-> NoVideo,
                 exp |-> now + LoginLife, login |-> now, shut |-> c.shut]
<1>1. CallOK(c) /\ c \in Call /\ c.at = "lookup" /\ c.kind = "login"
  BY DEF Login, CallAt, AccountsInv, CallsOK, CallOK
<1>2. n \in Names /\ c.token = NoToken
  BY <1>1 DEF CallOK, NamedKinds, TokenKinds
<1>3. CASE Refuse(s) /\ UNCHANGED <<users, server, tokens, now, created>>
  BY <1>3, RefusedKeeps
<1>4. CASE ~(Refuse(s) /\ UNCHANGED <<users, server, tokens, now, created>>)
  <2>1. row # NoUser /\ ~row.disabled /\ Issue(s, t)
    BY <1>4 DEF Login
  <2>2. row \in Row /\ ~c.shut
    BY <1>1, <1>2, <2>1 DEF CallOK, Subject, AccountsInv, UsersOK
  <2>3. now \in Nat /\ LoginLife \in Nat /\ StreamLife \in Nat /\ StreamLife > 0
    BY AccountsAssumption DEF AccountsInv
  <2>4. t.exp = now + LoginLife /\ t.login = now /\ t.shut = c.shut
    OBVIOUS
  <2>5. t \in Token
    <3> DEFINE exp == now + LoginLife
    <3>1. exp \in Nat /\ row.role \in Roles /\ c.shut \in BOOLEAN
      BY <1>1, <2>2, <2>3 DEF Row, Call
    <3> HIDE DEF exp, row, n
    <3> QED
      BY <1>2, <2>3, <3>1 DEF Token, exp
  <2> HIDE DEF t
  <2>6. t.exp = t.login + LoginLife /\ t.exp < t.login + LoginLife + StreamLife
    BY <2>3, <2>4
  <2> QED
    BY <2>1, <2>2, <2>4, <2>5, <2>6, IssueKeeps
<1> QED
  BY <1>3, <1>4

LEMMA StreamTokenKeeps ==
    ASSUME AccountsInv, NEW s \in Slots, GenerateStreamToken(s) PROVE AccountsInv'
<1> DEFINE c == calls[s]
           u == c.token
           t == [user |-> u.user, role |-> u.role, scope |-> "stream", video |-> c.video,
                 exp |-> now + StreamLife, login |-> u.login, shut |-> c.shut]
<1>1. CallOK(c) /\ c \in Call /\ c.at = "lookup" /\ c.kind = "stream_token" /\ Issue(s, t)
  BY DEF GenerateStreamToken, CallAt, AccountsInv, CallsOK, CallOK
<1>2. u # NoToken
  BY <1>1 DEF CallOK, TokenKinds, Kinds
<1>3. u \in tokens /\ now < u.exp /\ ~c.shut /\ u.scope = "login"
  BY <1>1, <1>2 DEF CallOK
<1>4. u \in Token /\ u.exp = u.login + LoginLife
  BY <1>3 DEF AccountsInv, TokensOK
<1>5. now \in Nat /\ LoginLife \in Nat /\ StreamLife \in Nat /\ u.login \in Nat
  BY <1>4, AccountsAssumption DEF AccountsInv, Token
<1>6. t.scope = "stream" /\ t.exp < t.login + LoginLife + StreamLife /\ ~t.shut
  BY <1>3, <1>4, <1>5
<1>7. t \in Token
  BY <1>1, <1>3, <1>4, <1>5 DEF Token, Call
<1> HIDE DEF t
<1> QED
  BY <1>1, <1>6, <1>7, IssueKeeps

\* The server's start: it serves when a User is there, or the admin is seeded.
LEMMA BootKeeps ==
    ASSUME AccountsInv, Boot \/ SeedAdmin PROVE AccountsInv'
<1>1. CASE Boot
  <2>1. CountUsers > 0 => \E n \in Names : users[n] # NoUser
    <3> SUFFICES ASSUME \A n \in Names : users[n] = NoUser PROVE ~(CountUsers > 0)
      OBVIOUS
    <3>1. {n \in Names : users[n] # NoUser} = {}
      OBVIOUS
    <3> QED
      BY <3>1, FS_EmptySet DEF CountUsers
  <2>2. /\ UNCHANGED <<users, tokens, calls, now, created>> /\ server = "down"
        /\ server' = IF CountUsers > 0 THEN "serving" ELSE "lookup"
    BY <1>1 DEF Boot
  <2>3. UsersOK'
    BY <2>1, <2>2 DEF AccountsInv, UsersOK, ActiveAdmin
  <2>4. TokensOK' /\ CreatedOK'
    BY <2>2 DEF AccountsInv, TokensOK, CreatedOK
  <2>5. ASSUME NEW x \in Slots PROVE CallOK(calls[x])'
    <3>1. CallOK(calls[x]) /\ calls'[x] = calls[x]
      BY <2>2 DEF AccountsInv, CallsOK
    <3> QED
      BY <2>2, <3>1 DEF CallOK, Subject
  <2>6. CallsOK'
    BY <2>2, <2>5 DEF AccountsInv, CallsOK
  <2> QED
    BY <2>2, <2>3, <2>4, <2>6 DEF AccountsInv
<1>2. CASE SeedAdmin /\ server = "lookup"
  BY <1>2 DEF SeedAdmin, AccountsInv, UsersOK, ActiveAdmin, TokensOK, CreatedOK, CallsOK, CallOK, Subject
<1>3. CASE SeedAdmin /\ server = "write"
  <2> DEFINE row == [role |-> "admin", password |-> AdminPassword, disabled |-> FALSE]
             seeded == InsertUser(AdminName, row)
  <2>1. row \in Row /\ AdminName \in Names
    BY AccountsAssumption DEF Row, Roles
  <2>2. /\ users' = seeded.rows /\ UNCHANGED <<tokens, calls, now, created>>
        /\ server' = IF seeded.err = NoError THEN "serving" ELSE "down"
    BY <1>3 DEF SeedAdmin
  <2>3. CASE seeded.err # NoError
    <3>1. users' = users /\ server' = "down"
      BY <2>1, <2>2, <2>3, Inserting
    <3> HIDE DEF seeded
    <3>2. CallsOK'
      <4> SUFFICES ASSUME NEW s \in Slots PROVE CallOK(calls[s])'
        BY <2>2 DEF AccountsInv, CallsOK
      <4>1. CallOK(calls[s]) /\ calls'[s] = calls[s]
        BY <2>2 DEF AccountsInv, CallsOK
      <4> QED
        BY <1>3, <2>2, <3>1, <4>1 DEF CallOK, Subject
    <3> QED
      BY <2>2, <3>1, <3>2 DEF AccountsInv, UsersOK, ActiveAdmin, TokensOK, CreatedOK
  <2>4. CASE seeded.err = NoError
    <3>1. /\ users[AdminName] = NoUser /\ users' = [users EXCEPT ![AdminName] = row]
          /\ server' = "serving"
      BY <2>1, <2>2, <2>4, Inserting
    <3>2. row # NoUser /\ row.role = "admin" /\ ~row.disabled
      BY <2>1, NoTokenNoUser
    <3> HIDE DEF row
    <3>3. /\ users'[AdminName] = row /\ \A n \in Names \ {AdminName} : users'[n] = users[n]
          /\ users' \in [Names -> Row \cup {NoUser}]
      BY <2>1, <3>1 DEF AccountsInv, UsersOK
    <3>4. UsersOK'
      BY <2>1, <3>1, <3>2, <3>3 DEF UsersOK, ActiveAdmin
    <3>5. CreatedOK'
      BY <2>2, <3>2, <3>3 DEF AccountsInv, CreatedOK
    <3>6. CallsOK'
      <4> SUFFICES ASSUME NEW s \in Slots PROVE CallOK(calls[s])'
        BY <2>2 DEF AccountsInv, CallsOK
      <4>1. CallOK(calls[s]) /\ calls'[s] = calls[s]
        BY <2>2 DEF AccountsInv, CallsOK
      <4>2. \A n \in Names : users[n] # NoUser => users'[n] = users[n]
        BY <3>1, <3>3
      <4> QED
        BY <2>2, <3>1, <4>1, <4>2 DEF CallOK, Subject, NamedKinds
    <3> QED
      BY <2>2, <3>4, <3>5, <3>6 DEF AccountsInv, TokensOK
  <2> QED
    BY <2>3, <2>4
<1> QED
  BY <1>1, <1>2, <1>3 DEF SeedAdmin

LEMMA AccountsStep == AccountsInv /\ [AccountsNext]_accountVars => AccountsInv'
<1> SUFFICES ASSUME AccountsInv, [AccountsNext]_accountVars PROVE AccountsInv'
  OBVIOUS
<1>1. ASSUME NEW s \in Slots, CallEnds(s) PROVE AccountsInv'
  BY <1>1, RefusedKeeps DEF CallEnds
<1>2. CASE Crash
  <2>1. UNCHANGED <<users, tokens, now, created>> /\ server' = "down"
    BY <1>2 DEF Crash
  <2>2. calls' = [s \in Slots |-> IF calls[s].kind = "admin_reset" THEN calls[s] ELSE NoCall]
    BY <1>2 DEF Crash
  <2>3. ASSUME NEW s \in Slots PROVE CallOK(calls[s])'
    <3>1. CASE calls[s].kind = "admin_reset"
      BY <2>1, <2>2, <3>1 DEF AccountsInv, CallsOK, CallOK, Subject
    <3>2. CASE calls[s].kind # "admin_reset"
      <4>1. calls'[s] = NoCall
        BY <2>2, <3>2
      <4> QED
        BY <4>1, NoTokenNoUser, AccountsAssumption
        DEF CallOK, NoCall, Call, Kinds, Roles, TokenKinds, NamedKinds
    <3> QED
      BY <3>1, <3>2
  <2>4. CallsOK'
    BY <2>2, <2>3 DEF CallsOK
  <2> QED
    BY <2>1, <2>4 DEF AccountsInv, UsersOK, ActiveAdmin, TokensOK, CreatedOK
<1>3. CASE Tick
  <2>1. /\ UNCHANGED <<users, server, tokens, calls, created>> /\ now' = now + 1
        /\ \A s \in Slots : calls[s].at = "idle"
    BY <1>3 DEF Tick
  <2>2. CallsOK'
    <3> SUFFICES ASSUME NEW s \in Slots PROVE CallOK(calls[s])'
      BY <2>1 DEF AccountsInv, CallsOK
    <3>1. CallOK(calls[s]) /\ calls'[s] = calls[s] /\ calls[s].at = "idle"
      BY <2>1 DEF AccountsInv, CallsOK
    <3> QED
      BY <2>1, <3>1 DEF CallOK, Subject
  <2> QED
    BY <2>1, <2>2 DEF AccountsInv, UsersOK, ActiveAdmin, TokensOK, CreatedOK
<1>4. CASE UNCHANGED accountVars
  BY <1>4 DEF accountVars, AccountsInv, UsersOK, ActiveAdmin, TokensOK, CreatedOK, CallsOK, CallOK, Subject
<1> QED
  BY <1>1, <1>2, <1>3, <1>4, ArrivalKeeps, AdmissionKeeps, ServiceKeeps, LoginKeeps, StreamTokenKeeps,
     BootKeeps DEF AccountsNext

-----------------------------------------------------------------------------
\* The tables, the tokens and the calls keep their types, a call's Video and
\* name with them.
THEOREM AccountTypes == AccountsSpec => []AccountsTypeOK
<1>1. AccountsInv => AccountsTypeOK
  BY DEF AccountsInv, UsersOK, TokensOK, CreatedOK, CallsOK, CallOK, AccountsTypeOK
<1> QED
  BY <1>1, AccountsStart, AccountsStep, PTL DEF AccountsSpec

\* While the server serves, some admin can log in, whatever calls, restarts and
\* resets came before (initDefaultAdmin, UserService.Disable).
THEOREM AdminAccess == AccountsSpec => []AnAdminCanLogIn
<1>1. AccountsInv => AnAdminCanLogIn
  BY DEF AccountsInv, UsersOK, ActiveAdmin, AnAdminCanLogIn
<1> QED
  BY <1>1, AccountsStart, AccountsStep, PTL DEF AccountsSpec

\* At most one call is told that it created the User of a name (the check and
\* the INSERT of Register and UserService.Create).
THEOREM OneCreation == AccountsSpec => []CreatedOnce
<1>1. AccountsInv => CreatedOnce
  BY DEF AccountsInv, CreatedOK, CreatedOnce
<1> QED
  BY <1>1, AccountsStart, AccountsStep, PTL DEF AccountsSpec

\* A User that is disabled when a call of theirs arrives is let through by
\* no middleware, and gets no token (RequireActiveUser, AuthService.Login).
THEOREM DisabledStayOut == AccountsSpec => []DisabledUsersStayOut
<1>1. AccountsInv => DisabledUsersStayOut
  BY DEF AccountsInv, TokensOK, CallsOK, CallOK, DisabledUsersStayOut
<1> QED
  BY <1>1, AccountsStart, AccountsStep, PTL DEF AccountsSpec

\* No chain of tokens outlives its login by more than one life of each kind
\* (Login, GenerateStreamToken, the route table).
THEOREM AccessIsBounded == AccountsSpec => []AccessEnds
<1>1. AccountsInv => AccessEnds
  BY DEF AccountsInv, TokensOK, AccessEnds
<1> QED
  BY <1>1, AccountsStart, AccountsStep, PTL DEF AccountsSpec
=============================================================================
