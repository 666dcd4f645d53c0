------------------------------ MODULE Accounts ------------------------------
(***************************************************************************)
(* Users, login tokens, Stream Tokens and the calls they admit:            *)
(* AuthService, UserService, the user repository, the JWTAuth,             *)
(* RequireActiveUser and guard middlewares, the server's start and the     *)
(* maintenance command that resets the admin's password.                   *)
(*                                                                         *)
(* Each SQL statement is a step of its own, so two calls interleave        *)
(* between a service's lookup and its write.  A User is never deleted nor  *)
(* renamed: the name stands for the id.  Time passes in ticks, and a call  *)
(* is answered within the tick it arrives in.                              *)
(***************************************************************************)
EXTENDS Catalogue

CONSTANTS Names,       \* usernames
          AdminName,   \* ADMIN_DEFAULT_USERNAME
          Passwords,
          AdminPassword, \* ADMIN_DEFAULT_PASSWORD
          LoginLife,   \* JWT_EXPIRY_HOURS, in ticks
          StreamLife,  \* STREAM_TOKEN_EXPIRY_MINUTES, in ticks
          MaxTime,     \* bound: ticks that pass
          MaxTokens,   \* bound: valid tokens at a time
          Streamed,    \* bound: the Videos that are asked for
          NoUser, NoToken, NoName

ASSUME AccountsAssumption ==
    /\ AdminName \in Names /\ NoName \notin Names
    /\ AdminPassword \in Passwords /\ Streamed \subseteq Videos
    /\ LoginLife \in Nat \ {0} /\ StreamLife \in Nat \ {0} /\ MaxTime \in Nat
    /\ NoUser \notin [role : {"admin", "viewer"}, password : Passwords, disabled : BOOLEAN]
    /\ NoToken \notin [user : Names, role : {"admin", "viewer"}, scope : {"login", "stream"},
                       video : Videos \cup {NoVideo}, exp : Nat, login : Nat, shut : BOOLEAN]

VARIABLES
    users,   \* the users table
    server,  \* where the server process stands: down, seeding the admin, serving
    tokens,  \* every token issued
    calls,   \* calls[s]: the call in slot s
    now,
    created  \* history: calls answered 201 for a new User of that name

accountVars == <<users, server, tokens, calls, now, created>>

Roles == {"admin", "viewer"}
Row == [role : Roles, password : Passwords, disabled : BOOLEAN]
Token == [user : Names, role : Roles, scope : {"login", "stream"}, video : Videos \cup {NoVideo},
          exp : Nat,
          login : Nat,      \* history: when the User logged in for it
          shut : BOOLEAN]   \* history: issued to a User disabled before the call arrived
Kinds == {"register", "login", "create", "disable", "enable", "reset", "stream_token",
          "view", "manage", "stream", "admin_reset"}
Call == [kind : Kinds \cup {"none"}, at : {"idle", "admit", "lookup", "write"},
         token : Token \cup {NoToken}, name : Names \cup {NoName}, password : Passwords,
         role : Roles, video : Videos \cup {NoVideo},
         shut : BOOLEAN]    \* history: its User was disabled when it arrived and is since
NoCall == [kind |-> "none", at |-> "idle", token |-> NoToken, name |-> NoName,
           password |-> AdminPassword, role |-> "viewer", video |-> NoVideo, shut |-> FALSE]

AccountsTypeOK ==
    /\ users \in [Names -> Row \cup {NoUser}]
    /\ server \in {"down", "lookup", "write", "serving"}
    /\ tokens \in SUBSET Token
    /\ calls \in [Slots -> Call]
    /\ now \in Nat
    /\ created \in [Names -> Nat]

AccountsInit ==
    /\ users = [n \in Names |-> NoUser]
    /\ server = "down"
    /\ tokens = {}
    /\ calls = [s \in Slots |-> NoCall]
    /\ now = 0
    /\ created = [n \in Names |-> 0]

-----------------------------------------------------------------------------
\* The user repository.  A statement returns the table it leaves and its error.

\* Mutant: a taken username is overwritten.
InsertUserUpserts(n, row) == [rows |-> [users EXCEPT ![n] = row], err |-> NoError]

InsertUser(n, row) ==
    IF users[n] = NoUser THEN [rows |-> [users EXCEPT ![n] = row], err |-> NoError]
    ELSE [rows |-> users, err |-> PlainError]   \* the unique constraint on username

Missing == [rows |-> users, err |-> {"not_found"}]

\* Both UPDATEs also ask for the state they leave, and report ErrNotFound on none.
DisableUser(n) ==
    IF users[n] = NoUser \/ users[n].disabled THEN Missing
    ELSE [rows |-> [users EXCEPT ![n].disabled = TRUE], err |-> NoError]

EnableUser(n) ==
    IF users[n] = NoUser \/ ~users[n].disabled THEN Missing
    ELSE [rows |-> [users EXCEPT ![n].disabled = FALSE], err |-> NoError]

UpdatePassword(n, p) ==
    IF users[n] = NoUser THEN Missing
    ELSE [rows |-> [users EXCEPT ![n].password = p], err |-> NoError]

CountUsers == Cardinality({n \in Names : users[n] # NoUser})

-----------------------------------------------------------------------------
\* The route table: who may make which call.

\* Mutant: a Stream Token may ask for another.
RouteAccessRenews ==
    [k \in Kinds |-> [viewer |-> k \in {"view", "stream_token", "stream"},
                      stream |-> k \in {"stream_token", "stream"}]]

RouteAccess ==
    [k \in Kinds |->
        [viewer |-> k \in {"view", "stream_token", "stream"}, stream |-> k = "stream"]]

\* guard: a Stream Token reaches only the stream routes of its own Video.
Guard(k, t, v) ==
    /\ t.scope = "stream" => RouteAccess[k].stream /\ t.video = v
    /\ t.role = "admin" \/ RouteAccess[k].viewer

ValidToken(t) == now < t.exp

-----------------------------------------------------------------------------
CallAt(s, k, place) == calls[s].kind = k /\ calls[s].at = place
Goto(s, place) == calls' = [calls EXCEPT ![s].at = place]

\* history: a call stays shut while the User it speaks for is disabled.
StillShut(call, rows) ==
    LET n == IF call.token = NoToken THEN call.name ELSE call.token.user
    IN  call.shut /\ rows[n].disabled

\* A handler's last statement, and its answer.
Commit(s, statement, ok) ==
    /\ users' = statement.rows
    /\ calls' = [x \in Slots |->
                   IF x = s THEN NoCall
                   ELSE [calls[x] EXCEPT !.shut = StillShut(calls[x], statement.rows)]]
    /\ created' = IF StatusOf(statement.err, ok) = 201
                  THEN [created EXCEPT ![calls[s].name] = @ + 1] ELSE created
    /\ UNCHANGED <<server, tokens, now>>

\* A lookup that refuses the call, or lets it go on to its write.
Refuse(s) == calls' = [calls EXCEPT ![s] = NoCall]
LookUp(s, err) ==
    /\ IF err = NoError THEN Goto(s, "write") ELSE Refuse(s)
    /\ UNCHANGED <<users, server, tokens, now, created>>

Exists(n) == IF users[n] = NoUser THEN {"not_found"} ELSE NoError

Issue(s, t) ==
    /\ t \in tokens \/ Cardinality({u \in tokens : ValidToken(u)}) < MaxTokens
    /\ tokens' = tokens \cup {t}
    /\ calls' = [calls EXCEPT ![s] = NoCall]
    /\ UNCHANGED <<users, server, now, created>>

-----------------------------------------------------------------------------
\* Calls arrive: two without a token, the others through JWTAuth.

Public(s, call) ==
    /\ server = "serving"
    /\ calls[s].at = "idle"
    /\ calls' = [calls EXCEPT ![s] = call]
    /\ UNCHANGED <<users, server, tokens, now, created>>

Shut(n) == users[n] # NoUser /\ users[n].disabled

RegisterCall(s) ==
    \E n \in Names, p \in Passwords :
        Public(s, [NoCall EXCEPT !.kind = "register", !.at = "lookup", !.name = n, !.password = p])

LoginCall(s) ==
    \E n \in Names, p \in Passwords :
        Public(s, [NoCall EXCEPT !.kind = "login", !.at = "lookup", !.name = n, !.password = p,
                                 !.shut = Shut(n)])

JWTAuth(s) ==
    /\ server = "serving"
    /\ calls[s].at = "idle"
    /\ \E t \in tokens, k \in Kinds \ {"register", "login", "admin_reset"} :
         /\ ValidToken(t)
         /\ \E n \in Names, p \in Passwords, r \in Roles, v \in Streamed :
              calls' = [calls EXCEPT ![s] =
                [kind |-> k, at |-> "admit", token |-> t, shut |-> Shut(t.user),
                 name |-> IF k \in {"create", "disable", "enable", "reset"} THEN n ELSE NoName,
                 password |-> IF k \in {"create", "reset"} THEN p ELSE AdminPassword,
                 role |-> IF k = "create" THEN r ELSE "viewer",
                 video |-> IF k \in {"stream_token", "stream"} THEN v ELSE NoVideo]]
    /\ UNCHANGED <<users, server, tokens, now, created>>

\* Mutant: any User that exists is let through.
RequireAnyUser(s) ==
    /\ calls[s].at = "admit"
    /\ LET t == calls[s].token
       IN  IF users[t.user] # NoUser /\ Guard(calls[s].kind, t, calls[s].video)
           THEN Goto(s, "lookup")
           ELSE Refuse(s)
    /\ UNCHANGED <<users, server, tokens, now, created>>

\* RequireActiveUser reads the User, then the route's guard decides.
RequireActiveUser(s) ==
    /\ calls[s].at = "admit"
    /\ LET t == calls[s].token
           active == users[t.user] # NoUser /\ ~users[t.user].disabled
       IN  IF active /\ Guard(calls[s].kind, t, calls[s].video)
           THEN Goto(s, "lookup")
           ELSE Refuse(s)
    /\ UNCHANGED <<users, server, tokens, now, created>>

-----------------------------------------------------------------------------
\* The services behind the calls.

NameTaken(n) == IF users[n] # NoUser THEN {"username_taken"} ELSE NoError

Register(s) ==
    LET n == calls[s].name IN
    \/ CallAt(s, "register", "lookup") /\ LookUp(s, NameTaken(n))
    \/ /\ CallAt(s, "register", "write")
       /\ Commit(s, InsertUser(n, [role |-> "viewer", password |-> calls[s].password,
                                   disabled |-> FALSE]), 201)

Login(s) ==
    /\ CallAt(s, "login", "lookup")
    /\ LET n == calls[s].name  row == users[n]
       IN  IF row = NoUser \/ row.disabled \/ row.password # calls[s].password
           THEN Refuse(s) /\ UNCHANGED <<users, server, tokens, now, created>>
           ELSE Issue(s, [user |-> n, role |-> row.role, scope |-> "login", video |-> NoVideo,
                          exp |-> now + LoginLife, login |-> now, shut |-> calls[s].shut])

GenerateStreamToken(s) ==
    /\ CallAt(s, "stream_token", "lookup")
    /\ LET t == calls[s].token
       IN  Issue(s, [user |-> t.user, role |-> t.role, scope |-> "stream",
                     video |-> calls[s].video, exp |-> now + StreamLife,
                     login |-> t.login, shut |-> calls[s].shut])

CreateUser(s) ==
    LET n == calls[s].name IN
    \/ CallAt(s, "create", "lookup") /\ LookUp(s, NameTaken(n))
    \/ /\ CallAt(s, "create", "write")
       /\ Commit(s, InsertUser(n, [role |-> calls[s].role, password |-> calls[s].password,
                                   disabled |-> FALSE]), 201)

\* Mutant: admins may be disabled as well.
DisableAnyone(s) ==
    LET n == calls[s].name IN
    \/ CallAt(s, "disable", "lookup") /\ LookUp(s, Exists(n))
    \/ CallAt(s, "disable", "write") /\ Commit(s, DisableUser(n), 204)

Disable(s) ==
    LET n == calls[s].name IN
    \/ /\ CallAt(s, "disable", "lookup")
       /\ LookUp(s, IF users[n] = NoUser THEN {"not_found"}
                    ELSE IF users[n].role = "admin" THEN {"cannot_disable_admin"} ELSE NoError)
    \/ CallAt(s, "disable", "write") /\ Commit(s, DisableUser(n), 204)

Enable(s) ==
    LET n == calls[s].name IN
    \/ CallAt(s, "enable", "lookup") /\ LookUp(s, Exists(n))
    \/ CallAt(s, "enable", "write") /\ Commit(s, EnableUser(n), 200)

ResetPassword(s) ==
    LET n == calls[s].name IN
    \/ CallAt(s, "reset", "lookup") /\ LookUp(s, Exists(n))
    \/ CallAt(s, "reset", "write") /\ Commit(s, UpdatePassword(n, calls[s].password), 200)

\* A statement fails or the client gives up: the call ends without effect.  So
\* does, in this module, every call of another route once it is admitted.
CallEnds(s) ==
    /\ calls[s].at # "idle"
    /\ Refuse(s)
    /\ UNCHANGED <<users, server, tokens, now, created>>

-----------------------------------------------------------------------------
\* The -reset-admin-password command: a process of its own, server or no server.

StartAdminReset(s) ==
    /\ calls[s].at = "idle"
    /\ calls' = [calls EXCEPT ![s] = [NoCall EXCEPT !.kind = "admin_reset", !.at = "lookup",
                                                   !.name = AdminName]]
    /\ UNCHANGED <<users, server, tokens, now, created>>

RunAdminReset(s) ==
    \/ CallAt(s, "admin_reset", "lookup") /\ LookUp(s, Exists(AdminName))
    \/ CallAt(s, "admin_reset", "write") /\ Commit(s, UpdatePassword(AdminName, AdminPassword), 0)

\* main before it serves: initDefaultAdmin counts, then registers the admin.
Boot ==
    /\ server = "down"
    /\ server' = IF CountUsers > 0 THEN "serving" ELSE "lookup"
    /\ UNCHANGED <<users, tokens, calls, now, created>>

SeedAdmin ==
    \/ /\ server = "lookup"
       /\ server' = IF NameTaken(AdminName) = NoError THEN "write" ELSE "down"
       /\ UNCHANGED <<users, tokens, calls, now, created>>
    \/ /\ server = "write"
       /\ LET seeded == InsertUser(AdminName, [role |-> "admin", password |-> AdminPassword,
                                               disabled |-> FALSE])
          IN  /\ users' = seeded.rows
              /\ server' = IF seeded.err = NoError THEN "serving" ELSE "down"
       /\ UNCHANGED <<tokens, calls, now, created>>

\* The process ends: the calls it was answering are gone, the statements they ran stay.
Crash ==
    /\ server # "down"
    /\ server' = "down"
    /\ calls' = [s \in Slots |-> IF calls[s].kind = "admin_reset" THEN calls[s] ELSE NoCall]
    /\ UNCHANGED <<users, tokens, now, created>>

Tick ==
    /\ now < MaxTime
    /\ \A s \in Slots : calls[s].at = "idle"
    /\ now' = now + 1
    /\ UNCHANGED <<users, server, tokens, calls, created>>

AccountsNext ==
    \/ \E s \in Slots :
         \/ RegisterCall(s) \/ LoginCall(s) \/ JWTAuth(s) \/ RequireActiveUser(s)
         \/ Register(s) \/ Login(s) \/ GenerateStreamToken(s)
         \/ CreateUser(s) \/ Disable(s) \/ Enable(s) \/ ResetPassword(s)
         \/ StartAdminReset(s) \/ RunAdminReset(s) \/ CallEnds(s)
    \/ Boot \/ SeedAdmin \/ Crash \/ Tick

AccountsSpec == AccountsInit /\ [][AccountsNext]_accountVars

-----------------------------------------------------------------------------
\* While the server serves, some admin can log in: the seed at start, restarts
\* in the middle of it, and Disable's refusal of admins leave one (main.go
\* initDefaultAdmin, UserService.Disable).
AnAdminCanLogIn ==
    server = "serving" =>
        \E n \in Names : users[n] # NoUser /\ users[n].role = "admin" /\ ~users[n].disabled

\* Of the calls that race to take a username, over any number of restarts, at
\* most one is told 201 (the check and the INSERT are two statements).
CreatedOnce == \A n \in Names : created[n] <= 1

\* A call that arrives after its User was disabled gets past no middleware and
\* no login, on whatever token, unless the User is enabled meanwhile.
DisabledUsersStayOut ==
    /\ \A s \in Slots : calls[s].token # NoToken /\ calls[s].at \in {"lookup", "write"}
                          => ~calls[s].shut
    /\ \A t \in tokens : ~t.shut

\* Access ends: whatever chain of tokens a login leads to, none of them is
\* valid later than one login token and one Stream Token allow.
AccessEnds == \A t \in tokens : t.exp < t.login + LoginLife + StreamLife
=============================================================================
