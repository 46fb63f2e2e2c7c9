------------------------------ MODULE Accounts ------------------------------
(***************************************************************************)
(* Accounts and stream keys behind the HTTP API (transport/http,           *)
(* middleware, core/service, store, db), and the lookup of the key an      *)
(* encoder connects with.  Requests run concurrently on one PostgreSQL     *)
(* database; each statement may fail, a commit may take effect although it *)
(* is reported to have failed, and the server may crash and restart.       *)
(*                                                                         *)
(* Requests are numbered as they come, and r also stands for what request  *)
(* r generates: the id the database gives the user it inserts, and the     *)
(* random stream key of that user.  A password stands for its hash.        *)
(***************************************************************************)
EXTENDS Naturals, Sequences, Functions

CONSTANTS
  MaxRequests, \* bound: requests the server gets
  Name,        \* user names
  Password,
  Existing,    \* the users there are at first
  None,        \* no user, name, password or content
  Origins      \* HTTP_ALLOWED_ORIGINS, a sequence

Request == 1..MaxRequests

ASSUME AccountsAssumption ==
  /\ MaxRequests \in Nat /\ None \notin Name
  /\ \A u \in Existing : u.name \in Name
  /\ \A u \in Existing : u.id \notin Request
  /\ \A u, v \in Existing : u.id = v.id \/ u.name = v.name => u = v

VARIABLES
  users,   \* the committed rows of the table users ...
  keys,    \* ... and of stream_keys
  tokens,  \* users that access tokens have been created for
  call,    \* call[r]: what request r asks for
  pc,      \* pc[r]: where its goroutine is
  user,    \* user[r]: the user filled in by the service or the middleware
  res      \* res[r]: the response

vars == <<users, keys, tokens, call, pc, user, res>>

Body == {"ok", "invalid", "null"}
SignOp == {"signup", "signin"}
OwnOp  == {"whoami", "ownkey"}
Op     == SignOp \cup OwnOp \cup {"lookup", "publish"}

\* What a request is given, and the names whose sign-up had been answered when
\* it came.
Calls(ops, names, pswds, creds) ==
  [op : ops, name : names, pswd : pswds, cred : creds, known : SUBSET Name]

Id   == Request \cup {u.id : u \in Existing}

Call == Calls(SignOp, Name, Password, {None})
        \cup Calls({"lookup"}, Name, {None}, {None})
        \cup Calls(OwnOp, {None}, {None}, Id)
        \cup Calls({"publish"}, {None}, {None}, {None} \cup Id)

ASSUME CallAssumption == None \notin Call

UserRow(r) == [id |-> r, name |-> call[r].name, pswd |-> call[r].pswd]
KeyRow(id) == [key |-> id, user |-> id, active |-> TRUE]

Response(status, text, content) ==
  [status |-> status, text |-> text, content |-> content]

\* The body is invalid, "Username is taken", "Invalid credentials", and the texts
\* no property is about.
Text == {"invalid", "taken", "wrong", "other"}

NoResponse == Response(0, "other", None)

Init ==
  /\ users = Existing /\ tokens = {u.id : u \in Existing}
  /\ keys = {KeyRow(u.id) : u \in Existing}
  /\ call = [r \in Request |-> None] /\ pc = [r \in Request |-> "idle"]
  /\ user = [r \in Request |-> None]
  /\ res = [r \in Request |-> NoResponse]

Goto(r, where) == pc' = [pc EXCEPT ![r] = where]

Answer(r, status, text, content) ==
  /\ Goto(r, "done") /\ res' = [res EXCEPT ![r] = Response(status, text, content)]

\* http.Error.
Refuse(r, status, text) == Answer(r, status, text, None)

\* The queries.
ById(id)    == {u \in users : u.id = id}
Named(name) == {u \in users : u.name = name}
ByUser(id)  == {k \in keys : k.user = id}
ByKey(key)  == {k \in keys : k.key = key}

\* copyStreamKey: an inactive key counts as not found.
Active(found) == {k \in found : k.active}

\* Create and Verify.
CreateToken(id) == tokens' = tokens \cup {id}
Verify(cred)    == cred \in tokens
-----------------------------------------------------------------------------
(***************************************************************************)
(* RealIP, Logger, CORS, the routes and the bearer token.                  *)
(***************************************************************************)
\* How CORS treats a request: its origin, if any, and its method: that of a
\* route, another one, OPTIONS, or OPTIONS asking for a method.
Verb == {"route", "listed", "unlisted", "options", "preflight", "preflightunlisted"}

CORS(origin, verb) ==
  CASE origin = "none" -> "next"
    [] origin # "none" /\ Origins[1] # "*" /\ origin \notin Range(Origins) -> "empty"
    [] OTHER ->
         CASE verb = "options" -> "next"
           [] verb \in {"unlisted", "preflightunlisted"} /\ Origins # <<"*">> -> "empty"
           [] verb \in {"preflight", "preflightunlisted"} -> "preflight"
           [] OTHER -> "next"

\* The middleware answers, or no route has that method.
Screened(r, origin, verb) ==
  /\ pc[r] = "idle" /\ UNCHANGED <<users, keys, tokens, call, user>>
  /\ \/ CORS(origin, verb) # "next" /\ Refuse(r, 200, "other")
     \/ CORS(origin, verb) = "next" /\ verb # "route" /\ Refuse(r, 405, "other")

\* DecodeBody: a body that is no JSON or not valid is answered 400.  For the
\* body "null" Valid is called on a nil pointer: net/http recovers the panic
\* and closes the connection.
BadBody(r, body) ==
  /\ pc[r] = "idle" /\ UNCHANGED <<users, keys, tokens, call, user>>
  /\ \/ body = "invalid" /\ Refuse(r, 400, "invalid")
     \/ /\ body = "null" /\ Goto(r, "dropped")
        /\ res' = [res EXCEPT ![r] = Response(0, "invalid", None)]

\* A token is accepted until it expires.
Unauthorized(r) ==
  /\ pc[r] = "idle" /\ Refuse(r, 401, "other")
  /\ UNCHANGED <<users, keys, tokens, call, user>>

Known == {u.name : u \in Existing} \cup {call[q].name : q \in {p \in Request : res[p].status = 201}}

FirstStep == [op \in Op |->
  CASE op = "signup" -> "check" [] op = "signin" -> "find" [] OTHER -> op]

\* The request reaches its handler, or an encoder connects with a key.
Handle(r, c) ==
  /\ pc[r] = "idle" /\ c.known = Known /\ (c.op \in OwnOp => Verify(c.cred))
  /\ call' = [call EXCEPT ![r] = c] /\ Goto(r, FirstStep[c.op])
  /\ user' = [user EXCEPT ![r] = IF c.op \in OwnOp THEN c.cred ELSE None]
  /\ UNCHANGED <<users, keys, tokens, res>>
-----------------------------------------------------------------------------
(***************************************************************************)
(* SignUp, SignIn and sendAuthResponse.                                    *)
(***************************************************************************)
\* ExistsByUsername is false for a query that fails.
CheckName(r) ==
  /\ pc[r] = "check" /\ UNCHANGED <<users, keys, tokens, call, user>>
  /\ \/ Named(call[r].name) # {} /\ Refuse(r, 400, "taken")
     \/ Goto(r, "saveuser") /\ UNCHANGED res

\* Mutants of what follows: a transaction that failed is not rolled back; the
\* user is inserted outside of the transaction, or replaces one of that name.
InTrxKept(r) ==
  \/ pc[r] \in {"savekey", "commit"}
  \/ pc[r] = "done" /\ user[r] = r /\ \A u \in users : u.id # r

\* r has inserted its rows and not committed them.
InTrx(r) == pc[r] \in {"savekey", "commit"}

SaveUserAlone(r) ==
  /\ pc[r] = "saveuser" /\ Named(call[r].name) = {} /\ Goto(r, "savekey")
  /\ users' = users \cup {UserRow(r)} /\ UNCHANGED <<keys, tokens, call, user, res>>

SaveUserReplacing(r) ==
  /\ pc[r] = "saveuser" /\ Goto(r, "savekey")
  /\ UNCHANGED <<users, keys, tokens, call, user, res>>

\* HashPassword, createStreamKey, BeginTx and INSERT INTO users.  The insert
\* waits for another transaction that has inserted the name; once that one has
\* committed, the name is a duplicate.
SaveUser(r) ==
  /\ pc[r] = "saveuser"
  /\ \A q \in Request : InTrx(q) => call[q].name # call[r].name
  /\ IF Named(call[r].name) = {} THEN Goto(r, "savekey") /\ UNCHANGED res
     ELSE Refuse(r, 500, "other")
  /\ UNCHANGED <<users, keys, tokens, call, user>>

\* INSERT INTO stream_keys; *user is set before the transaction commits.
SaveKey(r) ==
  /\ pc[r] = "savekey" /\ Goto(r, "commit")
  /\ user' = [user EXCEPT ![r] = r]
  /\ UNCHANGED <<users, keys, tokens, call, res>>

\* Mutant: an error of the commit is ignored.
CommitUnchecked(r) ==
  /\ pc[r] = "commit" /\ Goto(r, "token")
  /\ \/ users' = users \cup {UserRow(r)} /\ keys' = keys \cup {KeyRow(r)}
     \/ UNCHANGED <<users, keys>>
  /\ UNCHANGED <<tokens, call, user, res>>

\* Both rows at once; the answer of the database may be lost.
Commit(r) ==
  /\ pc[r] = "commit"
  /\ users' = users \cup {UserRow(r)} /\ keys' = keys \cup {KeyRow(r)}
  /\ \/ Goto(r, "token") /\ UNCHANGED res
     \/ Refuse(r, 500, "other")
  /\ UNCHANGED <<tokens, call, user>>

\* Mutants: the user is filled in in a copy; the password is not verified.
FindUserCopied(r) ==
  /\ pc[r] = "find" /\ Named(call[r].name) # {} /\ Goto(r, "token")
  /\ UNCHANGED <<users, keys, tokens, call, user, res>>

FindUserUnverified(r) ==
  /\ pc[r] = "find" /\ Goto(r, "token") /\ UNCHANGED <<users, keys, tokens, call, res>>
  /\ \E u \in Named(call[r].name) : user' = [user EXCEPT ![r] = u.id]

\* SignIn.
FindUser(r) ==
  /\ pc[r] = "find" /\ UNCHANGED <<users, keys, tokens, call>>
  /\ \/ Named(call[r].name) = {} /\ Refuse(r, 404, "other") /\ UNCHANGED user
     \/ \E u \in Named(call[r].name) :
          /\ user' = [user EXCEPT ![r] = u.id]
          /\ IF u.pswd = call[r].pswd THEN Goto(r, "token") /\ UNCHANGED res
             ELSE Refuse(r, 400, "wrong")

SendToken(r) ==
  /\ pc[r] = "token" /\ Answer(r, 201, "other", user[r]) /\ CreateToken(user[r])
  /\ UNCHANGED <<users, keys, call, user>>

\* Whatever fails, hashing, randomness, a statement, the commit or the token,
\* is answered 500, and an open transaction is rolled back.
Fails(r) ==
  /\ pc[r] \notin {"idle", "check", "done", "dropped"} /\ Refuse(r, 500, "other")
  /\ UNCHANGED <<users, keys, tokens, call, user>>
-----------------------------------------------------------------------------
(***************************************************************************)
(* Lookups.                                                                *)
(***************************************************************************)
\* Answers 404 if there is nothing to reply.
Reply(r, contents) ==
  /\ UNCHANGED <<users, keys, tokens, call, user>>
  /\ \/ contents = {} /\ Refuse(r, 404, "other")
     \/ \E content \in contents : Answer(r, 200, "other", content)

\* GetCurrent and GetByUsername.
GetCurrent(r) ==
  pc[r] = "whoami" /\ Reply(r, {u.id : u \in ById(user[r])})

GetByUsername(r) ==
  pc[r] = "lookup" /\ Reply(r, {u.id : u \in Named(call[r].name)})

\* Mutant: the query lacks its condition.
GetKeyOfAnyone(r) ==
  pc[r] = "ownkey" /\ Reply(r, {k.key : k \in keys})

\* GetOfCurrentUser.
GetKey(r) ==
  pc[r] = "ownkey" /\ Reply(r, {k.key : k \in Active(ByUser(user[r]))})

\* onConnect of the RTMP transport: the key decides whose publisher it is; any
\* error closes the connection.
OnConnect(r) ==
  pc[r] = "publish" /\ Reply(r, {k.user : k \in Active(ByKey(call[r].cred))})

\* An operator switches a key off in the database.
Deactivate(k) ==
  /\ k \in keys /\ k.active
  /\ keys' = (keys \ {k}) \cup {[k EXCEPT !.active = FALSE]}
  /\ UNCHANGED <<users, tokens, call, pc, user, res>>

\* The server restarts: requests in progress are never answered, and the
\* database rolls their transactions back.
Crash ==
  /\ pc' = [r \in Request |-> IF pc[r] \in {"idle", "done"} THEN pc[r] ELSE "dropped"]
  /\ UNCHANGED <<users, keys, tokens, call, user, res>>
-----------------------------------------------------------------------------
Step(r) ==
  \/ CheckName(r) \/ SaveUser(r) \/ SaveKey(r) \/ Commit(r) \/ FindUser(r) \/ SendToken(r)
  \/ GetCurrent(r) \/ GetByUsername(r) \/ GetKey(r) \/ OnConnect(r)

\* Credentials are tokens the server has given out, and any key.
Arrive(r) ==
  /\ \A q \in 1..(r - 1) : pc[q] # "idle"
  /\ \/ \E origin \in {"none", "foreign"} \cup Range(Origins), verb \in Verb :
            Screened(r, origin, verb)
     \/ \E body \in Body : BadBody(r, body)
     \/ Unauthorized(r)
     \/ \E c \in Call : Handle(r, c)

Next ==
  \/ \E r \in Request : Arrive(r) \/ Step(r) \/ Fails(r)
  \/ \E k \in keys : Deactivate(k)
  \/ Crash

Spec == Init /\ [][Next]_vars

\* Handlers run and their statements return; nothing makes one fail.
FairSpec == Spec /\ \A r \in Request : WF_vars(Step(r))
-----------------------------------------------------------------------------
\* The type invariant.
Row   == [id : Id, name : Name, pswd : Password]
Where == {"idle", "check", "saveuser", "savekey", "commit", "find", "token", "done", "dropped"}
         \cup OwnOp \cup {"lookup", "publish"}

TypeOK ==
  /\ users \subseteq Existing \cup Row /\ keys \subseteq [key : Id, user : Id, active : BOOLEAN]
  /\ tokens \subseteq Id /\ user \in [Request -> Id \cup {None}]
  /\ call \in [Request -> Call \cup {None}] /\ pc \in [Request -> Where]
  /\ res \in [Request -> [status : Nat, text : Text, content : Id \cup {None}]]

\* Whatever fails or crashes between the check of the name and the commit, and
\* however sign-ups interleave, names are unique and each user has exactly one
\* stream key, each key a user (SignUp, ExecTrx).
AccountsWhole ==
  /\ \A u, v \in users : u.name = v.name => u = v
  /\ \A u \in users : \E k \in keys : k.user = u.id
  /\ \A k \in keys : \E u \in users : u.id = k.user
  /\ \A k, l \in keys : k.user = l.user \/ k.key = l.key => k = l

\* A token is never created for a user that a rolled back transaction inserted
\* (SignUp sets *user before the commit), so its bearer is always found.
TokensAreUsers ==
  /\ \A id \in tokens : \E u \in users : u.id = id
  /\ \A r \in Request : pc[r] = "done" /\ call[r] # None /\ call[r].op = "whoami"
                        => res[r].status # 404

\* What a request is answered is true of the database and stays true: the
\* token of a sign-up or a sign-in is for the user with that name and password,
\* a name that is taken is, and wrong credentials are.
Is(id, r) == \E u \in users : u.id = id /\ u.name = call[r].name /\ u.pswd = call[r].pswd

AnswersTrue ==
  \A r \in Request :
    /\ res[r].status = 201 => Is(res[r].content, r) /\ (call[r].op = "signup" => res[r].content = r)
    /\ res[r].text = "taken" => Named(call[r].name) # {}
    /\ res[r].text = "wrong" => \A id \in Id : ~Is(id, r)

\* Once a sign-up has been answered 201, no later request finds the name free or
\* unknown.
SignUpSticks ==
  \A r \in Request :
    call[r] # None /\ call[r].name \in call[r].known =>
      /\ res[r].status # 404
      /\ call[r].op = "signup" => res[r].status # 201

\* The key a user is given opens that user's stream and no other one, from the
\* HTTP request to the lookup of the RTMP transport.
KeyOpensOwnStream ==
  \A q, r \in Request :
    /\ call[q] # None /\ call[q].op = "ownkey" /\ res[q].status = 200
    /\ call[r] # None /\ call[r].op = "publish" /\ res[r].status = 200
    /\ call[r].cred = res[q].content
    => res[r].content = call[q].cred

\* Every request that reaches its handler is answered unless the server
\* crashes, even if two sign-ups wait for one another's insert.
RequestsAnswered ==
  \A r \in Request : pc[r] # "idle" ~> pc[r] \in {"done", "dropped"}

\* transport/http/codec/codec.go:11-12, a response for every invalid body.
InvalidBodyAnswered ==
  \A r \in Request : res[r].text = "invalid" => res[r].status = 400
=============================================================================
