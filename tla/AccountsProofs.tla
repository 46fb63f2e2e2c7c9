--------------------------- MODULE AccountsProofs ---------------------------
(***************************************************************************)
(* Proofs about Accounts for any number of requests, names and existing    *)
(* accounts.                                                               *)
(***************************************************************************)
EXTENDS Accounts, TLAPS

(***************************************************************************)
(* The inductive invariant: what holds of the tables, of the transactions  *)
(* in progress, and of each request by itself.                             *)
(***************************************************************************)
Result == [status : Nat, text : Text, content : Id \cup {None}]

\* Where a request that has committed may be.
After == {"token", "done", "dropped"}

\* A user was there at first or was committed by the request it is named after.
Rows ==
  /\ Existing \subseteq users
  /\ \A u \in users : u \in Existing \/ (u.id \in Request /\ pc[u.id] \in After)
  /\ \A u, v \in users : u.name = v.name => u = v
  /\ \A u \in users : \E k \in keys : k.user = u.id
  /\ \A k \in keys : k.key = k.user /\ \E u \in users : u.id = k.user
  /\ \A k, l \in keys : k.key = l.key => k = l
  /\ \A id \in tokens : \E u \in users : u.id = id

\* The unique index locks the name of a transaction in progress.
Locks ==
  /\ \A r \in Request : InTrx(r) => \A u \in users : u.name # call[r].name
  /\ \A q, r \in Request : InTrx(q) /\ InTrx(r) /\ call[q].name = call[r].name => q = r

\* Where a request is, and what it asked for.
Stage(r) ==
  /\ pc[r] = "idle" => call[r] = None
  /\ pc[r] # "done" => res[r].status \notin {200, 201, 404}
                       /\ res[r].text # "taken" /\ res[r].text # "wrong"
  /\ pc[r] \in {"check", "saveuser", "savekey", "commit"}
       => call[r] \in Call /\ call[r].op = "signup"
  /\ pc[r] = "find" => call[r] \in Call /\ call[r].op = "signin"
  /\ pc[r] \in OwnOp \cup {"lookup", "publish"} => call[r] \in Call /\ call[r].op = pc[r]
  /\ pc[r] = "commit" => user[r] = r
  /\ pc[r] = "token" => /\ call[r] \in Call /\ call[r].op \in SignOp /\ Is(user[r], r)
                        /\ (call[r].op = "signup" => user[r] = r)

\* What a request was answered.
True(r) ==
  /\ res[r].status = 201 => /\ call[r].op \in SignOp /\ Is(res[r].content, r)
                        /\ (call[r].op = "signup" => res[r].content = r)
  /\ res[r].text = "taken" => Named(call[r].name) # {}
  /\ res[r].text = "wrong"
       => \E u \in users : u.name = call[r].name /\ u.pswd # call[r].pswd

\* What a request is answered that has a credential; what one is that has been
\* told its name is taken.
Served(c, u, a) ==
  /\ c.op \in OwnOp => u = c.cred
  /\ c.op = "whoami" => a.status # 404
  /\ c.op \in {"ownkey", "publish"} /\ a.status = 200 => a.content = c.cred

Own(r) ==
  call[r] \in Call =>
    /\ Served(call[r], user[r], res[r])
    /\ call[r].op \in OwnOp => call[r].cred \in tokens

Warned(c) == c.name \in c.known

Sticking(c, a, p) ==
  /\ a.status # 404
  /\ c.op = "signup" => a.status # 201 /\ p \notin {"savekey", "commit", "token"}

Sticks(r) ==
  call[r] \in Call /\ Warned(call[r]) =>
    Named(call[r].name) # {} /\ Sticking(call[r], res[r], pc[r])

Each(r) == Stage(r) /\ True(r) /\ Own(r) /\ Sticks(r)

Inv == TypeOK /\ Rows /\ Locks /\ \A r \in Request : Each(r)

(***************************************************************************)
(* The invariant implies the properties.                                   *)
(***************************************************************************)
LEMMA InvWhole == Inv => AccountsWhole
  BY DEF Inv, Rows, AccountsWhole

LEMMA CallIs == TypeOK => \A r \in Request : call[r] # None => call[r] \in Call
  BY DEF TypeOK

LEMMA InvTokens == Inv => TokensAreUsers
<1> SUFFICES ASSUME Inv, NEW r \in Request, call[r] # None, call[r].op = "whoami"
             PROVE  res[r].status # 404
  BY DEF TokensAreUsers, Inv, Rows
<1>1. Own(r) /\ call[r] \in Call
  BY CallIs DEF Inv, Each
<1> QED
  BY <1>1 DEF Own, Served

LEMMA InvTrue == Inv => AnswersTrue
<1> SUFFICES ASSUME Inv, NEW r \in Request
             PROVE  /\ res[r].status = 201 =>
                         Is(res[r].content, r) /\ (call[r].op = "signup" => res[r].content = r)
                    /\ res[r].text = "taken" => Named(call[r].name) # {}
                    /\ res[r].text = "wrong" => \A id \in Id : ~Is(id, r)
  BY DEF AnswersTrue
<1>1. ASSUME res[r].text = "wrong", NEW id \in Id, Is(id, r) PROVE FALSE
  <2>1. PICK u \in users : u.name = call[r].name /\ u.pswd # call[r].pswd
    BY <1>1 DEF Inv, Each, True
  <2>2. PICK v \in users : v.name = call[r].name /\ v.pswd = call[r].pswd
    BY <1>1 DEF Is
  <2> QED
    BY <2>1, <2>2 DEF Inv, Rows
<1> QED
  BY <1>1 DEF Inv, Each, True

LEMMA InvSticks == Inv => SignUpSticks
<1> SUFFICES ASSUME Inv, NEW r \in Request, call[r] # None, call[r].name \in call[r].known
             PROVE  res[r].status # 404 /\ (call[r].op = "signup" => res[r].status # 201)
  BY DEF SignUpSticks
<1>1. Sticks(r) /\ call[r] \in Call
  BY CallIs DEF Inv, Each
<1>2. Sticking(call[r], res[r], pc[r])
  BY <1>1 DEF Sticks, Warned
<1> QED
  BY <1>2 DEF Sticking

LEMMA InvOwn == Inv => KeyOpensOwnStream
<1> SUFFICES ASSUME Inv, NEW q \in Request, NEW r \in Request,
                    call[q] # None, call[q].op = "ownkey", res[q].status = 200,
                    call[r] # None, call[r].op = "publish", res[r].status = 200,
                    call[r].cred = res[q].content
             PROVE  res[r].content = call[q].cred
  BY DEF KeyOpensOwnStream
<1>1. Served(call[q], user[q], res[q]) /\ Served(call[r], user[r], res[r])
  BY CallIs DEF Inv, Each, Own
<1> QED
  BY <1>1 DEF Served

(***************************************************************************)
(* Steps.                                                                  *)
(***************************************************************************)
LEMMA GotoFacts ==
  ASSUME TypeOK, NEW r \in Request, NEW where \in Where, Goto(r, where)
  PROVE  /\ pc' \in [Request -> Where] /\ pc'[r] = where
         /\ \A q \in Request : q # r => pc'[q] = pc[q]
  BY DEF Goto, TypeOK

LEMMA AnswerFacts ==
  ASSUME TypeOK, NEW r \in Request, NEW status \in Nat, NEW text \in Text,
         NEW content \in Id \cup {None}, Answer(r, status, text, content)
  PROVE  /\ pc' \in [Request -> Where] /\ pc'[r] = "done"
         /\ res' \in [Request -> Result] /\ res'[r] = Response(status, text, content)
         /\ \A q \in Request : q # r => pc'[q] = pc[q] /\ res'[q] = res[q]
<1>1. "done" \in Where /\ Response(status, text, content) \in Result
  BY DEF Where, Result, Response
<1> QED
  BY <1>1, GotoFacts DEF Answer, TypeOK, Result

\* What holds of a request goes on to hold while others act.
LEMMA OtherKeeps ==
  ASSUME NEW q \in Request, Each(q), users \subseteq users', tokens \subseteq tokens',
         call'[q] = call[q], pc'[q] = pc[q], user'[q] = user[q], res'[q] = res[q]
  PROVE  Each(q)'
<1>1. \A id : Is(id, q) => Is(id, q)'
  BY DEF Is
<1>2. Named(call[q].name) # {} => Named(call[q].name)' # {}
  BY DEF Named
<1>3. Stage(q)'
  BY <1>1 DEF Each, Stage
<1>4. True(q)'
  BY <1>1, <1>2 DEF Each, True
<1>5. Own(q)'
  BY DEF Each, Own
<1>6. Sticks(q)'
  BY <1>2 DEF Each, Sticks
<1> QED
  BY <1>3, <1>4, <1>5, <1>6 DEF Each

\* A step of r that leaves the tables alone, but for new tokens.
Alone(r) ==
  \A q \in Request : q # r => /\ call'[q] = call[q] /\ pc'[q] = pc[q]
                              /\ user'[q] = user[q] /\ res'[q] = res[q]

LEMMA Frame ==
  ASSUME Inv, NEW r \in Request, Alone(r), TypeOK', Each(r)',
         users' = users, keys' = keys, tokens \subseteq tokens',
         \A id \in tokens' : \E u \in users : u.id = id,
         pc[r] \in After => pc'[r] \in After,
         InTrx(r)' => /\ \A u \in users : u.name # call'[r].name
                      /\ \A q \in Request : q # r /\ InTrx(q) => call[q].name # call'[r].name
  PROVE  Inv'
<1>1. Rows'
  BY DEF Inv, Rows, Alone
<1>2. \A q \in Request : q # r => (InTrx(q)' <=> InTrx(q)) /\ call'[q] = call[q]
  BY DEF Alone, InTrx
<1>3. Locks'
  <2> HIDE DEF InTrx
  <2>1. \A q \in Request : InTrx(q)' => \A u \in users' : u.name # call'[q].name
    BY <1>2 DEF Inv, Locks
  <2>2. ASSUME NEW p \in Request, NEW q \in Request, InTrx(p)', InTrx(q)',
               call'[p].name = call'[q].name
        PROVE  p = q
    <3>1. CASE p = r
      BY <3>1, <2>2, <1>2
    <3>2. CASE q = r
      BY <3>2, <2>2, <1>2
    <3>3. CASE p # r /\ q # r
      BY <3>3, <2>2, <1>2 DEF Inv, Locks
    <3> QED
      BY <3>1, <3>2, <3>3
  <2> QED
    BY <2>1, <2>2 DEF Locks
<1>4. ASSUME NEW q \in Request, q # r PROVE Each(q)'
  BY <1>4, OtherKeeps DEF Inv, Alone
<1> QED
  BY <1>1, <1>3, <1>4 DEF Inv

LEMMA SignCalls ==
  \A c \in Call : c.op \in SignOp => c.name \in Name /\ c.pswd \in Password /\ c.op \notin OwnOp
  BY DEF Call, Calls, SignOp, OwnOp

LEMMA NamelessCalls ==
  \A c \in Call : c.op \in OwnOp \cup {"publish"} => ~Warned(c)
  BY AccountsAssumption DEF Call, Calls, SignOp, OwnOp, Warned

LEMMA OwnCalls ==
  \A c \in Call : c.op \in OwnOp => c.cred \in Id
  BY DEF Call, Calls, SignOp, OwnOp

LEMMA Ids == Inv => /\ \A u \in users : u.id \in Id
                    /\ \A k \in keys : k.key \in Id /\ k.user \in Id
<1> SUFFICES ASSUME Inv PROVE /\ \A u \in users : u.id \in Id
                              /\ \A k \in keys : k.key \in Id /\ k.user \in Id
  OBVIOUS
<1>1. \A u \in users : u.id \in Id
  BY DEF Inv, TypeOK, Id, Row
<1> QED
  BY <1>1 DEF Inv, Rows

LEMMA Records ==
  /\ \A id : KeyRow(id).key = id /\ KeyRow(id).user = id
  /\ \A id \in Id : KeyRow(id) \in [key : Id, user : Id, active : BOOLEAN]
  /\ \A status, text, content : /\ Response(status, text, content).status = status
                                /\ Response(status, text, content).text = text
                                /\ Response(status, text, content).content = content
  /\ \A status \in Nat, text \in Text, content \in Id \cup {None} :
        Response(status, text, content) \in Result
<1>1. \A id : KeyRow(id).key = id /\ KeyRow(id).user = id
  BY DEF KeyRow
<1>2. \A id \in Id : KeyRow(id) \in [key : Id, user : Id, active : BOOLEAN]
  BY DEF KeyRow
<1>3. \A status, text, content : /\ Response(status, text, content).status = status
                                 /\ Response(status, text, content).text = text
                                 /\ Response(status, text, content).content = content
  BY DEF Response
<1>4. \A status \in Nat, text \in Text, content \in Id \cup {None} :
        Response(status, text, content) \in Result
  BY DEF Response, Result
<1> QED
  BY <1>1, <1>2, <1>3, <1>4

LEMMA InitInv == Init => Inv
<1> SUFFICES ASSUME Init PROVE Inv
  OBVIOUS
<1>1. TypeOK
  <2>1. keys \subseteq [key : Id, user : Id, active : BOOLEAN]
    BY Records DEF Init, Id
  <2>2. "idle" \in Where
    BY DEF Where
  <2>4. NoResponse \in Result
    <3>1. "other" \in Text
      BY DEF Text
    <3>2. 0 \in Nat /\ None \in Id \cup {None}
      OBVIOUS
    <3> QED
      BY <3>1, <3>2, Records DEF NoResponse
  <2>3. users \subseteq Existing \cup Row /\ tokens \subseteq Id
    BY DEF Init, Id
  <2> QED
    BY <2>1, <2>2, <2>3, <2>4 DEF Init, TypeOK, Result
<1>2. \A k \in keys : \E u \in users : k = KeyRow(u.id)
  BY DEF Init
<1>3. Rows
  <2>1. \A k \in keys : k.key = k.user /\ \E u \in users : u.id = k.user
    BY <1>2, Records
  <2>2. \A k, l \in keys : k.key = l.key => k = l
    BY <1>2, Records
  <2>3. \A u \in users : \E k \in keys : k.user = u.id
    <3>1. \A u \in users : KeyRow(u.id) \in keys /\ KeyRow(u.id).user = u.id
      BY Records DEF Init
    <3> QED
      BY <3>1
  <2>4. \A u, v \in users : u.name = v.name => u = v
    BY AccountsAssumption DEF Init
  <2> QED
    BY <2>1, <2>2, <2>3, <2>4 DEF Init, Rows
<1>4. Locks
  BY DEF Init, Locks, InTrx
<1>5. ASSUME NEW r \in Request PROVE Each(r)
  <2>1. pc[r] = "idle" /\ call[r] = None /\ res[r] = NoResponse
    BY DEF Init
  <2>5. res[r].status = 0 /\ res[r].text = "other"
    BY <2>1, Records DEF NoResponse
  <2>2. Own(r) /\ Sticks(r)
    BY <2>1, <2>5, CallAssumption DEF Own, Sticks
  <2>3. True(r)
    BY <2>5 DEF True
  <2>4. Stage(r)
    BY <2>1, <2>5 DEF Stage, OwnOp
  <2> QED
    BY <2>2, <2>3, <2>4 DEF Each
<1> QED
  BY <1>1, <1>3, <1>4, <1>5 DEF Inv

\* A step of r that only moves it, and one that only answers it.
LEMMA Moves ==
  ASSUME Inv, NEW r \in Request, NEW where \in Where, Goto(r, where),
         UNCHANGED <<users, keys, tokens, call, res>>, user' \in [Request -> Id \cup {None}],
         \A q \in Request : q # r => user'[q] = user[q],
         Each(r)', pc[r] \notin After,
         InTrx(r)' => /\ \A u \in users : u.name # call[r].name
                      /\ \A q \in Request : q # r /\ InTrx(q) => call[q].name # call[r].name
  PROVE  Inv'
<1>1. pc' \in [Request -> Where] /\ \A q \in Request : q # r => pc'[q] = pc[q]
  BY GotoFacts DEF Inv
<1>2. Alone(r)
  BY <1>1 DEF Alone
<1>3. TypeOK'
  BY <1>1 DEF Inv, TypeOK
<1>4. \A id \in tokens' : \E u \in users : u.id = id
  BY DEF Inv, Rows
<1> QED
  BY <1>2, <1>3, <1>4, Frame

LEMMA Answers ==
  ASSUME Inv, NEW r \in Request, NEW status \in Nat, NEW text \in Text,
         NEW content \in Id \cup {None}, Answer(r, status, text, content),
         UNCHANGED <<users, keys, call>>, user' \in [Request -> Id \cup {None}],
         tokens \subseteq tokens', tokens' \subseteq Id,
         \A id \in tokens' : \E u \in users : u.id = id,
         \A q \in Request : q # r => user'[q] = user[q], Each(r)'
  PROVE  Inv'
<1>1. /\ pc' \in [Request -> Where] /\ pc'[r] = "done" /\ res' \in [Request -> Result]
      /\ \A q \in Request : q # r => pc'[q] = pc[q] /\ res'[q] = res[q]
  BY AnswerFacts DEF Inv
<1>2. Alone(r)
  BY <1>1 DEF Alone
<1>3. TypeOK'
  BY <1>1 DEF Inv, TypeOK, Result
<1>4. ~InTrx(r)' /\ pc'[r] \in After
  BY <1>1 DEF InTrx, After
<1> QED
  BY <1>2, <1>3, <1>4, Frame

\* What holds of r once it has been answered.
LEMMA AnswerEach ==
  ASSUME Inv, NEW r \in Request, NEW status \in Nat, NEW text \in Text,
         NEW content \in Id \cup {None}, Answer(r, status, text, content), call'[r] = call[r],
         tokens \subseteq tokens', users \subseteq users',
         status = 201 => /\ call[r].op \in SignOp /\ Is(content, r)
                         /\ (call[r].op = "signup" => content = r),
         text = "taken" => Named(call[r].name) # {},
         text = "wrong"
           => \E u \in users : u.name = call[r].name /\ u.pswd # call[r].pswd,
         call[r] \in Call => Served(call[r], user'[r], Response(status, text, content)),
         call[r] \in Call /\ Warned(call[r])
           => Sticking(call[r], Response(status, text, content), "done")
  PROVE  Each(r)'
<1> DEFINE a == Response(status, text, content)
<1>1. pc'[r] = "done" /\ res'[r] = a
  BY AnswerFacts DEF Inv
<1>2. a.status = status /\ a.text = text /\ a.content = content
  BY DEF Response
<1> HIDE DEF a
<1>3. Named(call[r].name) # {} => Named(call[r].name)' # {}
  BY DEF Named
<1>4. Stage(r)'
  <2>1. "done" \notin OwnOp \cup {"lookup", "publish"}
    BY DEF OwnOp
  <2> QED
    BY <1>1, <2>1 DEF Stage
<1>5. True(r)'
  <2>1. Is(content, r) => Is(content, r)'
    BY DEF Is
  <2> QED
    BY <1>1, <1>2, <1>3, <2>1 DEF True
<1>6. Own(r)'
  BY <1>1 DEF Inv, Each, Own, a
<1>7. Sticks(r)'
  BY <1>1, <1>3 DEF Inv, Each, Sticks, a
<1> QED
  BY <1>4, <1>5, <1>6, <1>7 DEF Each

\* An answer that says nothing of the database.
LEMMA Refused ==
  ASSUME Inv, NEW r \in Request, NEW status \in Nat, NEW text \in Text, Refuse(r, status, text),
         status # 201, status # 404, text # "taken", text # "wrong",
         status # 200 \/ call[r] \notin Call,
         UNCHANGED <<users, keys, tokens, call, user>>
  PROVE  Inv'
<1>2. call[r] \in Call => Served(call[r], user'[r], Response(status, text, None))
  BY DEF Inv, Each, Own, Served, Response
<1>3. Sticking(call[r], Response(status, text, None), "done")
  BY DEF Sticking, Response
<1>4. Each(r)'
  BY <1>2, <1>3, AnswerEach DEF Refuse
<1>5. tokens' \subseteq Id /\ user' \in [Request -> Id \cup {None}]
  BY DEF Inv, TypeOK
<1>6. \A id \in tokens' : \E u \in users : u.id = id
  BY DEF Inv, Rows
<1> QED
  BY <1>4, <1>5, <1>6, Answers DEF Refuse

LEMMA Texts ==
  /\ "other" \in Text /\ "other" # "taken" /\ "other" # "wrong"
  /\ "invalid" \in Text
  /\ "invalid" # "taken" /\ "invalid" # "wrong"
  BY DEF Text

LEMMA IdleCall ==
  ASSUME Inv, NEW r \in Request, pc[r] = "idle"
  PROVE  /\ call[r] \notin Call /\ res[r].status # 200 /\ res[r].status # 201 /\ res[r].status # 404
         /\ res[r].text # "taken" /\ res[r].text # "wrong"
  BY CallAssumption DEF Inv, Each, Stage

LEMMA ScreenedInv ==
  ASSUME Inv, NEW r \in Request, NEW origin, NEW verb, Screened(r, origin, verb)
  PROVE  Inv'
<1>1. call[r] \notin Call
  BY IdleCall DEF Screened
<1>2. CASE Refuse(r, 200, "other")
  BY <1>1, <1>2, Refused, Texts DEF Screened
<1>3. CASE Refuse(r, 405, "other")
  BY <1>1, <1>3, Refused, Texts DEF Screened
<1> QED
  BY <1>2, <1>3 DEF Screened

LEMMA UnauthorizedInv ==
  ASSUME Inv, NEW r \in Request, Unauthorized(r) PROVE Inv'
  BY Refused, Texts DEF Unauthorized

LEMMA FailsInv ==
  ASSUME Inv, NEW r \in Request, Fails(r) PROVE Inv'
  BY Refused, Texts DEF Fails

LEMMA BadBodyInv ==
  ASSUME Inv, NEW r \in Request, NEW body, BadBody(r, body) PROVE Inv'
<1> DEFINE a == Response(0, "invalid", None)
<1>1. CASE Refuse(r, 400, "invalid")
  BY <1>1, Refused, Texts DEF BadBody
<1>2. CASE Goto(r, "dropped") /\ res' = [res EXCEPT ![r] = a]
  <2>1. a.status = 0 /\ a.text = "invalid" /\ a \in Result
    <3>1. "invalid" \in Text /\ 0 \in Nat /\ None \in Id \cup {None}
      BY DEF Text
    <3> QED
      BY <3>1, Records DEF Response
  <2> HIDE DEF a
  <2>2. pc' \in [Request -> Where] /\ pc'[r] = "dropped"
        /\ \A q \in Request : q # r => pc'[q] = pc[q]
    BY <1>2, GotoFacts DEF Inv, Where
  <2>3. res' \in [Request -> Result] /\ res'[r] = a
        /\ \A q \in Request : q # r => res'[q] = res[q]
    BY <1>2, <2>1 DEF Inv, TypeOK, Result
  <2>4. Alone(r)
    BY <2>2, <2>3 DEF Alone, BadBody
  <2>5. TypeOK'
    BY <2>2, <2>3 DEF BadBody, Inv, TypeOK, Result
  <2>6. call'[r] \notin Call /\ call'[r] = call[r]
    BY IdleCall DEF BadBody
  <2>7. Stage(r)'
    <3>1. "dropped" \notin OwnOp \cup {"lookup", "publish"}
      BY DEF OwnOp
    <3> QED
      BY <3>1, <2>1, <2>2, <2>3 DEF Stage
  <2>8. Each(r)'
    <3>1. True(r)'
      BY <2>1, <2>3, Texts DEF True
    <3>2. Own(r)' /\ Sticks(r)'
      BY <2>6 DEF Own, Sticks
    <3> QED
      BY <3>1, <3>2, <2>7 DEF Each
  <2>9. ~InTrx(r)' /\ pc'[r] \in After
    BY <2>2 DEF InTrx, After
  <2>10. \A id \in tokens' : \E u \in users : u.id = id
    BY DEF Inv, Rows, BadBody
  <2> QED
    BY <2>4, <2>5, <2>8, <2>9, <2>10, Frame DEF BadBody
<1> QED
  BY <1>1, <1>2 DEF BadBody

LEMMA KnownNamed == Inv => \A name \in Known : Named(name) # {}
<1> SUFFICES ASSUME Inv, NEW name \in Known PROVE Named(name) # {}
  OBVIOUS
<1>1. CASE \E u \in Existing : u.name = name
  BY <1>1 DEF Inv, Rows, Named
<1>2. CASE \E q \in Request : res[q].status = 201 /\ call[q].name = name
  <2>1. PICK q \in Request : res[q].status = 201 /\ call[q].name = name
    BY <1>2
  <2>2. Is(res[q].content, q)
    BY <2>1 DEF Inv, Each, True
  <2> QED
    BY <2>1, <2>2 DEF Is, Named
<1> QED
  BY <1>1, <1>2 DEF Known

LEMMA HandleInv ==
  ASSUME Inv, NEW r \in Request, NEW c \in Call, Handle(r, c)
  PROVE  Inv'
<1> DEFINE where == FirstStep[c.op]
           who   == IF c.op \in OwnOp THEN c.cred ELSE None
<1>1. /\ c.op \in Op /\ where \in Where /\ where # "idle" /\ where \notin After /\ where # "commit"
      /\ where \in {"check", "saveuser", "savekey"} => c.op = "signup"
      /\ where = "find" => c.op = "signin"
      /\ where \in OwnOp \cup {"lookup", "publish"} => c.op = where
      /\ where \notin {"savekey", "commit", "token"}
  BY DEF Call, Calls, Op, SignOp, OwnOp, FirstStep, Where, After
<1>2. who \in Id \cup {None}
  BY OwnCalls
<1> HIDE DEF where
<1>3. /\ pc' \in [Request -> Where] /\ pc'[r] = where
      /\ \A q \in Request : q # r => pc'[q] = pc[q]
  BY <1>1, GotoFacts DEF Inv, Handle, where
<1> HIDE DEF who
<1>4. /\ call' \in [Request -> Call \cup {None}] /\ call'[r] = c
      /\ \A q \in Request : q # r => call'[q] = call[q]
  BY DEF Inv, TypeOK, Handle
<1>5. /\ user' \in [Request -> Id \cup {None}] /\ user'[r] = who
      /\ \A q \in Request : q # r => user'[q] = user[q]
  BY <1>2 DEF Inv, TypeOK, Handle, who
<1>6. Alone(r)
  BY <1>3, <1>4, <1>5 DEF Alone, Handle
<1>7. TypeOK'
  BY <1>3, <1>4, <1>5 DEF Inv, TypeOK, Handle
<1>8. /\ res'[r] = res[r]
      /\ res[r].status # 200 /\ res[r].status # 201 /\ res[r].status # 404
      /\ res[r].text # "taken" /\ res[r].text # "wrong"
  BY IdleCall DEF Handle
<1>9. Stage(r)'
  BY <1>1, <1>3, <1>4, <1>8 DEF Stage
<1>10. True(r)'
  BY <1>8 DEF True
<1>11. Own(r)'
  <2>1. Served(c, who, res[r])
    BY <1>8 DEF Served, who
  <2>2. c.op \in OwnOp => c.cred \in tokens
    BY DEF Handle, Verify
  <2> QED
    BY <2>1, <2>2, <1>4, <1>5, <1>8 DEF Own, Handle
<1>12. Sticks(r)'
  <2>1. Warned(c) => Named(c.name) # {}
    BY KnownNamed DEF Warned, Handle
  <2>2. Sticking(c, res[r], where)
    BY <1>8, <1>1 DEF Sticking
  <2>3. Named(c.name)' = Named(c.name)
    BY DEF Named, Handle
  <2>4. Named(call[r].name)' = Named(c.name)
    BY <1>4 DEF Named, Handle
  <2> QED
    BY <2>1, <2>2, <2>4, <1>3, <1>4, <1>8 DEF Sticks
<1>13. ~InTrx(r)' /\ pc[r] \notin After
  BY <1>1, <1>3 DEF InTrx, After, Handle
<1>14. \A id \in tokens' : \E u \in users : u.id = id
  BY DEF Inv, Rows, Handle
<1> QED
  BY <1>6, <1>7, <1>9, <1>10, <1>11, <1>12, <1>13, <1>14, Frame DEF Each, Handle

\* What every answering step of r, with the tables as they were, starts from.
LEMMA Kept ==
  ASSUME Inv, UNCHANGED <<users, tokens>>
  PROVE  /\ tokens' \subseteq Id /\ tokens \subseteq tokens' /\ users \subseteq users'
         /\ \A id \in tokens' : \E u \in users : u.id = id
  BY DEF Inv, TypeOK, Rows

LEMMA CheckNameInv ==
  ASSUME Inv, NEW r \in Request, CheckName(r) PROVE Inv'
<1>1. /\ call[r] \in Call /\ call[r].op = "signup" /\ pc[r] \notin After
      /\ user' \in [Request -> Id \cup {None}]
  BY DEF CheckName, Inv, Each, Stage, After, TypeOK
<1>2. CASE Named(call[r].name) # {} /\ Refuse(r, 400, "taken")
  <2>1. Served(call[r], user'[r], Response(400, "taken", None))
    BY <1>1 DEF Served, OwnOp
  <2>2. Sticking(call[r], Response(400, "taken", None), "done")
    BY DEF Sticking, Response
  <2>3. Each(r)'
    BY <1>2, <2>1, <2>2, AnswerEach DEF Refuse, CheckName, Text
  <2>4. /\ tokens' \subseteq Id /\ tokens \subseteq tokens'
        /\ \A id \in tokens' : \E u \in users : u.id = id
    BY Kept DEF CheckName
  <2>5. "taken" \in Text /\ Answer(r, 400, "taken", None) /\ None \in Id \cup {None}
    BY <1>2 DEF Text, Refuse
  <2> QED
    BY <1>1, <2>3, <2>4, <2>5, Answers DEF CheckName
<1>3. CASE Goto(r, "saveuser") /\ UNCHANGED res
  <2>1. "saveuser" \in Where /\ pc'[r] = "saveuser" /\ pc[r] # "done"
    BY <1>3, GotoFacts DEF Inv, Where, CheckName
  <2>2. Each(r)'
    <3>1. Stage(r)'
      BY <1>1, <1>3, <2>1 DEF Inv, Each, Stage, CheckName, OwnOp
    <3>2. True(r)'
      BY <1>3, <2>1 DEF Inv, Each, Stage, CheckName, True
    <3>3. Own(r)'
      BY <1>3 DEF Inv, Each, CheckName, Own
    <3>4. Sticks(r)'
      <4>1. Sticking(call[r], res[r], "saveuser")
        BY <2>1 DEF Sticking, Inv, Each, Stage
      <4> QED
        BY <1>3, <2>1, <4>1 DEF Inv, Each, CheckName, Sticks, Named
    <3> QED
      BY <3>1, <3>2, <3>3, <3>4 DEF Each
  <2>3. ~InTrx(r)'
    BY <2>1 DEF InTrx
  <2> QED
    BY <1>1, <1>3, <2>1, <2>2, <2>3, Moves DEF CheckName
<1> QED
  BY <1>2, <1>3 DEF CheckName

\* The name of a transaction is free, and no other transaction has it.
LEMMA SaveUserInv ==
  ASSUME Inv, NEW r \in Request, SaveUser(r) PROVE Inv'
<1>1. /\ call[r] \in Call /\ call[r].op = "signup" /\ pc[r] \notin After /\ pc[r] # "done"
      /\ user' \in [Request -> Id \cup {None}]
  BY DEF SaveUser, Inv, Each, Stage, After, TypeOK
<1>2. CASE Named(call[r].name) # {}
  BY <1>2, Refused, Texts DEF SaveUser
<1>3. CASE Named(call[r].name) = {}
  <2>1. "savekey" \in Where /\ Goto(r, "savekey") /\ UNCHANGED res
    BY <1>3 DEF Where, SaveUser
  <2>2. pc'[r] = "savekey"
    BY <2>1, GotoFacts DEF Inv
  <2>3. Each(r)'
    <3>1. Stage(r)'
      BY <1>1, <2>1, <2>2 DEF Inv, Each, Stage, SaveUser, OwnOp
    <3>2. True(r)'
      BY <1>1, <2>1 DEF Inv, Each, Stage, SaveUser, True
    <3>3. Own(r)'
      BY <2>1 DEF Inv, Each, SaveUser, Own
    <3>4. Sticks(r)'
      <4>1. ~Warned(call[r])
        BY <1>1, <1>3 DEF Inv, Each, Sticks
      <4> QED
        BY <4>1 DEF Sticks, SaveUser
    <3> QED
      BY <3>1, <3>2, <3>3, <3>4 DEF Each
  <2>4. /\ \A u \in users : u.name # call[r].name
        /\ \A q \in Request : q # r /\ InTrx(q) => call[q].name # call[r].name
    BY <1>3 DEF SaveUser, Named
  <2> QED
    BY <1>1, <2>1, <2>3, <2>4, Moves DEF SaveUser
<1> QED
  BY <1>2, <1>3

LEMMA SaveKeyInv ==
  ASSUME Inv, NEW r \in Request, SaveKey(r) PROVE Inv'
<1>1. call[r] \in Call /\ call[r].op = "signup" /\ pc[r] = "savekey" /\ InTrx(r)
  BY DEF SaveKey, Inv, Each, Stage, InTrx
<1>2. /\ user' \in [Request -> Id \cup {None}] /\ user'[r] = r
      /\ \A q \in Request : q # r => user'[q] = user[q]
  BY DEF SaveKey, Inv, TypeOK, Id
<1>3. "commit" \in Where /\ pc'[r] = "commit"
  BY GotoFacts DEF Inv, Where, SaveKey
<1>4. Each(r)'
  <2>1. Stage(r)'
    BY <1>1, <1>2, <1>3 DEF Inv, Each, Stage, SaveKey, OwnOp
  <2>2. True(r)'
    BY <1>1 DEF Inv, Each, Stage, SaveKey, True
  <2>3. Own(r)'
    <3>1. Served(call[r], r, res[r])
      BY <1>1 DEF Served, OwnOp
    <3>2. call[r].op \notin OwnOp
      BY <1>1 DEF OwnOp
    <3> QED
      BY <1>2, <3>1, <3>2 DEF SaveKey, Own
  <2>4. Sticks(r)'
    <3>1. ~Warned(call[r])
      BY <1>1 DEF Inv, Each, Sticks, Sticking
    <3> QED
      BY <3>1 DEF Sticks, SaveKey
  <2> QED
    BY <2>1, <2>2, <2>3, <2>4 DEF Each
<1>5. /\ \A u \in users : u.name # call[r].name
      /\ \A q \in Request : q # r /\ InTrx(q) => call[q].name # call[r].name
  BY <1>1 DEF Inv, Locks
<1>6. pc[r] \notin After
  BY <1>1 DEF After
<1> QED
  BY <1>2, <1>3, <1>4, <1>5, <1>6, Moves DEF SaveKey

\* An answer with the tables as they were.
LEMMA Replies ==
  ASSUME Inv, NEW r \in Request, NEW status \in Nat, NEW text \in Text,
         NEW content \in Id \cup {None}, Answer(r, status, text, content),
         UNCHANGED <<users, keys, tokens, call>>, user' \in [Request -> Id \cup {None}],
         \A q \in Request : q # r => user'[q] = user[q], Each(r)'
  PROVE  Inv'
<1>1. /\ tokens' \subseteq Id /\ tokens \subseteq tokens'
      /\ \A id \in tokens' : \E u \in users : u.id = id
  BY Kept
<1> QED
  BY <1>1, Answers

LEMMA FindUserInv ==
  ASSUME Inv, NEW r \in Request, FindUser(r) PROVE Inv'
<1>1. /\ call[r] \in Call /\ call[r].op = "signin" /\ call[r].op # "signup"
      /\ pc[r] \notin After /\ pc[r] # "done" /\ call[r].op \notin OwnOp
  BY DEF FindUser, Inv, Each, Stage, After, OwnOp
<1>2. \A u, a : Served(call[r], u, a)
  BY <1>1 DEF Served, OwnOp
<1>3. CASE Named(call[r].name) = {} /\ Refuse(r, 404, "other") /\ UNCHANGED user
  <2>1. ~Warned(call[r])
    BY <1>1, <1>3 DEF Inv, Each, Sticks
  <2>2. Each(r)'
    BY <1>2, <1>3, <2>1, Texts, AnswerEach DEF Refuse, FindUser
  <2>3. user' \in [Request -> Id \cup {None}]
    BY <1>3 DEF Inv, TypeOK
  <2> QED
    BY <1>3, <2>2, <2>3, Texts, Replies DEF Refuse, FindUser
<1>4. ASSUME NEW u \in Named(call[r].name), user' = [user EXCEPT ![r] = u.id]
      PROVE  /\ user' \in [Request -> Id \cup {None}] /\ user'[r] = u.id
             /\ \A q \in Request : q # r => user'[q] = user[q]
             /\ u \in users /\ u.name = call[r].name
  BY <1>4, Ids DEF Inv, TypeOK, Named
<1>5. ASSUME NEW u \in Named(call[r].name), user' = [user EXCEPT ![r] = u.id],
             u.pswd = call[r].pswd, Goto(r, "token"), UNCHANGED res
      PROVE  Inv'
  <2>1. "token" \in Where /\ pc'[r] = "token"
    BY <1>5, GotoFacts DEF Inv, Where
  <2>2. Each(r)'
    <3>1. Stage(r)'
      <4>1. Is(u.id, r)'
        BY <1>4, <1>5 DEF Is, FindUser
      <4>2. call[r].op \in SignOp /\ "token" \notin OwnOp \cup {"lookup", "publish"}
        BY <1>1 DEF SignOp, OwnOp
      <4>3. pc[r] # "done" /\ Stage(r)
        BY <1>1 DEF Inv, Each
      <4> QED
        BY <1>1, <1>4, <1>5, <2>1, <4>1, <4>2, <4>3 DEF Stage, FindUser
    <3>2. True(r)'
      BY <1>1, <1>5 DEF Inv, Each, Stage, FindUser, True
    <3>3. Own(r)'
      BY <1>1, <1>2, <1>5 DEF Own, FindUser
    <3>4. Sticks(r)'
      <4>1. Sticking(call[r], res[r], "token")
        BY <1>1 DEF Sticking, Inv, Each, Stage
      <4> QED
        BY <1>5, <2>1, <4>1 DEF Inv, Each, FindUser, Sticks, Named
    <3> QED
      BY <3>1, <3>2, <3>3, <3>4 DEF Each
  <2>3. ~InTrx(r)'
    BY <2>1 DEF InTrx
  <2> QED
    BY <1>1, <1>4, <1>5, <2>1, <2>2, <2>3, Moves DEF FindUser
<1>6. ASSUME NEW u \in Named(call[r].name), user' = [user EXCEPT ![r] = u.id],
             u.pswd # call[r].pswd, Refuse(r, 400, "wrong")
      PROVE  Inv'
  <2>1. /\ "wrong" \in Text /\ "wrong" # "taken" /\ Answer(r, 400, "wrong", None)
        /\ None \in Id \cup {None}
    BY <1>6 DEF Text, Refuse
  <2>2. Sticking(call[r], Response(400, "wrong", None), "done")
    BY DEF Sticking, Response
  <2>3. \E v \in users : v.name = call[r].name /\ v.pswd # call[r].pswd
    BY <1>4, <1>6
  <2>4. Each(r)'
    BY <1>2, <2>1, <2>2, <2>3, AnswerEach DEF FindUser
  <2>5. user' \in [Request -> Id \cup {None}] /\ \A q \in Request : q # r => user'[q] = user[q]
    BY <1>4, <1>6
  <2> QED
    BY <2>1, <2>4, <2>5, Replies DEF FindUser
<1> QED
  BY <1>3, <1>5, <1>6 DEF FindUser

LEMMA SendTokenInv ==
  ASSUME Inv, NEW r \in Request, SendToken(r) PROVE Inv'
<1>1. /\ call[r] \in Call /\ call[r].op \in SignOp /\ Is(user[r], r)
      /\ call[r].op = "signup" => user[r] = r
  BY DEF SendToken, Inv, Each, Stage
<1>2. PICK u \in users : u.id = user[r]
  BY <1>1 DEF Is
<1>3. user[r] \in Id
  BY <1>2, Ids
<1>4. /\ tokens' \subseteq Id /\ tokens \subseteq tokens'
      /\ \A id \in tokens' : \E v \in users : v.id = id
  BY <1>2, <1>3 DEF SendToken, CreateToken, Inv, TypeOK, Rows
<1>5. Served(call[r], user'[r], Response(201, "other", user[r]))
  BY <1>1 DEF Served, SignOp, OwnOp
<1>6. Warned(call[r]) => Sticking(call[r], Response(201, "other", user[r]), "done")
  <2>1. Warned(call[r]) => call[r].op # "signup"
    BY <1>1 DEF SendToken, Inv, Each, Sticks, Sticking
  <2> QED
    BY <2>1 DEF Sticking, Response
<1>7. Each(r)'
  BY <1>1, <1>3, <1>4, <1>5, <1>6, Texts, AnswerEach DEF SendToken
<1>8. user' \in [Request -> Id \cup {None}]
  BY DEF SendToken, Inv, TypeOK
<1> QED
  BY <1>3, <1>4, <1>7, <1>8, Texts, Answers DEF SendToken

(***************************************************************************)
(* Lookups.                                                                *)
(***************************************************************************)
LEMMA ReplyInv ==
  ASSUME Inv, NEW r \in Request, NEW contents \in SUBSET Id, Reply(r, contents),
         pc[r] \in OwnOp \cup {"lookup", "publish"},
         contents = {} => call[r].op # "whoami" /\ ~Warned(call[r]),
         \A content \in contents :
            call[r].op \in {"ownkey", "publish"} => content = call[r].cred
  PROVE  Inv'
<1>1. call[r] \in Call /\ call[r].op = pc[r]
  BY DEF Inv, Each, Stage
<1>2. user' \in [Request -> Id \cup {None}] /\ \A q \in Request : q # r => user'[q] = user[q]
  BY DEF Reply, Inv, TypeOK
<1>3. call[r].op \in OwnOp => user'[r] = call[r].cred
  BY <1>1 DEF Reply, Inv, Each, Own, Served
<1>4. CASE contents = {} /\ Refuse(r, 404, "other")
  <2>1. Served(call[r], user'[r], Response(404, "other", None))
    BY <1>3, <1>4 DEF Served, Response
  <2>2. Each(r)'
    BY <1>4, <2>1, Texts, AnswerEach DEF Refuse, Reply
  <2> QED
    BY <1>2, <1>4, <2>2, Texts, Replies DEF Refuse, Reply
<1>5. ASSUME NEW content \in contents, Answer(r, 200, "other", content) PROVE Inv'
  <2>1. Served(call[r], user'[r], Response(200, "other", content))
    BY <1>3, <1>5 DEF Served, Response
  <2>2. Sticking(call[r], Response(200, "other", content), "done")
    BY DEF Sticking, Response
  <2>3. Each(r)'
    BY <1>5, <2>1, <2>2, Texts, AnswerEach DEF Reply
  <2> QED
    BY <1>2, <1>5, <2>3, Texts, Replies DEF Reply
<1> QED
  BY <1>4, <1>5 DEF Reply

LEMMA GetCurrentInv ==
  ASSUME Inv, NEW r \in Request, GetCurrent(r) PROVE Inv'
<1>1. call[r] \in Call /\ call[r].op = "whoami" /\ call[r].op \in OwnOp
  BY DEF GetCurrent, Inv, Each, Stage, OwnOp
<1>2. user[r] \in tokens
  BY <1>1 DEF Inv, Each, Own, Served
<1>3. ById(user[r]) # {}
  BY <1>2 DEF Inv, Rows, ById
<1>4. {u.id : u \in ById(user[r])} \subseteq Id /\ {u.id : u \in ById(user[r])} # {}
  BY <1>3, Ids DEF ById
<1>5. pc[r] \in OwnOp
  BY DEF GetCurrent, OwnOp
<1> QED
  BY <1>1, <1>4, <1>5, ReplyInv DEF GetCurrent

LEMMA GetByUsernameInv ==
  ASSUME Inv, NEW r \in Request, GetByUsername(r) PROVE Inv'
<1>1. call[r] \in Call /\ call[r].op = "lookup"
  BY DEF GetByUsername, Inv, Each, Stage
<1>2. {u.id : u \in Named(call[r].name)} = {} => ~Warned(call[r])
  BY <1>1 DEF Inv, Each, Sticks
<1>3. {u.id : u \in Named(call[r].name)} \subseteq Id
  BY Ids DEF Named
<1>4. call[r].op \notin {"whoami", "ownkey", "publish"} /\ pc[r] \in OwnOp \cup {"lookup"}
  BY <1>1 DEF GetByUsername
<1> QED
  BY <1>2, <1>3, <1>4, ReplyInv DEF GetByUsername

LEMMA GetKeyInv ==
  ASSUME Inv, NEW r \in Request, GetKey(r) PROVE Inv'
<1>1. call[r] \in Call /\ call[r].op = "ownkey" /\ call[r].op \in OwnOp
  BY DEF GetKey, Inv, Each, Stage, OwnOp
<1>2. user[r] = call[r].cred /\ ~Warned(call[r])
  BY <1>1, NamelessCalls DEF Inv, Each, Own, Served
<1> DEFINE contents == {k.key : k \in Active(ByUser(user[r]))}
<1>3. contents \subseteq Id /\ \A content \in contents : content = call[r].cred
  BY <1>2, Ids DEF Active, ByUser, Inv, Rows
<1>4. call[r].op # "whoami" /\ pc[r] \in OwnOp
  BY <1>1 DEF GetKey, OwnOp
<1>5. Reply(r, contents)
  BY DEF GetKey
<1> HIDE DEF contents
<1> QED
  BY <1>1, <1>2, <1>3, <1>4, <1>5, ReplyInv

LEMMA OnConnectInv ==
  ASSUME Inv, NEW r \in Request, OnConnect(r) PROVE Inv'
<1>1. call[r] \in Call /\ call[r].op = "publish" /\ call[r].op # "whoami"
  BY DEF OnConnect, Inv, Each, Stage
<1>2. ~Warned(call[r])
  BY <1>1, NamelessCalls
<1> DEFINE contents == {k.user : k \in Active(ByKey(call[r].cred))}
<1>3. contents \subseteq Id /\ \A content \in contents : content = call[r].cred
  BY Ids DEF Active, ByKey, Inv, Rows
<1>4. pc[r] \in OwnOp \cup {"lookup", "publish"}
  BY DEF OnConnect
<1>5. Reply(r, contents)
  BY DEF OnConnect
<1> HIDE DEF contents
<1> QED
  BY <1>1, <1>2, <1>3, <1>4, <1>5, ReplyInv

(***************************************************************************)
(* Steps that change the tables, and restarts.                             *)
(***************************************************************************)
\* The new rows have an id of their own, r.
LEMMA CommitRows ==
  ASSUME Inv, NEW r \in Request, Commit(r)
  PROVE  /\ UserRow(r).id = r /\ UserRow(r).name = call[r].name
         /\ UserRow(r).pswd = call[r].pswd /\ UserRow(r) \in Row
         /\ \A u \in users : u.name # call[r].name
         /\ KeyRow(r).key = r /\ KeyRow(r).user = r
         /\ KeyRow(r) \in [key : Id, user : Id, active : BOOLEAN]
         /\ \A k \in keys : k.key # r
<1>1. /\ call[r] \in Call /\ call[r].op \in SignOp /\ InTrx(r) /\ pc[r] \notin After
      /\ r \in Id
  BY DEF Commit, Inv, Each, Stage, SignOp, InTrx, After, Id
<1>2. /\ UserRow(r).id = r /\ UserRow(r).name = call[r].name /\ UserRow(r).pswd = call[r].pswd
      /\ UserRow(r) \in Row
  BY <1>1, SignCalls DEF UserRow, Row
<1>3. \A u \in users : u.id # r
  BY <1>1, AccountsAssumption DEF Inv, Rows
<1>4. \A k \in keys : k.key # r
  BY <1>3 DEF Inv, Rows
<1>5. \A u \in users : u.name # call[r].name
  BY <1>1 DEF Inv, Locks
<1> QED
  BY <1>1, <1>2, <1>4, <1>5, Records

LEMMA CommitInv ==
  ASSUME Inv, NEW r \in Request, Commit(r) PROVE Inv'
<1> DEFINE u0 == UserRow(r)
           k0 == KeyRow(r)
<1>1. /\ u0.id = r /\ u0.name = call[r].name /\ u0.pswd = call[r].pswd /\ u0 \in Row
      /\ \A u \in users : u.name # call[r].name
      /\ k0.key = r /\ k0.user = r /\ k0 \in [key : Id, user : Id, active : BOOLEAN]
      /\ \A k \in keys : k.key # r
  BY CommitRows
<1>2. users' = users \cup {u0} /\ keys' = keys \cup {k0} /\ UNCHANGED <<tokens, call, user>>
  BY DEF Commit
<1>3. /\ call[r] \in Call /\ call[r].op = "signup" /\ pc[r] = "commit" /\ user[r] = r
      /\ InTrx(r) /\ res[r].text # "wrong" /\ res[r].text # "taken" /\ res[r].status # 201
  BY DEF Commit, Inv, Each, Stage, InTrx
<1>4. ~Warned(call[r])
  BY <1>3 DEF Inv, Each, Sticks, Sticking
<1> HIDE DEF u0, k0
<1>5. /\ pc' \in [Request -> Where] /\ res' \in [Request -> Result]
      /\ pc'[r] \in {"token", "done"}
      /\ \A q \in Request : q # r => pc'[q] = pc[q] /\ res'[q] = res[q]
  <2>1. CASE Goto(r, "token") /\ UNCHANGED res
    BY <2>1, GotoFacts DEF Inv, TypeOK, Result, Where
  <2>2. CASE Refuse(r, 500, "other")
    BY <2>2, Texts, AnswerFacts DEF Inv, Refuse
  <2> QED
    BY <2>1, <2>2 DEF Commit
<1>6. TypeOK'
  BY <1>1, <1>2, <1>5 DEF Inv, TypeOK, Result
<1>7. Rows'
  <2>1. Existing \subseteq users'
        /\ \A u \in users' : u \in Existing \/ (u.id \in Request /\ pc'[u.id] \in After)
    BY <1>1, <1>2, <1>3, <1>5 DEF Inv, Rows, After
  <2>2. \A u, v \in users' : u.name = v.name => u = v
    BY <1>1, <1>2 DEF Inv, Rows
  <2>3. \A u \in users' : \E k \in keys' : k.user = u.id
    BY <1>1, <1>2 DEF Inv, Rows
  <2>4. \A k \in keys' : k.key = k.user /\ \E u \in users' : u.id = k.user
    BY <1>1, <1>2 DEF Inv, Rows
  <2>5. \A k, l \in keys' : k.key = l.key => k = l
    BY <1>1, <1>2 DEF Inv, Rows
  <2>6. \A id \in tokens' : \E u \in users' : u.id = id
    BY <1>2 DEF Inv, Rows
  <2> QED
    BY <2>1, <2>2, <2>3, <2>4, <2>5, <2>6 DEF Rows
<1>8. Locks'
  <2>1. ~InTrx(r)'
    BY <1>5 DEF InTrx
  <2>2. \A q \in Request : q # r => (InTrx(q)' <=> InTrx(q)) /\ call'[q] = call[q]
    BY <1>2, <1>5 DEF InTrx
  <2> HIDE DEF InTrx
  <2>3. \A q \in Request : q # r /\ InTrx(q) => call[q].name # call[r].name
    BY <1>3 DEF Inv, Locks
  <2> QED
    BY <2>1, <2>2, <2>3, <1>1, <1>2 DEF Inv, Locks
<1>9. Is(r, r)'
  BY <1>1, <1>2 DEF Is
<1>10. Each(r)'
  <2>1. \A u, a : Served(call[r], u, a)
    BY <1>3 DEF Served, OwnOp
  <2>2. CASE Refuse(r, 500, "other")
    BY <2>1, <2>2, <1>2, <1>4, Texts, AnswerEach DEF Refuse
  <2>3. CASE Goto(r, "token") /\ UNCHANGED res
    <3>1. pc'[r] = "token" /\ "token" \notin OwnOp \cup {"lookup", "publish"}
          /\ call[r].op \in SignOp
      BY <1>3, <2>3, GotoFacts DEF Inv, Where, OwnOp, SignOp
    <3>2. Stage(r)'
      BY <1>2, <1>3, <1>9, <2>3, <3>1 DEF Inv, Each, Stage
    <3>3. True(r)'
      BY <1>2, <1>3, <2>3 DEF True
    <3>4. Own(r)'
      BY <1>2, <1>3, <2>1 DEF Own, OwnOp
    <3>5. Sticks(r)'
      BY <1>2, <1>4 DEF Sticks
    <3> QED
      BY <3>2, <3>3, <3>4, <3>5 DEF Each
  <2> QED
    BY <2>2, <2>3 DEF Commit
<1>11. ASSUME NEW q \in Request, q # r PROVE Each(q)'
  BY <1>2, <1>5, <1>11, OtherKeeps DEF Inv
<1> QED
  BY <1>6, <1>7, <1>8, <1>10, <1>11 DEF Inv

LEMMA DeactivateInv ==
  ASSUME Inv, NEW k \in keys, Deactivate(k) PROVE Inv'
<1> DEFINE off == [k EXCEPT !.active = FALSE]
<1>1. off.key = k.key /\ off.user = k.user /\ off \in [key : Id, user : Id, active : BOOLEAN]
  BY DEF Inv, TypeOK
<1>2. keys' = (keys \ {k}) \cup {off} /\ UNCHANGED <<users, tokens, call, pc, user, res>>
  BY DEF Deactivate
<1> HIDE DEF off
<1>3. TypeOK'
  BY <1>1, <1>2 DEF Inv, TypeOK
<1>4. Rows'
  <2>1. \A u \in users : \E l \in keys' : l.user = u.id
    BY <1>1, <1>2 DEF Inv, Rows
  <2>2. \A l \in keys' : l.key = l.user /\ \E u \in users : u.id = l.user
    BY <1>1, <1>2 DEF Inv, Rows
  <2>3. \A l, m \in keys' : l.key = m.key => l = m
    BY <1>1, <1>2 DEF Inv, Rows
  <2> QED
    BY <1>2, <2>1, <2>2, <2>3 DEF Inv, Rows
<1>5. Locks'
  BY <1>2 DEF Inv, Locks, InTrx
<1>6. ASSUME NEW q \in Request PROVE Each(q)'
  BY <1>2, OtherKeeps DEF Inv
<1> QED
  BY <1>3, <1>4, <1>5, <1>6 DEF Inv

LEMMA CrashInv ==
  ASSUME Inv, Crash PROVE Inv'
<1>1. pc' = [r \in Request |-> IF pc[r] \in {"idle", "done"} THEN pc[r] ELSE "dropped"]
      /\ UNCHANGED <<users, keys, tokens, call, user, res>>
  BY DEF Crash
<1>2. \A r \in Request : pc'[r] = pc[r] \/ (pc'[r] = "dropped" /\ pc[r] # "done")
  BY <1>1
<1>3. TypeOK'
  BY <1>1 DEF Inv, TypeOK, Where
<1>4. Rows'
  <2>1. \A r \in Request : pc[r] \in After => pc'[r] \in After
    BY <1>2 DEF After
  <2> QED
    BY <1>1, <2>1 DEF Inv, Rows
<1>5. Locks'
  <2>1. \A r \in Request : ~InTrx(r)'
    BY <1>1 DEF InTrx
  <2> QED
    BY <2>1 DEF Locks
<1>6. ASSUME NEW r \in Request PROVE Each(r)'
  <2>1. CASE pc'[r] = pc[r]
    BY <1>1, <2>1, OtherKeeps DEF Inv
  <2>2. CASE pc'[r] = "dropped" /\ pc[r] # "done"
    <3>1. "dropped" \notin OwnOp \cup {"lookup", "publish"}
      BY DEF OwnOp
    <3>2. Stage(r)'
      BY <1>1, <2>2, <3>1 DEF Inv, Each, Stage
    <3>3. True(r)'
      BY <1>1, <2>2 DEF Inv, Each, True, Is, Named
    <3>4. Own(r)'
      BY <1>1 DEF Inv, Each, Own
    <3>5. Sticks(r)'
      <4>1. Sticking(call[r], res[r], pc[r]) => Sticking(call[r], res[r], "dropped")
        BY DEF Sticking
      <4> QED
        BY <1>1, <2>2, <4>1 DEF Inv, Each, Sticks, Named
    <3> QED
      BY <3>2, <3>3, <3>4, <3>5 DEF Each
  <2> QED
    BY <1>2, <2>1, <2>2
<1> QED
  BY <1>3, <1>4, <1>5, <1>6 DEF Inv

LEMMA StepInv == Inv /\ [Next]_vars => Inv'
<1> SUFFICES ASSUME Inv, [Next]_vars PROVE Inv'
  OBVIOUS
<1>1. CASE UNCHANGED vars
  BY <1>1 DEF vars, Inv, TypeOK, Rows, Locks, InTrx, Each, Stage, True, Own, Sticks, Is, Named
<1>2. ASSUME NEW r \in Request, Arrive(r) PROVE Inv'
  BY <1>2, ScreenedInv, BadBodyInv, UnauthorizedInv, HandleInv DEF Arrive
<1>3. ASSUME NEW r \in Request, Step(r) PROVE Inv'
  BY <1>3, CheckNameInv, SaveUserInv, SaveKeyInv, CommitInv, FindUserInv, SendTokenInv,
     GetCurrentInv, GetByUsernameInv, GetKeyInv, OnConnectInv DEF Step
<1>4. ASSUME NEW r \in Request, Fails(r) PROVE Inv'
  BY <1>4, FailsInv
<1>5. ASSUME NEW k \in keys, Deactivate(k) PROVE Inv'
  BY <1>5, DeactivateInv
<1>6. CASE Crash
  BY <1>6, CrashInv
<1> QED
  BY <1>1, <1>2, <1>3, <1>4, <1>5, <1>6 DEF Next

LEMMA Always == Spec => []Inv
  BY InitInv, StepInv, PTL DEF Spec

(***************************************************************************)
(* The theorems.                                                           *)
(***************************************************************************)
\* Rows, tokens, requests and responses keep their types in every handler.
THEOREM AccountsTypes == Spec => []TypeOK
<1>1. Inv => TypeOK
  BY DEF Inv
<1> QED
  BY <1>1, Always, PTL

\* The transaction of SignUp, the unique index and the rollback keep names
\* unique, and each user with exactly one stream key.
THEOREM WholeTheorem == Spec => []AccountsWhole
  BY InvWhole, Always, PTL

\* SignUp creates no token for a user that has been rolled back.
THEOREM TokensTheorem == Spec => []TokensAreUsers
  BY InvTokens, Always, PTL

\* What SignUp and SignIn have answered is true of the table users for good.
THEOREM AnswersTheorem == Spec => []AnswersTrue
  BY InvTrue, Always, PTL

\* A sign-up that has been answered 201 is seen by every later request.
THEOREM SticksTheorem == Spec => []SignUpSticks
  BY InvSticks, Always, PTL

\* The key GetOfCurrentUser has answered opens the stream of its user in
\* onConnect of the RTMP transport.
THEOREM KeyTheorem == Spec => []KeyOpensOwnStream
  BY InvOwn, Always, PTL
=============================================================================
