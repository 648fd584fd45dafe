----------------------------- MODULE AccountsProofs -----------------------------
(***************************************************************************)
(* What holds of accounts and mailed links for any number of accounts,     *)
(* requests, addresses and links.                                          *)
(***************************************************************************)
EXTENDS Accounts, FiniteSetTheorems, TLAPS

(* Which operations pass through which step, and what their request holds.   *)
InStep(step, op) ==
    /\ step = "find" => op = "google"
    /\ step = "insert" => op \in {"register", "google"}
    /\ step = "read" => op \in {"verify", "reset"}
    /\ step = "unique" => op = "email"
    /\ step \in {"load", "write"} => op \in {"google", "verify", "reset", "email", "password", "profile"}
    /\ step = "spend" => op \in {"verify", "reset"}
    /\ step = "invalidate" => op \in {"register", "email", "resend", "forgot", "reset"}
    /\ step = "issue" => op \in {"register", "email", "resend", "forgot"}

Holds(r) ==
    pc[r] # "idle" =>
        /\ InStep(pc[r], req[r].op)
        /\ pc[r] \notin {"find", "insert"} => req[r].user \in Registered
        /\ pc[r] \in {"find", "insert"} => req[r].user = None
        /\ pc[r] # "read" => req[r].agg.email # None
        /\ req[r].op = "google" => req[r].agg.google = req[r].agg.email
        /\ pc[r] = "insert" /\ req[r].op = "register" => ~req[r].agg.verified
        /\ pc[r] \in {"read", "load", "write", "spend"} /\ req[r].op \in {"verify", "reset"} =>
              /\ req[r].token \in Tokens /\ Issued(req[r].token)
              /\ token[req[r].token].user = req[r].user

LinkHolds(k) == Issued(k) => token[k].user \in Registered /\ token[k].addr # None

TypeInv == TypeOK /\ (\A r \in Requests : Holds(r)) /\ (\A k \in Tokens : LinkHolds(k))

(* The steps of one request, in the words the lemmas share. *)
Becomes(r, step, x) == pc' = [pc EXCEPT ![r] = step] /\ req' = [req EXCEPT ![r] = x]

Steps == {"idle", "find", "read", "unique", "insert", "load", "write", "spend", "invalidate", "issue"}

(* Accounts are never deleted, and of a stored link only `used` changes. *)
Grows ==
    /\ now' = now \/ now' = now + 1
    /\ \A u \in Registered : u \in Registered'
    /\ \A k \in Tokens : Issued(k) =>
          /\ Issued(k)' /\ token'[k].user = token[k].user /\ token'[k].kind = token[k].kind
          /\ token'[k].addr = token[k].addr /\ token'[k].cut = token[k].cut
          /\ token[k].used => token'[k].used

LEMMA NoneIsNobody == None \notin Users /\ None \notin Addresses /\ None \notin Passwords
BY AccountsAssumption

LEMMA OthersHold ==
    ASSUME TypeInv, Grows, NEW r \in Requests, NEW step, NEW x, Becomes(r, step, x)
    PROVE  /\ \A q \in Requests \ {r} : pc'[q] = pc[q] /\ req'[q] = req[q] /\ Holds(q)'
           /\ pc'[r] = step /\ req'[r] = x
<1>1. /\ \A q \in Requests \ {r} : pc'[q] = pc[q] /\ req'[q] = req[q]
      /\ pc'[r] = step /\ req'[r] = x
  BY DEF Becomes, TypeInv, TypeOK
<1>2. ASSUME NEW q \in Requests \ {r} PROVE Holds(q)'
  <2>1. Holds(q) BY DEF TypeInv
  <2> QED BY <1>1, <2>1 DEF Holds, Grows
<1> QED BY <1>1, <1>2

(* A step that only reads changes its request and nothing else. *)
LEMMA TypeReads ==
    ASSUME TypeInv, NEW r \in Requests, NEW step \in Steps, NEW x \in Request,
           Becomes(r, step, x), Reads, Holds(r)'
    PROVE  TypeInv' /\ Grows
<1>1. Grows BY DEF Reads, Grows, Registered, Exists, Issued
<1>2. TypeOK' BY DEF Becomes, Reads, historyVars, Steps, TypeInv, TypeOK
<1>3. \A k \in Tokens : LinkHolds(k)' BY DEF Reads, TypeInv, LinkHolds, Registered, Exists, Issued
<1> QED BY <1>1, <1>2, <1>3, OthersHold DEF TypeInv

LEMMA NothingHeld == NoRequest \in Request /\ NoRow \in Row
BY DEF NoRequest, NoRow, Request, Row

LEMMA TypeFinish ==
    ASSUME TypeInv, NEW r \in Requests, Finish(r), Reads
    PROVE  TypeInv' /\ Grows
<1>1. Becomes(r, "idle", NoRequest) BY DEF Finish, Goto, Becomes
<1>2. Holds(r)' BY <1>1 DEF Becomes, Holds, TypeInv, TypeOK
<1> QED BY <1>1, <1>2, NothingHeld, TypeReads DEF Steps

(* Steps that read an account, a link or nothing, in one query, and hold     *)
(* what they found.                                                          *)
Opens(r, step, x) ==
    LET u == x.user
    IN  /\ InStep(step, x.op)
        /\ step \in {"find", "insert", "read", "unique", "load", "invalidate"}
        /\ step \in {"find", "insert"} => u = None
        /\ step \notin {"find", "insert"} => u \in Registered
        /\ step # "read" => x.agg.email # None
        /\ x.op = "google" => x.agg.google = x.agg.email
        /\ step = "insert" => /\ x.op = "register" => ~x.agg.verified
        /\ step \in {"read", "load"} /\ x.op \in {"verify", "reset"} =>
              x.token \in Tokens /\ Issued(x.token) /\ token[x.token].user = u
        /\ step \in {"unique", "load"} =>
              /\ x.op \notin {"reset", "password"} => x.agg.password = user[u].password
              /\ x.op # "email" => x.agg.email = user[u].email
              /\ x.op = "email" => ~x.agg.verified
              /\ x.op \notin {"email", "verify", "google"} => x.agg.verified = user[u].verified
        /\ x.op = "verify" /\ step = "read" =>
              token[x.token].kind = "email_verification" /\ (x.usable => Usable(x.token))
        /\ x.op = "verify" /\ step = "load" =>
              /\ pc[r] = "read" /\ req[r].op = "verify" /\ req[r].usable
              /\ req[r].user = u /\ req[r].token = x.token
        /\ step = "invalidate" => x.op \in {"resend", "forgot"} /\ x.agg.email = user[u].email

LEMMA OpensOn ==
    ASSUME TypeInv, NEW r \in Requests, NEW op, NEW u \in Registered, NEW agg \in Row, NEW step \in Steps,
           StartOn(r, op, u, agg, step),
           op \in {"email", "password", "profile", "resend", "forgot"}, InStep(step, op),
           step \in {"unique", "load", "invalidate"},
           step = "invalidate" <=> op \in {"resend", "forgot"},
           agg.email # None,
           op # "password" /\ step # "invalidate" => agg.password = user[u].password,
           op # "email" => agg.email = user[u].email,
           op = "email" => ~agg.verified,
           op \in {"password", "profile"} => agg.verified = user[u].verified
    PROVE  \E x \in Request : Becomes(r, step, x) /\ Opens(r, step, x)
<1> DEFINE x == [NoRequest EXCEPT !.op = op, !.user = u, !.agg = agg]
<1>1. x \in Request /\ x.op = op /\ x.user = u /\ x.agg = agg
  BY NothingHeld DEF Request, NoRequest, Registered
<1>2. Becomes(r, step, x) BY DEF StartOn, Start, Goto, Becomes
<1> HIDE DEF x
<1>3. Opens(r, step, x) BY <1>1 DEF Opens, InStep
<1> QED BY <1>1, <1>2, <1>3

LEMMA RowsAre ==
    ASSUME TypeInv
    PROVE  /\ \A u \in Users : user[u] \in Row
           /\ \A u \in Registered : u \in Users /\ user[u].email \in Addresses /\ u # None
           /\ \A r \in Requests : pc[r] \in Steps /\ req[r] \in Request
           /\ \A k \in Tokens : token[k] \in Token
BY AccountsAssumption DEF TypeInv, TypeOK, Registered, Exists, Row, Steps

LEMMA BeginOpens ==
    ASSUME TypeInv, NEW r \in Requests, Begin(r)
    PROVE  /\ Reads /\ pc[r] = "idle"
           /\ \E step \in Steps, x \in Request : Becomes(r, step, x) /\ Opens(r, step, x)
<1>1. Reads /\ pc[r] = "idle"
  BY DEF Begin, BeginRegister, BeginGoogle, BeginVerify, BeginReset, BeginUpdateEmail, StartOn, Start,
         BeginUpdatePassword, BeginUpdateProfile, BeginResend, BeginForgot
<1>2. CASE BeginRegister(r)
  <2>1. PICK e \in Addresses, p \in Passwords :
          StartOn(r, "register", None, [NoRow EXCEPT !.email = e, !.password = p], "insert")
    BY <1>2 DEF BeginRegister
  <2> DEFINE x == [NoRequest EXCEPT !.op = "register", !.user = None,
                                    !.agg = [NoRow EXCEPT !.email = e, !.password = p]]
  <2>2. x \in Request BY DEF Request, NoRequest, NoRow, Row
  <2>3. Becomes(r, "insert", x) BY <2>1 DEF StartOn, Start, Goto, Becomes
  <2>4. Opens(r, "insert", x) BY NoneIsNobody DEF Opens, InStep, NoRequest, NoRow
  <2>5. "insert" \in Steps BY DEF Steps
  <2> HIDE DEF x
  <2> QED BY <1>1, <2>2, <2>3, <2>4, <2>5
<1>3. CASE BeginGoogle(r)
  <2>1. PICK e \in Addresses :
          StartOn(r, "google", None, [NoRow EXCEPT !.email = e, !.google = e, !.verified = TRUE], "find")
    BY <1>3 DEF BeginGoogle
  <2> DEFINE x == [NoRequest EXCEPT !.op = "google", !.user = None,
                     !.agg = [NoRow EXCEPT !.email = e, !.google = e, !.verified = TRUE]]
  <2>2. x \in Request BY DEF Request, NoRequest, NoRow, Row
  <2>3. Becomes(r, "find", x) BY <2>1 DEF StartOn, Start, Goto, Becomes
  <2>4. Opens(r, "find", x) BY NoneIsNobody DEF Opens, InStep, NoRequest, NoRow
  <2>5. "find" \in Steps BY DEF Steps
  <2> HIDE DEF x
  <2> QED BY <1>1, <2>2, <2>3, <2>4, <2>5
<1>4. CASE BeginVerify(r) \/ BeginReset(r)
  <2>1. PICK k \in Tokens, op \in {"verify", "reset"}, ok \in BOOLEAN :
          /\ Issued(k) /\ (op = "verify" => token[k].kind = "email_verification") /\ (ok => Usable(k))
          /\ Start(r, [NoRequest EXCEPT !.op = op, !.user = token[k].user, !.token = k, !.usable = ok], "read")
    BY <1>4 DEF BeginVerify, BeginReset, Usable
  <2> DEFINE x == [NoRequest EXCEPT !.op = op, !.user = token[k].user, !.token = k, !.usable = ok]
  <2>2. token[k].user \in Registered BY <2>1 DEF TypeInv, LinkHolds
  <2>3. /\ x \in Request /\ x.op = op /\ x.user = token[k].user /\ x.token = k /\ x.usable = ok
    BY <2>2, NothingHeld DEF Request, NoRequest, Registered
  <2>4. Becomes(r, "read", x) BY <2>1 DEF Start, Goto, Becomes
  <2> HIDE DEF x
  <2>5. Opens(r, "read", x) BY <2>1, <2>2, <2>3 DEF Opens, InStep
  <2>6. "read" \in Steps BY DEF Steps
  <2> QED BY <1>1, <2>3, <2>4, <2>5, <2>6
<1>5. CASE BeginUpdateEmail(r)
  <2>1. PICK u \in Registered, e \in Addresses : StartOn(r, "email", u, WithEmail(user[u], e), "unique")
    BY <1>5 DEF BeginUpdateEmail
  <2>2. /\ WithEmail(user[u], e) \in Row /\ ~WithEmail(user[u], e).verified
        /\ WithEmail(user[u], e).email # None /\ WithEmail(user[u], e).password = user[u].password
    BY RowsAre, NoneIsNobody DEF WithEmail, Row
  <2>3. "unique" \in Steps /\ InStep("unique", "email") BY DEF Steps, InStep
  <2> QED BY <1>1, <2>1, <2>2, <2>3, OpensOn
<1>6. CASE BeginUpdatePassword(r)
  <2>1. PICK u \in Registered, p \in Passwords : StartOn(r, "password", u, WithPassword(user[u], p), "load")
    BY <1>6 DEF BeginUpdatePassword
  <2>2. /\ WithPassword(user[u], p) \in Row /\ WithPassword(user[u], p).email = user[u].email
        /\ user[u].email # None /\ WithPassword(user[u], p).verified = user[u].verified
    BY RowsAre, NoneIsNobody DEF WithPassword, Row
  <2>3. "load" \in Steps /\ InStep("load", "password") BY DEF Steps, InStep
  <2> QED BY <1>1, <2>1, <2>2, <2>3, OpensOn
<1>7. CASE BeginUpdateProfile(r)
  <2>1. PICK u \in Registered : StartOn(r, "profile", u, user[u], "load") BY <1>7 DEF BeginUpdateProfile
  <2>2. user[u] \in Row /\ user[u].email # None BY RowsAre, NoneIsNobody
  <2>3. "load" \in Steps /\ InStep("load", "profile") BY DEF Steps, InStep
  <2> QED BY <1>1, <2>1, <2>2, <2>3, OpensOn
<1>8. CASE BeginResend(r) \/ BeginForgot(r)
  <2>1. PICK u \in Registered, op \in {"resend", "forgot"} :
          StartOn(r, op, u, [NoRow EXCEPT !.email = user[u].email], "invalidate")
    BY <1>8 DEF BeginResend, BeginForgot
  <2> DEFINE agg == [NoRow EXCEPT !.email = user[u].email]
  <2>2. agg \in Row /\ agg.email = user[u].email /\ agg.email # None
    BY RowsAre, NoneIsNobody DEF NoRow, Row
  <2> HIDE DEF agg
  <2>3. StartOn(r, op, u, agg, "invalidate") BY <2>1 DEF agg
  <2>4. "invalidate" \in Steps /\ InStep("invalidate", op) BY DEF Steps, InStep
  <2> QED BY <1>1, <2>2, <2>3, <2>4, OpensOn
<1> QED BY <1>1, <1>2, <1>3, <1>4, <1>5, <1>6, <1>7, <1>8 DEF Begin

LEMMA ReadsOpen ==
    ASSUME TypeInv, NEW r \in Requests, FindByEmail(r) \/ ReadToVerify(r) \/ ReadToReset(r)
    PROVE  /\ Reads /\ pc[r] \in {"find", "read"}
           /\ Finish(r) \/ \E step \in Steps, x \in Request : Becomes(r, step, x) /\ Opens(r, step, x)
<1>1. Reads /\ pc[r] \in {"find", "read"} BY DEF FindByEmail, ReadToVerify, ReadToReset
<1>2. Holds(r) /\ req[r] \in Request /\ req \in [Requests -> Request] BY DEF TypeInv, TypeOK
<1>3. "insert" \in Steps /\ "load" \in Steps BY DEF Steps
<1>4. CASE FindByEmail(r)
  <2>1. pc[r] = "find" /\ req[r].op = "google" /\ req[r].user = None /\ req[r].agg.email # None
        /\ req[r].agg.google = req[r].agg.email
    BY <1>2, <1>4 DEF FindByEmail, Holds, InStep
  <2>2. CASE Becomes(r, "insert", req[r])
    <3>1. Opens(r, "insert", req[r]) BY <2>1 DEF Opens, InStep
    <3> QED BY <1>1, <1>2, <1>3, <2>2, <3>1
  <2>3. CASE \E u \in Users : /\ user[u].email = req[r].agg.email
                              /\ req' = [req EXCEPT ![r].user = u, ![r].agg = WithGoogle(user[u], req[r].agg.email)]
                              /\ pc' = [pc EXCEPT ![r] = "load"]
    <3>1. PICK u \in Users : /\ user[u].email = req[r].agg.email
                             /\ req' = [req EXCEPT ![r].user = u, ![r].agg = WithGoogle(user[u], req[r].agg.email)]
                             /\ pc' = [pc EXCEPT ![r] = "load"]
      BY <2>3
    <3> DEFINE x == [req[r] EXCEPT !.user = u, !.agg = WithGoogle(user[u], req[r].agg.email)]
    <3>2. u \in Registered BY <2>1, <3>1 DEF Registered, Exists
    <3>3. WithGoogle(user[u], req[r].agg.email) \in Row
          /\ WithGoogle(user[u], req[r].agg.email).email = user[u].email
          /\ WithGoogle(user[u], req[r].agg.email).password = user[u].password
          /\ WithGoogle(user[u], req[r].agg.email).google = user[u].email
      BY <3>1, <3>2, RowsAre DEF WithGoogle, Row
    <3>4. /\ x \in Request /\ x.op = "google" /\ x.user = u
          /\ x.agg = WithGoogle(user[u], req[r].agg.email)
      BY <1>2, <2>1, <3>3 DEF Request
    <3>5. Becomes(r, "load", x) BY <1>2, <3>1 DEF Becomes
    <3> HIDE DEF x
    <3>6. Opens(r, "load", x) BY <2>1, <3>1, <3>2, <3>3, <3>4 DEF Opens, InStep
    <3> QED BY <1>1, <1>3, <3>4, <3>5, <3>6
  <2> QED BY <1>2, <1>4, <2>2, <2>3 DEF FindByEmail, Goto, Becomes
<1>5. CASE ReadToVerify(r) \/ ReadToReset(r)
  <2>1. CASE Finish(r) BY <1>1, <2>1
  <2>2. CASE ReadToVerify(r) /\ ~Finish(r)
    <3> DEFINE u == req[r].user
               x == [req[r] EXCEPT !.agg = Verified(user[u]), !.usable = FALSE]
    <3>1. /\ pc[r] = "read" /\ req[r].op = "verify" /\ req[r].usable
          /\ req' = [req EXCEPT ![r].agg = Verified(user[u]), ![r].usable = FALSE]
          /\ pc' = [pc EXCEPT ![r] = "load"]
      BY <2>2 DEF ReadToVerify, Goto
    <3>2. u \in Registered /\ req[r].token \in Tokens /\ Issued(req[r].token) /\ token[req[r].token].user = u
      BY <1>2, <3>1 DEF Holds
    <3>3. /\ Verified(user[u]) \in Row /\ Verified(user[u]).email = user[u].email
          /\ Verified(user[u]).email # None /\ Verified(user[u]).password = user[u].password
      BY <3>2, RowsAre, NoneIsNobody DEF Verified, Row
    <3>4. x \in Request /\ x.op = "verify" /\ x.user = u /\ x.token = req[r].token /\ x.agg = Verified(user[u])
      BY <1>2, <3>1, <3>3 DEF Request
    <3>5. Becomes(r, "load", x) BY <1>2, <3>1 DEF Becomes
    <3> HIDE DEF x
    <3>6. Opens(r, "load", x) BY <3>1, <3>2, <3>3, <3>4 DEF Opens, InStep
    <3> QED BY <1>1, <1>3, <3>4, <3>5, <3>6
  <2>3. CASE ReadToReset(r)
    <3> DEFINE u == req[r].user
    <3>1. PICK p \in Passwords : req' = [req EXCEPT ![r].agg = WithPassword(user[u], p), ![r].usable = FALSE]
      BY <2>3 DEF ReadToReset
    <3> DEFINE x == [req[r] EXCEPT !.agg = WithPassword(user[u], p), !.usable = FALSE]
    <3>2. pc[r] = "read" /\ req[r].op = "reset" /\ pc' = [pc EXCEPT ![r] = "load"]
      BY <2>3 DEF ReadToReset, Goto
    <3>3. u \in Registered /\ req[r].token \in Tokens /\ Issued(req[r].token) /\ token[req[r].token].user = u
      BY <1>2, <3>2 DEF Holds
    <3>4. /\ WithPassword(user[u], p) \in Row /\ WithPassword(user[u], p).email = user[u].email
          /\ user[u].email # None /\ WithPassword(user[u], p).verified = user[u].verified
      BY <3>3, RowsAre, NoneIsNobody DEF WithPassword, Row
    <3>5. x \in Request /\ x.op = "reset" /\ x.user = u /\ x.token = req[r].token /\ x.agg = WithPassword(user[u], p)
      BY <1>2, <3>2, <3>4 DEF Request
    <3>6. Becomes(r, "load", x) BY <1>2, <3>1, <3>2 DEF Becomes
    <3> HIDE DEF x
    <3>7. Opens(r, "load", x) BY <3>2, <3>3, <3>4, <3>5 DEF Opens, InStep
    <3> QED BY <1>1, <1>3, <3>5, <3>6, <3>7
  <2> QED BY <1>5, <2>1, <2>2, <2>3
<1> QED BY <1>4, <1>5

LEMMA OpensType ==
    ASSUME TypeInv, NEW r \in Requests, Reads, NEW step \in Steps, NEW x \in Request,
           Becomes(r, step, x), Opens(r, step, x)
    PROVE  TypeInv' /\ Grows
<1>1. pc'[r] = step /\ req'[r] = x BY DEF Becomes, TypeInv, TypeOK
<1>2. Registered' = Registered /\ token' = token BY DEF Reads, Registered, Exists
<1>3. Holds(r)' BY <1>1, <1>2 DEF Holds, Opens, InStep, Issued
<1> QED BY <1>3, TypeReads

(* The two queries that only let the request go on with what it holds. *)
LEMMA CheckUniqueType ==
    ASSUME TypeInv, NEW r \in Requests, CheckUnique(r), ~Finish(r)
    PROVE  TypeInv' /\ Grows /\ Reads /\ pc[r] = "unique" /\ Becomes(r, "load", req[r])
<1>1. pc[r] = "unique" /\ Reads /\ Becomes(r, "load", req[r])
  BY DEF CheckUnique, Goto, Becomes, TypeInv, TypeOK
<1>2. Holds(r) /\ req[r] \in Request BY DEF TypeInv, TypeOK
<1>3. pc'[r] = "load" /\ req'[r] = req[r] /\ Registered' = Registered /\ token' = token
  BY <1>1 DEF Becomes, TypeInv, TypeOK, Reads, Registered, Exists
<1>4. Holds(r)' BY <1>1, <1>2, <1>3 DEF Holds, InStep, Issued
<1>5. "load" \in Steps BY DEF Steps
<1> QED BY <1>1, <1>2, <1>4, <1>5, TypeReads

LEMMA LoadType ==
    ASSUME TypeInv, NEW r \in Requests, Load(r)
    PROVE  LET row == [user[req[r].user] EXCEPT !.password = None]
           IN  /\ TypeInv' /\ Grows /\ Reads /\ pc[r] = "load"
               /\ Becomes(r, "write", [req[r] EXCEPT !.row = row])
<1> DEFINE row == [user[req[r].user] EXCEPT !.password = None]
           x == [req[r] EXCEPT !.row = row]
<1>1. pc[r] = "load" /\ Reads BY DEF Load
<1>2. Holds(r) /\ req[r] \in Request BY DEF TypeInv, TypeOK
<1>3. row \in Row BY <1>1, <1>2, RowsAre DEF Holds, Row
<1>4. x \in Request /\ x.op = req[r].op /\ x.user = req[r].user /\ x.agg = req[r].agg /\ x.token = req[r].token
  BY <1>2, <1>3 DEF Request
<1>5. Becomes(r, "write", x) BY DEF Load, Goto, Becomes, TypeInv, TypeOK
<1> HIDE DEF x
<1>6. pc'[r] = "write" /\ req'[r] = x /\ Registered' = Registered /\ token' = token
  BY <1>1, <1>5 DEF Becomes, TypeInv, TypeOK, Reads, Registered, Exists
<1>7. Holds(r)' BY <1>1, <1>2, <1>4, <1>6 DEF Holds, InStep, Issued
<1>8. "write" \in Steps BY DEF Steps
<1>9. TypeInv' /\ Grows BY <1>1, <1>4, <1>5, <1>7, <1>8, TypeReads
<1> QED BY <1>1, <1>5, <1>9 DEF x

(* What a save leaves in the histories. *)
LEMMA RecordedMeans ==
    ASSUME TypeInv, NEW u \in Users, NEW disturbs \in BOOLEAN,
           NEW c \in Passwords \cup {None}, NEW p \in SUBSET Addresses, Recorded(u, disturbs, c, p)
    PROVE  /\ chosen' \in [Users -> Passwords \cup {None}]
           /\ proven' \in [Users -> SUBSET Addresses]
           /\ disturbed' \subseteq Users /\ disturbed \subseteq disturbed'
           /\ disturbs => u \in disturbed'
           /\ u \notin disturbed' => chosen'[u] = c /\ proven'[u] = p
           /\ \A v \in Users \ {u} : /\ chosen'[v] = chosen[v] /\ proven'[v] = proven[v]
                                     /\ v \in disturbed' => v \in disturbed
<1>1. CASE disturbs \/ u \in disturbed
  <2>1. /\ disturbed' = disturbed \cup {u}
        /\ chosen' = [chosen EXCEPT ![u] = None] /\ proven' = [proven EXCEPT ![u] = {}]
    BY <1>1 DEF Recorded
  <2> QED BY <2>1 DEF TypeInv, TypeOK
<1>2. CASE ~(disturbs \/ u \in disturbed)
  <2>1. /\ disturbed' = disturbed
        /\ chosen' = [chosen EXCEPT ![u] = c] /\ proven' = [proven EXCEPT ![u] = p]
    BY <1>2 DEF Recorded
  <2> QED BY <1>2, <2>1 DEF TypeInv, TypeOK
<1> QED BY <1>1, <1>2

(* The password and the addresses a save of req[r] lets the histories keep.  *)
PasswordOf(r, u) ==
    IF req[r].user = None \/ req[r].op \in {"reset", "password"} THEN req[r].agg.password ELSE chosen[u]
ProvenBy(r, u) ==
    proven[u] \cup CASE req[r].op = "verify" -> {token[req[r].token].addr}
                     [] req[r].op = "google" -> {req[r].agg.google}
                     [] OTHER -> {}

(* A request about to save `row` as the account u. *)
MaySave(r, u, row) ==
    /\ u \in Users /\ row \in Row /\ row.email # None
    /\ req[r].user \in {u, None}
    /\ req[r].op \in {"register", "google", "verify", "email", "reset", "password", "profile"}
    /\ req[r].op \in {"verify", "reset"} =>
          /\ req[r].user = u /\ req[r].token \in Tokens
          /\ Issued(req[r].token) /\ token[req[r].token].user = u
    /\ req[r].op = "google" => req[r].agg.google # None

LEMMA InsertMay ==
    ASSUME TypeInv, NEW r \in Requests, pc[r] = "insert", NEW u \in Users
    PROVE  MaySave(r, u, req[r].agg)
<1>1. Holds(r) /\ req[r] \in Request BY DEF TypeInv, TypeOK
<1> QED BY <1>1 DEF Holds, InStep, MaySave, Request

LEMMA WriteMay ==
    ASSUME TypeInv, NEW r \in Requests, pc[r] = "write"
    PROVE  LET u == req[r].user
               row == Merged(req[r].agg, req[r].row, user[u])
           IN  /\ MaySave(r, u, row) /\ u \in Registered
               /\ row.password = req[r].agg.password
               /\ row.email = (IF req[r].agg.email # req[r].row.email THEN req[r].agg.email ELSE user[u].email)
               /\ row.verified = (IF req[r].agg.verified # req[r].row.verified
                                  THEN req[r].agg.verified ELSE user[u].verified)
<1> DEFINE u == req[r].user
           row == Merged(req[r].agg, req[r].row, user[u])
<1>1. Holds(r) /\ req[r] \in Request BY DEF TypeInv, TypeOK
<1>2. u \in Registered /\ u \in Users /\ user[u] \in Row /\ user[u].email # None
  BY <1>1, RowsAre, NoneIsNobody DEF Holds
<1>3. /\ row \in Row /\ row.password = req[r].agg.password
      /\ row.email = (IF req[r].agg.email # req[r].row.email THEN req[r].agg.email ELSE user[u].email)
      /\ row.verified = (IF req[r].agg.verified # req[r].row.verified
                         THEN req[r].agg.verified ELSE user[u].verified)
  <2>1. ASSUME NEW agg \in Row, NEW read \in Row, NEW old \in Row
        PROVE  LET new == Merged(agg, read, old)
               IN  /\ new \in Row /\ new.password = agg.password
                   /\ new.email = (IF agg.email # read.email THEN agg.email ELSE old.email)
                   /\ new.verified = (IF agg.verified # read.verified THEN agg.verified ELSE old.verified)
    BY DEF Merged, Row
  <2>2. req[r].agg \in Row /\ req[r].row \in Row BY <1>1 DEF Request
  <2> QED BY <1>2, <2>1, <2>2
<1>4. row.email # None BY <1>1, <1>2, <1>3 DEF Holds
<1> HIDE DEF row
<1>5. MaySave(r, u, row) BY <1>1, <1>2, <1>3, <1>4 DEF Holds, InStep, MaySave
<1> QED BY <1>2, <1>3, <1>5 DEF row

LEMMA SavedMeans ==
    ASSUME TypeInv, NEW r \in Requests, NEW u, NEW row, MaySave(r, u, row),
           Saved(r, u, row), UNCHANGED <<now, token>>
    PROVE  /\ TypeInv' /\ Grows /\ user' = [user EXCEPT ![u] = row]
           /\ Recorded(u, Overlaps(r, u), PasswordOf(r, u), ProvenBy(r, u))
           /\ PasswordOf(r, u) \in Passwords \cup {None} /\ ProvenBy(r, u) \in SUBSET Addresses
           /\ \E step \in {"idle", "spend", "invalidate"}, x \in Request :
                 /\ Becomes(r, step, x)
                 /\ step # "idle" => x.op = req[r].op /\ x.user = u /\ x.agg.email = row.email
                 /\ step = "invalidate" <=> req[r].op \in {"register", "email"}
<1>1. user' = [user EXCEPT ![u] = row] /\ u \in Users /\ row \in Row /\ row.email # None
  BY DEF Saved, MaySave
<1>2. Recorded(u, Overlaps(r, u), PasswordOf(r, u), ProvenBy(r, u)) BY Zenon DEF Saved, PasswordOf, ProvenBy
<1>3. req[r] \in Request /\ chosen[u] \in Passwords \cup {None} /\ proven[u] \in SUBSET Addresses
  BY <1>1 DEF TypeInv, TypeOK
<1>4. PasswordOf(r, u) \in Passwords \cup {None} BY <1>3 DEF PasswordOf, Request, Row
<1>5. ProvenBy(r, u) \in SUBSET Addresses
  <2>1. CASE req[r].op = "verify"
    <3>1. token[req[r].token].addr \in Addresses
      BY <2>1, RowsAre DEF MaySave, TypeInv, LinkHolds, Token
    <3> QED BY <1>3, <2>1, <3>1 DEF ProvenBy
  <2>2. CASE req[r].op = "google"
    <3>1. req[r].agg.google \in Addresses BY <1>3, <2>2 DEF MaySave, Request, Row
    <3> QED BY <1>3, <2>2, <3>1 DEF ProvenBy
  <2> QED BY <1>3, <2>1, <2>2 DEF ProvenBy
<1>6. Registered \subseteq Registered' BY <1>1 DEF Registered, Exists, TypeInv, TypeOK
<1>7. Grows BY <1>6 DEF Grows, Issued
<1> DEFINE step == AfterSave(req[r].op)
           x == IF step = "idle" THEN NoRequest
                ELSE [NoRequest EXCEPT !.op = req[r].op, !.user = u, !.token = req[r].token,
                                       !.agg.email = row.email]
<1>8. step \in {"idle", "spend", "invalidate"} /\ step \in Steps
      /\ (step = "invalidate" <=> req[r].op \in {"register", "email"})
      /\ (step = "spend" <=> req[r].op \in {"verify", "reset"})
  BY DEF AfterSave, Steps
<1>9. x \in Request /\ (step # "idle" => x.op = req[r].op /\ x.user = u /\ x.token = req[r].token
                                         /\ x.agg.email = row.email)
  <2>1. CASE step = "idle" BY <2>1, NothingHeld
  <2>2. CASE step # "idle"
    <3> DEFINE agg == [email |-> row.email, password |-> None, verified |-> FALSE, google |-> None]
    <3>1. agg \in Row /\ agg.email = row.email BY <1>1 DEF Row
    <3>2. x = [op |-> req[r].op, user |-> u, agg |-> agg, row |-> NoRow,
               token |-> req[r].token, usable |-> FALSE, cut |-> NoToken]
      BY <2>2 DEF NoRequest, NoRow
    <3> HIDE DEF agg, x
    <3>3. req[r].op \in {"register", "google", "verify", "email", "resend", "forgot",
                         "reset", "password", "profile", "none"}
          /\ req[r].token \in Tokens \cup {NoToken} /\ NoRow \in Row
      BY <1>3, NothingHeld DEF Request
    <3> QED BY <1>1, <3>1, <3>2, <3>3 DEF Request
  <2> QED BY <2>1, <2>2
<1>10. Becomes(r, step, x) BY DEF Saved, Finish, Goto, Becomes
<1> HIDE DEF x, step
<1>11. pc'[r] = step /\ req'[r] = x BY <1>10 DEF Becomes, TypeInv, TypeOK
<1>12. u \in Registered' BY <1>1 DEF Registered, Exists, TypeInv, TypeOK
<1>13. Holds(r)' BY <1>1, <1>8, <1>9, <1>11, <1>12 DEF Holds, InStep, MaySave, Issued
<1>14. TypeOK'
  <2>1. Overlaps(r, u) \in BOOLEAN BY DEF Overlaps
  <2>2. /\ chosen' \in [Users -> Passwords \cup {None}]
        /\ proven' \in [Users -> SUBSET Addresses] /\ disturbed' \subseteq Users
    BY <1>1, <1>2, <1>4, <1>5, <2>1, RecordedMeans
  <2>3. user' \in [Users -> Row] BY <1>1 DEF TypeInv, TypeOK
  <2>4. pc' \in [Requests -> Steps] /\ req' \in [Requests -> Request]
    BY <1>8, <1>9, <1>10 DEF Becomes, TypeInv, TypeOK, Steps
  <2> QED BY <2>2, <2>3, <2>4 DEF TypeInv, TypeOK, Steps
<1>15. \A k \in Tokens : LinkHolds(k)' BY <1>6 DEF TypeInv, LinkHolds, Issued
<1>16. TypeInv' BY <1>7, <1>10, <1>13, <1>14, <1>15, OthersHold DEF TypeInv
<1>17. step # "idle" => x.op = req[r].op /\ x.user = u /\ x.agg.email = row.email BY <1>9
<1> QED BY <1>1, <1>2, <1>4, <1>5, <1>7, <1>8, <1>9, <1>10, <1>16, <1>17

(* Steps on the table auth_tokens. *)
TokenAlike(k) ==
    /\ token'[k].user = token[k].user /\ token'[k].kind = token[k].kind
    /\ token'[k].addr = token[k].addr /\ token'[k].cut = token[k].cut
    /\ token'[k].expires = token[k].expires /\ (token[k].used => token'[k].used)

LEMMA TypeTokens ==
    ASSUME TypeInv, NEW r \in Requests, NEW step \in Steps, NEW x \in Request, Becomes(r, step, x), Holds(r)',
           UNCHANGED <<now, user>>, token' \in [Tokens -> Token],
           \A k \in Tokens : Issued(k) => TokenAlike(k),
           \A k \in Tokens : LinkHolds(k)',
           chosen' \in [Users -> Passwords \cup {None}],
           proven' \in [Users -> SUBSET Addresses], disturbed' \subseteq Users
    PROVE  TypeInv' /\ Grows
<1>1. Grows BY DEF Grows, Registered, Exists, Issued, TokenAlike
<1>2. TypeOK' BY DEF Becomes, Steps, TypeInv, TypeOK
<1> QED BY <1>1, <1>2, OthersHold DEF TypeInv

LEMMA SpendType ==
    ASSUME TypeInv, NEW r \in Requests, Spend(r)
    PROVE  /\ TypeInv' /\ Grows /\ UNCHANGED <<user, historyVars>>
           /\ \A k \in Tokens : TokenAlike(k)
           /\ \E step \in {"idle", "invalidate"}, x \in Request :
                 Becomes(r, step, x) /\ (step = "invalidate" => x = req[r] /\ x.op = "reset")
<1>1. Holds(r) /\ req[r] \in Request /\ pc[r] = "spend" BY DEF TypeInv, TypeOK, Spend
<1>2. req[r].token \in Tokens /\ req[r].user \in Registered BY <1>1 DEF Holds, InStep
<1>3. token' \in [Tokens -> Token] /\ \A k \in Tokens : TokenAlike(k)
  <2>1. token \in [Tokens -> Token] BY DEF TypeInv, TypeOK
  <2>2. token' = [token EXCEPT ![req[r].token].used = TRUE] BY DEF Spend
  <2>3. ASSUME NEW k \in Tokens PROVE token'[k] \in Token /\ TokenAlike(k)
    <3>1. token[k] \in Token BY <2>1
    <3>2. token'[k] = [token[k] EXCEPT !.used = TRUE] \/ token'[k] = token[k] BY <2>1, <2>2
    <3> QED BY <3>1, <3>2 DEF Token, TokenAlike
  <2> QED BY <2>1, <2>2, <2>3
<1>4. \A k \in Tokens : LinkHolds(k)'
  BY <1>3 DEF LinkHolds, TypeInv, Registered, Exists, Issued, TokenAlike, Spend
<1>5. UNCHANGED <<now, user, historyVars>> BY DEF Spend
<1>6. /\ chosen' \in [Users -> Passwords \cup {None}]
      /\ proven' \in [Users -> SUBSET Addresses] /\ disturbed' \subseteq Users
  BY <1>5 DEF historyVars, TypeInv, TypeOK
<1>7. CASE req[r].op = "reset"
  <2>1. Becomes(r, "invalidate", req[r]) BY <1>7 DEF Spend, Goto, Becomes, TypeInv, TypeOK
  <2>2. pc'[r] = "invalidate" /\ req'[r] = req[r] /\ Registered' = Registered
    BY <1>5, <2>1 DEF Becomes, TypeInv, TypeOK, Registered, Exists
  <2>3. Holds(r)' /\ "invalidate" \in Steps
    BY <1>1, <1>2, <1>7, <2>2 DEF Holds, InStep, Steps
  <2> QED BY <1>1, <1>3, <1>4, <1>5, <1>6, <1>7, <2>1, <2>3, TypeTokens
<1>8. CASE req[r].op # "reset"
  <2>1. Becomes(r, "idle", NoRequest) BY <1>8 DEF Spend, Finish, Goto, Becomes
  <2>2. Holds(r)' /\ "idle" \in Steps BY <2>1 DEF Becomes, Holds, Steps, TypeInv, TypeOK
  <2> QED BY <1>3, <1>4, <1>5, <1>6, <2>1, <2>2, NothingHeld, TypeTokens
<1> QED BY <1>7, <1>8

LEMMA LastTokenBounded ==
    ASSUME TypeInv PROVE LastToken \in 0 .. MaxTokens /\ IsFiniteSet({k \in Tokens : Issued(k)})
<1>1. MaxTokens \in Nat BY AccountsAssumption
<1>2. IsFiniteSet(Tokens) /\ Cardinality(Tokens) = MaxTokens
  <2>1. 1 \in Int /\ MaxTokens \in Int BY <1>1
  <2>2. IsFiniteSet(1 .. MaxTokens)
        /\ Cardinality(1 .. MaxTokens) = (IF 1 > MaxTokens THEN 0 ELSE MaxTokens - 1 + 1)
    BY <2>1, FS_Interval
  <2> QED BY <1>1, <2>2 DEF Tokens
<1> DEFINE S == {k \in Tokens : Issued(k)}
<1>3. S \subseteq Tokens OBVIOUS
<1> HIDE DEF S
<1>4. IsFiniteSet(S) /\ Cardinality(S) <= MaxTokens /\ Cardinality(S) \in Nat
  BY <1>2, <1>3, FS_Subset, FS_CardinalityType
<1> QED BY <1>1, <1>4 DEF LastToken, S

LEMMA KindsAre == \A op : KindOf(op) \in Kinds
BY DEF KindOf, Kinds

LEMMA InvalidateType ==
    ASSUME TypeInv, NEW r \in Requests, InvalidateAllOfType(r)
    PROVE  /\ TypeInv' /\ Grows /\ UNCHANGED user
           /\ req[r].user \in Registered
           /\ Recorded(req[r].user, Overlaps(r, req[r].user), chosen[req[r].user], proven[req[r].user])
           /\ chosen[req[r].user] \in Passwords \cup {None}
           /\ proven[req[r].user] \in SUBSET Addresses
           /\ \A k \in Tokens : TokenAlike(k)
           /\ \E step \in {"idle", "issue"}, x \in Request :
                 Becomes(r, step, x) /\ (step = "issue" => x = [req[r] EXCEPT !.cut = LastToken])
<1>1. Holds(r) /\ req[r] \in Request /\ pc[r] = "invalidate"
  BY DEF TypeInv, TypeOK, InvalidateAllOfType
<1> DEFINE u == req[r].user
<1>2. u \in Registered /\ u \in Users BY <1>1, RowsAre DEF Holds
<1>3. token' \in [Tokens -> Token] /\ \A k \in Tokens : TokenAlike(k)
  <2>1. token' = [k \in Tokens |->
                   IF token[k].user = u /\ token[k].kind = KindOf(req[r].op)
                   THEN [token[k] EXCEPT !.used = TRUE] ELSE token[k]]
    BY DEF InvalidateAllOfType
  <2>2. ASSUME NEW k \in Tokens PROVE token'[k] \in Token /\ TokenAlike(k)
    <3>1. token[k] \in Token BY RowsAre
    <3>2. token'[k] = [token[k] EXCEPT !.used = TRUE] \/ token'[k] = token[k] BY <2>1
    <3> QED BY <3>1, <3>2 DEF Token, TokenAlike
  <2> QED BY <2>1, <2>2
<1>4. UNCHANGED <<now, user>> BY DEF InvalidateAllOfType
<1>5. \A k \in Tokens : LinkHolds(k)'
  BY <1>3, <1>4 DEF LinkHolds, TypeInv, Registered, Exists, Issued, TokenAlike
<1>6. /\ Recorded(u, Overlaps(r, u), chosen[u], proven[u])
      /\ chosen[u] \in Passwords \cup {None} /\ proven[u] \in SUBSET Addresses
  BY <1>2, Zenon DEF InvalidateAllOfType, TypeInv, TypeOK
<1>7. /\ chosen' \in [Users -> Passwords \cup {None}]
      /\ proven' \in [Users -> SUBSET Addresses] /\ disturbed' \subseteq Users
  <2>1. Overlaps(r, u) \in BOOLEAN BY DEF Overlaps
  <2> QED BY <1>2, <1>6, <2>1, RecordedMeans
<1>8. CASE req[r].op = "reset"
  <2>1. Becomes(r, "idle", NoRequest) BY <1>8 DEF InvalidateAllOfType, Finish, Goto, Becomes
  <2>2. Holds(r)' /\ "idle" \in Steps BY <2>1 DEF Becomes, Holds, Steps, TypeInv, TypeOK
  <2> QED BY <1>2, <1>3, <1>4, <1>5, <1>6, <1>7, <2>1, <2>2, NothingHeld, TypeTokens
<1>9. CASE req[r].op # "reset"
  <2> DEFINE x == [req[r] EXCEPT !.cut = LastToken]
  <2>1. Becomes(r, "issue", x) BY <1>9 DEF InvalidateAllOfType, Goto, Becomes, TypeInv, TypeOK
  <2>2. LastToken \in Tokens \cup {NoToken} BY LastTokenBounded, AccountsAssumption DEF Tokens, NoToken
  <2>3. x \in Request /\ x.op = req[r].op /\ x.user = u /\ x.agg = req[r].agg
    BY <1>1, <2>2 DEF Request
  <2>4. pc'[r] = "issue" /\ req'[r] = x /\ Registered' = Registered
    BY <1>4, <2>1 DEF Becomes, TypeInv, TypeOK, Registered, Exists
  <2> HIDE DEF x
  <2>5. Holds(r)' /\ "issue" \in Steps BY <1>1, <1>2, <1>9, <2>3, <2>4 DEF Holds, InStep, Steps
  <2>6. TypeInv' /\ Grows BY <1>3, <1>4, <1>5, <1>7, <2>1, <2>3, <2>5, TypeTokens
  <2>7. x = [req[r] EXCEPT !.cut = LastToken] BY DEF x
  <2> QED BY <1>2, <1>3, <1>4, <1>6, <2>1, <2>3, <2>6, <2>7
<1> QED BY <1>8, <1>9

LEMMA IssueType ==
    ASSUME TypeInv, NEW r \in Requests, Issue(r)
    PROVE  /\ TypeInv' /\ Grows /\ UNCHANGED <<user, historyVars>> /\ Becomes(r, "idle", NoRequest)
           /\ \E k \in Tokens :
                 /\ IsNext(k) /\ token'[k].user = req[r].user /\ token'[k].kind = KindOf(req[r].op)
                 /\ token'[k].addr = req[r].agg.email /\ token'[k].cut = req[r].cut
                 /\ \A j \in Tokens \ {k} : token'[j] = token[j]
<1>1. Holds(r) /\ req[r] \in Request /\ pc[r] = "issue" BY DEF TypeInv, TypeOK, Issue
<1>2. PICK k \in Tokens : /\ IsNext(k)
         /\ token' = [token EXCEPT ![k] =
                [user |-> req[r].user, kind |-> KindOf(req[r].op), addr |-> req[r].agg.email,
                 expires |-> now + TokenTtl[KindOf(req[r].op)], used |-> FALSE,
                 cut |-> req[r].cut]]
  BY DEF Issue
<1>3. req[r].user \in Registered /\ req[r].user \in Users /\ req[r].agg.email # None
  BY <1>1, RowsAre DEF Holds
<1>4. now + TokenTtl[KindOf(req[r].op)] \in Nat
  <2>1. TokenTtl[KindOf(req[r].op)] \in Nat BY KindsAre, AccountsAssumption
  <2>2. now \in Nat BY AccountsAssumption DEF TypeInv, TypeOK
  <2> QED BY <2>1, <2>2
<1>5. token' \in [Tokens -> Token] /\ token'[k].user = req[r].user /\ token'[k].kind = KindOf(req[r].op)
      /\ token'[k].addr = req[r].agg.email /\ token'[k].cut = req[r].cut
      /\ \A j \in Tokens \ {k} : token'[j] = token[j]
  BY <1>1, <1>2, <1>3, <1>4, KindsAre DEF TypeInv, TypeOK, Token, Request, Row
<1>6. UNCHANGED <<now, user, historyVars>> /\ Becomes(r, "idle", NoRequest)
  BY DEF Issue, Finish, Goto, Becomes
<1>7. \A j \in Tokens : Issued(j) => TokenAlike(j)
  BY <1>2, <1>5 DEF IsNext, TokenAlike
<1>8. \A j \in Tokens : LinkHolds(j)'
  BY <1>3, <1>5, <1>6 DEF LinkHolds, TypeInv, Registered, Exists, Issued
<1>9. Holds(r)' /\ "idle" \in Steps BY <1>6 DEF Becomes, Holds, Steps, TypeInv, TypeOK
<1>10. /\ chosen' \in [Users -> Passwords \cup {None}]
       /\ proven' \in [Users -> SUBSET Addresses] /\ disturbed' \subseteq Users
  BY <1>6 DEF historyVars, TypeInv, TypeOK
<1>11. TypeInv' /\ Grows
  BY <1>5, <1>6, <1>7, <1>8, <1>9, <1>10, NothingHeld, TypeTokens
<1> QED BY <1>2, <1>5, <1>6, <1>11

LEMMA FailType ==
    ASSUME TypeInv, NEW r \in Requests, Fail(r)
    PROVE  /\ TypeInv' /\ Grows /\ Becomes(r, "idle", NoRequest) /\ UNCHANGED <<now, user, token>>
           /\ IF pc[r] = "invalidate" /\ req[r].op = "email"
              THEN /\ req[r].user \in Registered
                   /\ Recorded(req[r].user, TRUE, chosen[req[r].user], proven[req[r].user])
                   /\ chosen[req[r].user] \in Passwords \cup {None}
                   /\ proven[req[r].user] \in SUBSET Addresses
              ELSE UNCHANGED historyVars
<1>1. Becomes(r, "idle", NoRequest) /\ UNCHANGED <<now, user, token>>
  BY DEF Fail, Finish, Goto, Becomes
<1>2. Holds(r)' /\ "idle" \in Steps BY <1>1 DEF Becomes, Holds, Steps, TypeInv, TypeOK
<1>3. token' \in [Tokens -> Token] /\ \A k \in Tokens : TokenAlike(k) /\ LinkHolds(k)'
  BY <1>1 DEF TypeInv, TypeOK, TokenAlike, LinkHolds, Registered, Exists, Issued
<1>4. CASE pc[r] = "invalidate" /\ req[r].op = "email"
  <2>1. req[r].user \in Registered /\ req[r].user \in Users BY <1>4, RowsAre DEF TypeInv, Holds
  <2>2. Recorded(req[r].user, TRUE, chosen[req[r].user], proven[req[r].user]) BY <1>4 DEF Fail
  <2>3. /\ chosen[req[r].user] \in Passwords \cup {None}
        /\ proven[req[r].user] \in SUBSET Addresses
    BY <2>1 DEF TypeInv, TypeOK
  <2>4. /\ chosen' \in [Users -> Passwords \cup {None}]
        /\ proven' \in [Users -> SUBSET Addresses] /\ disturbed' \subseteq Users
    BY <2>1, <2>2, <2>3, RecordedMeans
  <2> QED BY <1>1, <1>2, <1>3, <1>4, <2>1, <2>2, <2>3, <2>4, NothingHeld, TypeTokens
<1>5. CASE ~(pc[r] = "invalidate" /\ req[r].op = "email")
  <2>1. UNCHANGED historyVars BY <1>5 DEF Fail
  <2>2. /\ chosen' \in [Users -> Passwords \cup {None}]
        /\ proven' \in [Users -> SUBSET Addresses] /\ disturbed' \subseteq Users
    BY <2>1 DEF historyVars, TypeInv, TypeOK
  <2> QED BY <1>1, <1>2, <1>3, <1>5, <2>1, <2>2, NothingHeld, TypeTokens
<1> QED BY <1>4, <1>5

(* A step that stores no link and lets no request go on to store one. *)
StoresNone ==
    /\ \A k \in Tokens : Issued(k)' => Issued(k)
    /\ \A q \in Requests : pc'[q] = "issue" => pc[q] = "issue" /\ req'[q] = req[q]

LEMMA BecomesStoresNone ==
    ASSUME TypeInv, NEW r \in Requests, NEW step, NEW x, Becomes(r, step, x), step # "issue",
           UNCHANGED token
    PROVE  StoresNone
<1>1. /\ \A q \in Requests \ {r} : pc'[q] = pc[q] /\ req'[q] = req[q]
      /\ pc'[r] = step
  BY DEF Becomes, TypeInv, TypeOK
<1> QED BY <1>1 DEF StoresNone, Issued

LEMMA FinishStep ==
    ASSUME TypeInv, NEW r \in Requests, Finish(r), UNCHANGED <<now, user, token, historyVars>>
    PROVE  TypeInv' /\ Grows /\ StoresNone /\ Becomes(r, "idle", NoRequest)
<1>1. Becomes(r, "idle", NoRequest) BY DEF Finish, Goto, Becomes
<1>2. Reads BY DEF Reads
<1> QED BY <1>1, <1>2, TypeFinish, BecomesStoresNone

(* What a step of one request keeps. *)
LEMMA StepTypes ==
    ASSUME TypeInv, NEW r \in Requests, Begin(r) \/ Continue(r) \/ Fail(r)
    PROVE  TypeInv' /\ Grows /\ (InvalidateAllOfType(r) \/ Issue(r) \/ StoresNone)
<1>1. ASSUME NEW step \in Steps, NEW x \in Request, Reads, Becomes(r, step, x), Opens(r, step, x)
      PROVE  TypeInv' /\ Grows /\ StoresNone
  <2>1. step # "issue" /\ UNCHANGED token BY <1>1 DEF Opens, Reads
  <2> QED BY <1>1, <2>1, OpensType, BecomesStoresNone
<1>2. CASE Begin(r) BY <1>1, <1>2, BeginOpens
<1>3. CASE FindByEmail(r) \/ ReadToVerify(r) \/ ReadToReset(r)
  <2>1. CASE Finish(r)
    <3>1. UNCHANGED <<now, user, token, historyVars>> BY <1>3, ReadsOpen DEF Reads
    <3> QED BY <2>1, <3>1, FinishStep
  <2>2. CASE ~Finish(r) BY <1>1, <1>3, <2>2, ReadsOpen
  <2> QED BY <2>1, <2>2
<1>4. CASE CheckUnique(r)
  <2>1. CASE Finish(r)
    <3>1. UNCHANGED <<now, user, token, historyVars>> BY <1>4 DEF CheckUnique, Reads
    <3> QED BY <2>1, <3>1, FinishStep
  <2>2. CASE ~Finish(r)
    <3>1. TypeInv' /\ Grows /\ Becomes(r, "load", req[r]) /\ UNCHANGED token
      BY <1>4, <2>2, CheckUniqueType DEF Reads
    <3> QED BY <3>1, BecomesStoresNone
  <2> QED BY <2>1, <2>2
<1>5. CASE Load(r)
  <2>1. /\ TypeInv' /\ Grows /\ UNCHANGED token
        /\ Becomes(r, "write", [req[r] EXCEPT !.row = [user[req[r].user] EXCEPT !.password = None]])
    BY <1>5, LoadType DEF Reads
  <2> QED BY <2>1, BecomesStoresNone
<1>6. ASSUME NEW u, NEW row, MaySave(r, u, row), Saved(r, u, row), UNCHANGED <<now, token>>
      PROVE  TypeInv' /\ Grows /\ StoresNone
  <2>1. TypeInv' /\ Grows BY <1>6, SavedMeans
  <2>2. PICK step \in {"idle", "spend", "invalidate"}, x \in Request : Becomes(r, step, x)
    BY <1>6, SavedMeans
  <2> QED BY <1>6, <2>1, <2>2, BecomesStoresNone
<1>7. CASE Insert(r)
  <2>1. CASE Finish(r) /\ UNCHANGED <<user, historyVars>>
    <3>1. UNCHANGED <<now, user, token, historyVars>> BY <1>7, <2>1 DEF Insert
    <3> QED BY <2>1, <3>1, FinishStep
  <2>2. CASE \E u \in Users : ~Exists(u) /\ Saved(r, u, req[r].agg)
    <3>1. pc[r] = "insert" /\ UNCHANGED <<now, token>> BY <1>7 DEF Insert
    <3> QED BY <1>6, <2>2, <3>1, InsertMay
  <2> QED BY <1>7, <2>1, <2>2 DEF Insert
<1>8. CASE Write(r)
  <2>1. CASE Finish(r) /\ UNCHANGED <<user, historyVars>>
    <3>1. UNCHANGED <<now, user, token, historyVars>> BY <1>8, <2>1 DEF Write
    <3> QED BY <2>1, <3>1, FinishStep
  <2>2. CASE Saved(r, req[r].user, Merged(req[r].agg, req[r].row, user[req[r].user]))
    <3>1. pc[r] = "write" /\ UNCHANGED <<now, token>> BY <1>8 DEF Write
    <3> QED BY <1>6, <2>2, <3>1, WriteMay
  <2> QED BY <1>8, <2>1, <2>2 DEF Write
<1>9. CASE Spend(r)
  <2>1. TypeInv' /\ Grows /\ \A k \in Tokens : TokenAlike(k) BY <1>9, SpendType
  <2>2. PICK step \in {"idle", "invalidate"}, x \in Request : Becomes(r, step, x) BY <1>9, SpendType
  <2>3. \A k \in Tokens : Issued(k)' => Issued(k) BY <2>1 DEF Issued, TokenAlike
  <2>4. /\ \A q \in Requests \ {r} : pc'[q] = pc[q] /\ req'[q] = req[q]
        /\ pc'[r] = step
    BY <2>2 DEF Becomes, TypeInv, TypeOK
  <2> QED BY <2>1, <2>3, <2>4 DEF StoresNone
<1>10. CASE InvalidateAllOfType(r) BY <1>10, InvalidateType
<1>11. CASE Issue(r) BY <1>11, IssueType
<1>12. CASE Fail(r)
  <2>1. TypeInv' /\ Grows /\ Becomes(r, "idle", NoRequest) /\ UNCHANGED token BY <1>12, FailType
  <2> QED BY <2>1, BecomesStoresNone
<1> QED BY <1>2, <1>3, <1>4, <1>5, <1>7, <1>8, <1>9, <1>10, <1>11, <1>12 DEF Continue

(* Nothing happens, or only time passes. *)
Waits == /\ now' = now \/ (now < MaxTime /\ now' = now + 1)
         /\ UNCHANGED <<user, token, pc, req, historyVars>>

LEMMA WaitTypes ==
    ASSUME TypeInv, Waits PROVE TypeInv' /\ Grows /\ StoresNone
<1>1. TypeOK' BY AccountsAssumption DEF TypeInv, TypeOK, Waits, historyVars
<1>2. Grows /\ StoresNone BY DEF Grows, StoresNone, Waits, Registered, Exists, Issued
<1>3. \A r \in Requests : Holds(r)'
  BY DEF TypeInv, Holds, Waits, Registered, Exists, Issued
<1>4. \A k \in Tokens : LinkHolds(k)' BY DEF TypeInv, LinkHolds, Waits, Registered, Exists, Issued
<1> QED BY <1>1, <1>2, <1>3, <1>4 DEF TypeInv

LEMMA EachStep ==
    ASSUME [Next]_vars
    PROVE  Waits \/ \E r \in Requests : Begin(r) \/ Continue(r) \/ Fail(r)
BY DEF Next, vars, Tick, Waits, historyVars

LEMMA TypeInit == Init => TypeInv
<1> SUFFICES ASSUME Init PROVE TypeInv OBVIOUS
<1>1. TypeOK
  <2>1. now \in 0 .. MaxTime BY AccountsAssumption DEF Init
  <2>2. user \in [Users -> Row] BY NothingHeld DEF Init
  <2>3. token \in [Tokens -> Token] BY DEF Init, BlankToken, Token, Kinds, NoToken
  <2>4. req \in [Requests -> Request] BY NothingHeld DEF Init
  <2> QED BY <2>1, <2>2, <2>3, <2>4 DEF Init, TypeOK
<1>2. \A r \in Requests : Holds(r) BY DEF Init, Holds
<1>3. \A k \in Tokens : LinkHolds(k) BY DEF Init, LinkHolds, Issued, BlankToken
<1> QED BY <1>1, <1>2, <1>3 DEF TypeInv

LEMMA TypeStep == TypeInv /\ [Next]_vars => TypeInv'
BY EachStep, StepTypes, WaitTypes

(* Every variable keeps its type; what is more, a request past its first     *)
(* query holds a registered account or none at all, the link it follows is   *)
(* that account's, and every stored link belongs to a registered account.    *)
THEOREM TypeCorrect == Spec => []TypeInv
BY TypeInit, TypeStep, PTL DEF Spec

-----------------------------------------------------------------------------
(* As long as no requests overlap on an account, what one of them read of it *)
(* is still so.                                                              *)
Fresh(r) ==
    LET u == req[r].user
        agg == req[r].agg
    IN  pc[r] \in {"unique", "load", "write"} /\ u \notin disturbed =>
          /\ req[r].op \notin {"reset", "password"} => agg.password = user[u].password
          /\ req[r].op # "email" => agg.email = user[u].email
          /\ req[r].op = "email" => ~agg.verified
          /\ req[r].op \notin {"email", "verify", "google"} => agg.verified = user[u].verified
          /\ pc[r] = "write" => /\ req[r].row.email = user[u].email
                                /\ req[r].row.verified = user[u].verified

(* The address of u has changed, its old links are not invalidated yet. *)
Moving(u) == \E q \in Requests : pc[q] = "invalidate" /\ req[q].op = "email" /\ req[q].user = u

(* Links that can still verify were mailed to the present address. *)
LinkIsCurrent(k) ==
    LET u == token[k].user
    IN  /\ Issued(k) /\ ~token[k].used /\ token[k].kind = "email_verification"
        /\ u \notin disturbed /\ ~Moving(u)
        => token[k].addr = user[u].email
VerifiesCurrent(r) ==
    LET u == req[r].user
    IN  /\ req[r].op = "verify" /\ pc[r] \in {"read", "load", "write"} /\ (pc[r] = "read" => req[r].usable)
        /\ u \notin disturbed /\ ~Moving(u)
        => token[req[r].token].addr = user[u].email
MailsCurrent(r) ==
    /\ pc[r] \in {"invalidate", "issue"} /\ req[r].op \in {"register", "email", "resend"}
    /\ req[r].user \notin disturbed
    => req[r].agg.email = user[req[r].user].email

AccountInv ==
    /\ \A r \in Requests : Fresh(r) /\ VerifiesCurrent(r) /\ MailsCurrent(r)
    /\ \A k \in Tokens : LinkIsCurrent(k)
    /\ VerifiedIsProven /\ PasswordIsTheLastChosen

(* Nothing was done to the account v, or v is disturbed now. *)
SameAccount(v) ==
    /\ user'[v] = user[v]
    /\ v \in disturbed => v \in disturbed'
    /\ v \notin disturbed' => /\ chosen'[v] = chosen[v] /\ proven'[v] = proven[v]
                              /\ Moving(v) => Moving(v)'

(* What a step must leave behind on an account it saves or invalidates for.  *)
Settled(r, u) ==
    \/ u \in disturbed'
    \/ /\ \A q \in Requests \ {r} : ~Working(q, u)
       /\ \A k \in Tokens : Issued(k) /\ token[k].user = u => LinkIsCurrent(k)'
       /\ user'[u].verified => user'[u].email \in proven'[u]
       /\ user'[u].password = chosen'[u]

LEMMA KeepsAccounts ==
    ASSUME TypeInv, Grows, AccountInv,
           NEW r \in Requests, NEW step, NEW x, Becomes(r, step, x),
           NEW U \in SUBSET Users, \A u \in U : Settled(r, u),
           \A v \in Registered \ U : SameAccount(v), Registered' \subseteq Registered \cup U,
           Fresh(r)', VerifiesCurrent(r)', MailsCurrent(r)',
           \A k \in Tokens : ~Issued(k) /\ Issued(k)' => LinkIsCurrent(k)'
    PROVE  AccountInv'
<1>1. ASSUME NEW q \in Requests, q # r PROVE Fresh(q)' /\ VerifiesCurrent(q)' /\ MailsCurrent(q)'
  <2>1. pc'[q] = pc[q] /\ req'[q] = req[q] BY <1>1, OthersHold
  <2>2. CASE pc[q] \in {"idle", "find", "insert", "spend"}
    BY <2>1, <2>2 DEF Fresh, VerifiesCurrent, MailsCurrent
  <2>3. CASE pc[q] \notin {"idle", "find", "insert", "spend"}
    <3>1. PICK v \in Registered : v = req[q].user BY <2>3 DEF TypeInv, Holds
    <3>2. Working(q, v) BY <2>3, <3>1 DEF Working
    <3>3. CASE v \in disturbed'
      BY <2>1, <3>1, <3>3 DEF Fresh, VerifiesCurrent, MailsCurrent
    <3>4. CASE v \notin disturbed'
      <4>1. SameAccount(v)
        <5>1. v \notin U BY <1>1, <3>2, <3>4 DEF Settled
        <5> QED BY <5>1
      <4>2. v \notin disturbed /\ user'[v] = user[v] /\ (Moving(v) => Moving(v)')
        BY <3>4, <4>1 DEF SameAccount
      <4>3. Fresh(q) /\ VerifiesCurrent(q) /\ MailsCurrent(q) BY DEF AccountInv
      <4>4. Fresh(q)' BY <2>1, <3>1, <4>2, <4>3 DEF Fresh
      <4>5. VerifiesCurrent(q)'
        <5>1. SUFFICES ASSUME req[q].op = "verify", pc[q] \in {"read", "load", "write"},
                              pc[q] = "read" => req[q].usable, ~Moving(v)'
                       PROVE  token'[req[q].token].addr = user'[v].email
          BY <2>1, <3>1 DEF VerifiesCurrent, Moving
        <5>2. token[req[q].token].addr = user[v].email
          BY <3>1, <4>2, <4>3, <5>1 DEF VerifiesCurrent
        <5>3. req[q].token \in Tokens /\ Issued(req[q].token) BY <5>1 DEF TypeInv, Holds
        <5> QED BY <4>2, <5>2, <5>3 DEF Grows
      <4>6. MailsCurrent(q)' BY <2>1, <3>1, <4>2, <4>3 DEF MailsCurrent
      <4> QED BY <4>4, <4>5, <4>6
    <3> QED BY <3>3, <3>4
  <2> QED BY <2>2, <2>3
<1>2. ASSUME NEW k \in Tokens PROVE LinkIsCurrent(k)'
  <2>1. CASE ~Issued(k) BY <2>1 DEF LinkIsCurrent
  <2>2. CASE Issued(k)
    <3>1. PICK v \in Registered : v = token[k].user BY <2>2 DEF TypeInv, LinkHolds
    <3>2. /\ token'[k].user = v /\ token'[k].kind = token[k].kind /\ token'[k].addr = token[k].addr
          /\ token[k].used => token'[k].used
      BY <2>2, <3>1 DEF Grows
    <3>3. CASE v \in disturbed' BY <3>2, <3>3 DEF LinkIsCurrent
    <3>4. CASE v \notin disturbed' /\ v \in U BY <2>2, <3>1, <3>4 DEF Settled
    <3>5. CASE v \notin disturbed' /\ v \notin U
      <4>1. v \notin disturbed /\ user'[v] = user[v] /\ (Moving(v) => Moving(v)')
        BY <3>5 DEF SameAccount
      <4>2. SUFFICES ASSUME ~token'[k].used, token[k].kind = "email_verification", ~Moving(v)'
                     PROVE  token'[k].addr = user'[v].email
        BY <3>2 DEF LinkIsCurrent, Moving
      <4>3. token[k].addr = user[v].email
        BY <2>2, <3>1, <3>2, <4>1, <4>2 DEF AccountInv, LinkIsCurrent
      <4> QED BY <3>2, <4>1, <4>3
    <3> QED BY <3>3, <3>4, <3>5
  <2> QED BY <2>1, <2>2
<1>3. ASSUME NEW v \in Users, v \in Registered', v \notin disturbed'
      PROVE  (user'[v].verified => user'[v].email \in proven'[v]) /\ user'[v].password = chosen'[v]
  <2>1. CASE v \in U BY <1>3, <2>1 DEF Settled
  <2>2. CASE v \notin U
    <3>1. v \in Registered /\ SameAccount(v) BY <1>3, <2>2
    <3> QED BY <1>3, <3>1 DEF SameAccount, AccountInv, VerifiedIsProven, PasswordIsTheLastChosen
  <2> QED BY <2>1, <2>2
<1>4. VerifiedIsProven' /\ PasswordIsTheLastChosen'
  BY <1>3 DEF VerifiedIsProven, PasswordIsTheLastChosen, Registered
<1> QED BY <1>1, <1>2, <1>4 DEF AccountInv

(* An account goes on moving until the request that moves it is done. *)
LEMMA GoesOnMoving ==
    ASSUME TypeInv, NEW r \in Requests, NEW step, NEW x, Becomes(r, step, x), NEW v, Moving(v),
           ~(pc[r] = "invalidate" /\ req[r].op = "email" /\ req[r].user = v)
    PROVE  Moving(v)'
<1>1. \A q \in Requests \ {r} : pc'[q] = pc[q] /\ req'[q] = req[q] BY DEF Becomes, TypeInv, TypeOK
<1> QED BY <1>1 DEF Moving

(* A step that changes no account, and of the links at most `used`, or adds  *)
(* one mailed to the present address.                                        *)
LEMMA QuietAccounts ==
    ASSUME TypeInv, Grows, AccountInv, UNCHANGED <<user, historyVars>>,
           NEW r \in Requests, NEW step, NEW x, Becomes(r, step, x),
           ~(pc[r] = "invalidate" /\ req[r].op = "email"),
           Fresh(r)', VerifiesCurrent(r)', MailsCurrent(r)',
           \A k \in Tokens : ~Issued(k) /\ Issued(k)' => LinkIsCurrent(k)'
    PROVE  AccountInv'
<1>1. ASSUME NEW v \in Registered PROVE SameAccount(v)
  <2>1. Moving(v) => Moving(v)' BY GoesOnMoving
  <2> QED BY <2>1 DEF SameAccount, historyVars
<1>2. Registered' = Registered BY DEF Registered, Exists
<1> DEFINE U == {}
<1>3. U \in SUBSET Users /\ (\A u \in U : Settled(r, u)) /\ (\A v \in Registered \ U : SameAccount(v))
      /\ Registered' \subseteq Registered \cup U
  BY <1>1, <1>2
<1> HIDE DEF U
<1> QED BY <1>3, KeepsAccounts

LEMMA FinishAccounts ==
    ASSUME TypeInv, Grows, AccountInv, UNCHANGED <<user, token, historyVars>>,
           NEW r \in Requests, Becomes(r, "idle", NoRequest), ~(pc[r] = "invalidate" /\ req[r].op = "email")
    PROVE  AccountInv'
<1>1. pc'[r] = "idle" BY DEF Becomes, TypeInv, TypeOK
<1>2. Fresh(r)' /\ VerifiesCurrent(r)' /\ MailsCurrent(r)'
  BY <1>1 DEF Fresh, VerifiesCurrent, MailsCurrent
<1>3. \A k \in Tokens : Issued(k)' => Issued(k) BY DEF Issued
<1> QED BY <1>1, <1>2, <1>3, QuietAccounts

LEMMA OpensAccounts ==
    ASSUME TypeInv, AccountInv, NEW r \in Requests, Reads, pc[r] \in {"idle", "find", "read"},
           NEW step \in Steps, NEW x \in Request, Becomes(r, step, x), Opens(r, step, x)
    PROVE  AccountInv'
<1>1. pc'[r] = step /\ req'[r] = x BY DEF Becomes, TypeInv, TypeOK
<1>2. UNCHANGED <<user, token, historyVars>> /\ Grows /\ disturbed' = disturbed
  BY OpensType DEF Reads, historyVars
<1>3. Fresh(r)' BY <1>1, <1>2 DEF Fresh, Opens
<1>4. MailsCurrent(r)' BY <1>1, <1>2 DEF MailsCurrent, Opens
<1>5. VerifiesCurrent(r)'
  <2> DEFINE u == x.user
  <2>1. SUFFICES ASSUME x.op = "verify", step \in {"read", "load"}, step = "read" => x.usable,
                        u \notin disturbed, ~Moving(u)'
                 PROVE  token[x.token].addr = user[u].email
    BY <1>1, <1>2 DEF VerifiesCurrent, Opens, Moving
  <2>2. ~Moving(u)
    <3>1. \A v : Moving(v) => Moving(v)' BY GoesOnMoving
    <3>2. PICK v : v = u OBVIOUS
    <3>3. ~Moving(v)' BY <1>1, <2>1, <3>2 DEF Moving
    <3> QED BY <3>1, <3>2, <3>3
  <2>3. CASE step = "read"
    <3>1. /\ x.token \in Tokens /\ token[x.token].user = u /\ Usable(x.token)
          /\ token[x.token].kind = "email_verification"
      BY <2>1, <2>3 DEF Opens
    <3>2. LinkIsCurrent(x.token) BY <3>1 DEF AccountInv
    <3> QED BY <2>1, <2>2, <3>1, <3>2 DEF LinkIsCurrent, Usable
  <2>4. CASE step = "load"
    <3>1. /\ pc[r] = "read" /\ req[r].op = "verify" /\ req[r].usable
          /\ req[r].user = u /\ req[r].token = x.token
      BY <2>1, <2>4 DEF Opens
    <3>2. VerifiesCurrent(r) BY DEF AccountInv
    <3> QED BY <2>1, <2>2, <3>1, <3>2 DEF VerifiesCurrent
  <2> QED BY <2>1, <2>3, <2>4
<1>6. \A k \in Tokens : Issued(k)' => Issued(k) BY <1>2 DEF Issued
<1> QED BY <1>2, <1>3, <1>4, <1>5, <1>6, QuietAccounts

LEMMA CheckUniqueAccounts ==
    ASSUME TypeInv, AccountInv, NEW r \in Requests, CheckUnique(r), ~Finish(r)
    PROVE  AccountInv'
<1>1. TypeInv' /\ Grows /\ Reads /\ pc[r] = "unique" /\ Becomes(r, "load", req[r]) BY CheckUniqueType
<1>2. pc'[r] = "load" /\ req'[r] = req[r] BY <1>1 DEF Becomes, TypeInv, TypeOK
<1>3. UNCHANGED <<user, token, historyVars>> /\ disturbed' = disturbed BY <1>1 DEF Reads, historyVars
<1>4. Fresh(r) /\ req[r].op = "email" BY <1>1 DEF AccountInv, TypeInv, Holds, InStep
<1>5. Fresh(r)' /\ VerifiesCurrent(r)' /\ MailsCurrent(r)'
  BY <1>1, <1>2, <1>3, <1>4 DEF Fresh, VerifiesCurrent, MailsCurrent
<1>6. \A k \in Tokens : Issued(k)' => Issued(k) BY <1>3 DEF Issued
<1> QED BY <1>1, <1>3, <1>5, <1>6, QuietAccounts

LEMMA LoadAccounts ==
    ASSUME TypeInv, AccountInv, NEW r \in Requests, Load(r)
    PROVE  AccountInv'
<1> DEFINE row == [user[req[r].user] EXCEPT !.password = None]
           x == [req[r] EXCEPT !.row = row]
<1>1. TypeInv' /\ Grows /\ Reads /\ pc[r] = "load" /\ Becomes(r, "write", x) BY LoadType
<1>2. Holds(r) /\ req[r] \in Request /\ Fresh(r) /\ VerifiesCurrent(r) BY DEF TypeInv, TypeOK, AccountInv
<1>3. row.email = user[req[r].user].email /\ row.verified = user[req[r].user].verified
  BY <1>1, <1>2, RowsAre DEF Holds, Row
<1> HIDE DEF row
<1>4. x.op = req[r].op /\ x.user = req[r].user /\ x.agg = req[r].agg /\ x.token = req[r].token
      /\ x.row = row /\ x.usable = req[r].usable
  BY <1>2 DEF Request
<1> HIDE DEF x
<1>5. pc'[r] = "write" /\ req'[r] = x BY <1>1 DEF Becomes, TypeInv, TypeOK
<1>6. UNCHANGED <<user, token, historyVars>> /\ disturbed' = disturbed BY <1>1 DEF Reads, historyVars
<1>7. Fresh(r)' /\ MailsCurrent(r)'
  BY <1>1, <1>2, <1>3, <1>4, <1>5, <1>6 DEF Fresh, MailsCurrent
<1>8. VerifiesCurrent(r)'
  <2>1. PICK v : v = req[r].user OBVIOUS
  <2>2. Moving(v) => Moving(v)' BY <1>1, GoesOnMoving
  <2>3. SUFFICES ASSUME req[r].op = "verify", v \notin disturbed, ~Moving(v)'
                 PROVE  token[req[r].token].addr = user[v].email
    BY <1>4, <1>5, <1>6, <2>1 DEF VerifiesCurrent, Moving
  <2> QED BY <1>1, <1>2, <2>1, <2>2, <2>3 DEF VerifiesCurrent
<1>9. \A k \in Tokens : Issued(k)' => Issued(k) BY <1>6 DEF Issued
<1> QED BY <1>1, <1>6, <1>7, <1>8, <1>9, QuietAccounts

LEMMA SpendAccounts ==
    ASSUME TypeInv, AccountInv, NEW r \in Requests, Spend(r)
    PROVE  AccountInv'
<1>1. TypeInv' /\ Grows /\ UNCHANGED <<user, historyVars>> /\ \A k \in Tokens : TokenAlike(k) BY SpendType
<1>2. PICK step \in {"idle", "invalidate"}, x \in Request :
        Becomes(r, step, x) /\ (step = "invalidate" => x = req[r] /\ x.op = "reset")
  BY SpendType
<1>3. pc'[r] = step /\ req'[r] = x BY <1>2 DEF Becomes, TypeInv, TypeOK
<1>4. Fresh(r)' /\ VerifiesCurrent(r)' /\ MailsCurrent(r)'
  BY <1>2, <1>3 DEF Fresh, VerifiesCurrent, MailsCurrent
<1>5. \A k \in Tokens : Issued(k)' => Issued(k) BY <1>1 DEF Issued, TokenAlike
<1>6. pc[r] = "spend" BY DEF Spend
<1> QED BY <1>1, <1>2, <1>4, <1>5, <1>6, QuietAccounts

LEMMA IssueAccounts ==
    ASSUME TypeInv, AccountInv, NEW r \in Requests, Issue(r)
    PROVE  AccountInv'
<1>1. TypeInv' /\ Grows /\ UNCHANGED <<user, historyVars>> /\ Becomes(r, "idle", NoRequest) BY IssueType
<1>2. PICK k \in Tokens :
                 /\ IsNext(k) /\ token'[k].user = req[r].user /\ token'[k].kind = KindOf(req[r].op)
                 /\ token'[k].addr = req[r].agg.email /\ token'[k].cut = req[r].cut
                 /\ \A j \in Tokens \ {k} : token'[j] = token[j]
  BY IssueType
<1>3. pc[r] = "issue" /\ Holds(r) /\ MailsCurrent(r) BY DEF Issue, TypeInv, AccountInv
<1>4. pc'[r] = "idle" BY <1>1 DEF Becomes, TypeInv, TypeOK
<1>5. Fresh(r)' /\ VerifiesCurrent(r)' /\ MailsCurrent(r)'
  BY <1>4 DEF Fresh, VerifiesCurrent, MailsCurrent
<1>6. ASSUME NEW j \in Tokens, ~Issued(j), Issued(j)' PROVE LinkIsCurrent(j)'
  <2>1. j = k BY <1>2, <1>6 DEF Issued
  <2>2. SUFFICES ASSUME KindOf(req[r].op) = "email_verification", req[r].user \notin disturbed
                 PROVE  req[r].agg.email = user[req[r].user].email
    BY <1>1, <1>2, <2>1 DEF LinkIsCurrent, historyVars
  <2>3. req[r].op \in {"register", "email", "resend"} BY <1>3, <2>2 DEF Holds, InStep, KindOf
  <2> QED BY <1>3, <2>2, <2>3 DEF MailsCurrent
<1> QED BY <1>1, <1>3, <1>5, <1>6, QuietAccounts

(* The steps that change an account, or end what a change began. *)
LEMMA ElseSame ==
    ASSUME TypeInv, NEW r \in Requests, NEW step, NEW x, Becomes(r, step, x), NEW u \in Users,
           NEW disturbs \in BOOLEAN, NEW c \in Passwords \cup {None}, NEW p \in SUBSET Addresses,
           Recorded(u, disturbs, c, p), \A v \in Users \ {u} : user'[v] = user[v],
           pc[r] = "invalidate" => req[r].user = u
    PROVE  /\ \A v \in Registered \ {u} : SameAccount(v)
           /\ Registered' \subseteq Registered \cup {u}
<1>1. ASSUME NEW v \in Registered, v # u PROVE SameAccount(v)
  <2>1. v \in Users BY DEF Registered
  <2>2. Moving(v) => Moving(v)' BY <1>1, GoesOnMoving
  <2> QED BY <1>1, <2>1, <2>2, RecordedMeans DEF SameAccount
<1> QED BY <1>1 DEF Registered, Exists

(* A save that no other request overlaps. *)
LEMMA SavedAccounts ==
    ASSUME TypeInv, AccountInv, NEW r \in Requests, NEW u, NEW row, MaySave(r, u, row),
           Saved(r, u, row), UNCHANGED <<now, token>>, pc[r] \in {"insert", "write"},
           u \notin disturbed' => /\ row.verified => row.email \in ProvenBy(r, u)
                                  /\ row.password = PasswordOf(r, u)
                                  /\ Exists(u) => row.email = user[u].email \/ req[r].op = "email"
    PROVE  AccountInv'
<1>1. /\ TypeInv' /\ Grows /\ user' = [user EXCEPT ![u] = row]
      /\ Recorded(u, Overlaps(r, u), PasswordOf(r, u), ProvenBy(r, u))
      /\ PasswordOf(r, u) \in Passwords \cup {None} /\ ProvenBy(r, u) \in SUBSET Addresses
  BY SavedMeans
<1>2. PICK step \in {"idle", "spend", "invalidate"}, x \in Request :
        /\ Becomes(r, step, x)
        /\ step # "idle" => x.op = req[r].op /\ x.user = u /\ x.agg.email = row.email
        /\ step = "invalidate" <=> req[r].op \in {"register", "email"}
  BY SavedMeans
<1>3. pc'[r] = step /\ req'[r] = x BY <1>2 DEF Becomes, TypeInv, TypeOK
<1>4. u \in Users /\ Overlaps(r, u) \in BOOLEAN BY DEF MaySave, Overlaps
<1>5. user'[u] = row /\ \A v \in Users \ {u} : user'[v] = user[v] BY <1>1, <1>4 DEF TypeInv, TypeOK
<1>6. (\A v \in Registered \ {u} : SameAccount(v)) /\ Registered' \subseteq Registered \cup {u}
  BY <1>1, <1>2, <1>4, <1>5, ElseSame
<1>7. Fresh(r)' /\ VerifiesCurrent(r)' /\ MailsCurrent(r)'
  BY <1>2, <1>3, <1>5 DEF Fresh, VerifiesCurrent, MailsCurrent
<1>8. Settled(r, u)
  <2>1. SUFFICES ASSUME u \notin disturbed' PROVE Settled(r, u) BY DEF Settled
  <2>2. /\ ~Overlaps(r, u) /\ u \notin disturbed
        /\ chosen'[u] = PasswordOf(r, u) /\ proven'[u] = ProvenBy(r, u)
    BY <1>1, <1>4, <2>1, RecordedMeans
  <2>3. \A q \in Requests \ {r} : ~Working(q, u) BY <2>2 DEF Overlaps
  <2>4. ASSUME NEW k \in Tokens, Issued(k), token[k].user = u PROVE LinkIsCurrent(k)'
    <3>1. SUFFICES ASSUME ~token[k].used, token[k].kind = "email_verification", ~Moving(u)'
                   PROVE  token[k].addr = row.email
      BY <1>5, <2>4 DEF LinkIsCurrent, Moving
    <3>2. Exists(u) BY <2>4 DEF TypeInv, LinkHolds, Registered
    <3>3. req[r].op # "email" BY <1>2, <1>3, <3>1 DEF Moving
    <3>4. ~Moving(u) BY <2>3 DEF Moving, Working
    <3>5. token[k].addr = user[u].email
      BY <2>2, <2>4, <3>1, <3>4 DEF AccountInv, LinkIsCurrent
    <3> QED BY <2>1, <3>2, <3>3, <3>5
  <2> QED BY <1>5, <2>1, <2>2, <2>3, <2>4 DEF Settled
<1>9. \A k \in Tokens : Issued(k)' => Issued(k) BY DEF Issued
<1>10. {u} \in SUBSET Users /\ \A v \in {u} : Settled(r, v) BY <1>4, <1>8
<1> QED BY <1>1, <1>2, <1>6, <1>7, <1>9, <1>10, KeepsAccounts

LEMMA InsertAccounts ==
    ASSUME TypeInv, AccountInv, NEW r \in Requests, Insert(r),
           NEW u \in Users, ~Exists(u), Saved(r, u, req[r].agg)
    PROVE  AccountInv'
<1>2. pc[r] = "insert" /\ UNCHANGED <<now, token>> BY DEF Insert
<1>3. MaySave(r, u, req[r].agg) BY <1>2, InsertMay
<1>4. Holds(r) BY DEF TypeInv
<1>5. req[r].agg.verified => req[r].agg.email \in ProvenBy(r, u)
  BY <1>2, <1>4 DEF Holds, InStep, ProvenBy
<1>6. req[r].agg.password = PasswordOf(r, u) BY <1>2, <1>4 DEF Holds, PasswordOf
<1> QED BY <1>2, <1>3, <1>5, <1>6, SavedAccounts

LEMMA WriteAccounts ==
    ASSUME TypeInv, AccountInv, NEW r \in Requests, Write(r),
           Saved(r, req[r].user, Merged(req[r].agg, req[r].row, user[req[r].user]))
    PROVE  AccountInv'
<1> DEFINE u == req[r].user
           row == Merged(req[r].agg, req[r].row, user[u])
<1>1. Saved(r, u, row) /\ pc[r] = "write" /\ UNCHANGED <<now, token>> BY DEF Write
<1>2. /\ MaySave(r, u, row) /\ u \in Registered /\ u \in Users
      /\ row.password = req[r].agg.password
      /\ row.email = (IF req[r].agg.email # req[r].row.email THEN req[r].agg.email ELSE user[u].email)
      /\ row.verified = (IF req[r].agg.verified # req[r].row.verified
                         THEN req[r].agg.verified ELSE user[u].verified)
  BY <1>1, WriteMay DEF MaySave
<1>3. Holds(r) /\ Fresh(r) /\ VerifiesCurrent(r) /\ VerifiedIsProven /\ PasswordIsTheLastChosen
  BY DEF TypeInv, AccountInv
<1> HIDE DEF row
<1>4. /\ TypeInv' /\ Grows /\ Recorded(u, Overlaps(r, u), PasswordOf(r, u), ProvenBy(r, u))
      /\ PasswordOf(r, u) \in Passwords \cup {None} /\ ProvenBy(r, u) \in SUBSET Addresses
  BY <1>1, <1>2, SavedMeans
<1>5. ASSUME u \notin disturbed'
      PROVE  /\ row.verified => row.email \in ProvenBy(r, u)
             /\ row.password = PasswordOf(r, u)
             /\ row.email = user[u].email \/ req[r].op = "email"
  <2>1. u \notin disturbed /\ ~Overlaps(r, u)
    <3>1. Overlaps(r, u) \in BOOLEAN BY DEF Overlaps
    <3> QED BY <1>2, <1>4, <1>5, <3>1, RecordedMeans
  <2>2. ~Moving(u) BY <1>1, <2>1 DEF Moving, Overlaps, Working
  <2>3. row.email = req[r].agg.email /\ row.verified = req[r].agg.verified
    BY <1>1, <1>2, <1>3, <2>1 DEF Fresh
  <2>4. row.email = user[u].email \/ req[r].op = "email" BY <1>1, <1>3, <2>1, <2>3 DEF Fresh
  <2>5. u # None /\ user[u].password = chosen[u] /\ (user[u].verified => user[u].email \in proven[u])
    BY <1>2, <1>3, <2>1, RowsAre DEF VerifiedIsProven, PasswordIsTheLastChosen
  <2>6. row.password = PasswordOf(r, u) BY <1>1, <1>2, <1>3, <2>1, <2>5 DEF Fresh, PasswordOf
  <2>7. ASSUME row.verified PROVE row.email \in ProvenBy(r, u)
    <3>1. CASE req[r].op = "verify"
      <4>1. token[req[r].token].addr = user[u].email
        BY <1>1, <1>3, <2>1, <2>2, <3>1 DEF VerifiesCurrent
      <4> QED BY <2>4, <3>1, <4>1 DEF ProvenBy
    <3>2. CASE req[r].op = "google" BY <1>1, <1>3, <2>3, <3>2 DEF Holds, ProvenBy
    <3>3. CASE req[r].op \notin {"verify", "google"}
      <4>1. req[r].op # "email" /\ req[r].agg.verified = user[u].verified
        BY <1>1, <1>3, <2>1, <2>3, <2>7, <3>3 DEF Fresh
      <4>2. row.email \in proven[u] BY <2>3, <2>4, <2>5, <2>7, <4>1
      <4> QED BY <4>2 DEF ProvenBy
    <3> QED BY <3>1, <3>2, <3>3
  <2> QED BY <2>4, <2>6, <2>7
<1> QED BY <1>1, <1>2, <1>5, SavedAccounts

LEMMA InvalidateAccounts ==
    ASSUME TypeInv, AccountInv, NEW r \in Requests, InvalidateAllOfType(r)
    PROVE  AccountInv'
<1>0. PICK u : u = req[r].user OBVIOUS
<1>1. /\ TypeInv' /\ Grows /\ UNCHANGED user /\ u \in Registered /\ u \in Users
      /\ Recorded(u, Overlaps(r, u), chosen[u], proven[u])
      /\ chosen[u] \in Passwords \cup {None} /\ proven[u] \in SUBSET Addresses
      /\ Overlaps(r, u) \in BOOLEAN
  BY <1>0, InvalidateType DEF Registered, Overlaps
<1>2. PICK step \in {"idle", "issue"}, x \in Request :
        Becomes(r, step, x) /\ (step = "issue" => x = [req[r] EXCEPT !.cut = LastToken])
  BY InvalidateType
<1>3. pc[r] = "invalidate" /\ Holds(r) /\ MailsCurrent(r) /\ req[r] \in Request
      /\ VerifiedIsProven /\ PasswordIsTheLastChosen
  BY DEF InvalidateAllOfType, TypeInv, TypeOK, AccountInv
<1>4. pc'[r] = step /\ req'[r] = x BY <1>2 DEF Becomes, TypeInv, TypeOK
<1>5. step = "issue" => x.op = req[r].op /\ x.user = u /\ x.agg = req[r].agg BY <1>0, <1>2, <1>3 DEF Request
<1>6. (\A v \in Registered \ {u} : SameAccount(v)) /\ Registered' \subseteq Registered \cup {u}
  <2>1. (\A v \in Users \ {u} : user'[v] = user[v]) /\ (pc[r] = "invalidate" => req[r].user = u)
    BY <1>0, <1>1
  <2> QED BY <1>1, <1>2, <2>1, ElseSame
<1>7. disturbed \subseteq disturbed' BY <1>1, RecordedMeans
<1>8. Fresh(r)' /\ VerifiesCurrent(r)' /\ MailsCurrent(r)'
  BY <1>0, <1>1, <1>2, <1>3, <1>4, <1>5, <1>7 DEF Fresh, VerifiesCurrent, MailsCurrent
<1>9. Settled(r, u)
  <2>1. SUFFICES ASSUME u \notin disturbed' PROVE Settled(r, u) BY DEF Settled
  <2>2. ~Overlaps(r, u) /\ u \notin disturbed /\ chosen'[u] = chosen[u] /\ proven'[u] = proven[u]
    BY <1>1, <2>1, RecordedMeans
  <2>3. \A q \in Requests \ {r} : ~Working(q, u) BY <2>2 DEF Overlaps
  <2>4. ASSUME NEW k \in Tokens, Issued(k), token[k].user = u PROVE LinkIsCurrent(k)'
    <3>1. token[k] \in Token /\ TokenAlike(k) BY RowsAre, InvalidateType
    <3>2. SUFFICES ASSUME ~token'[k].used, token[k].kind = "email_verification", ~Moving(u)'
                   PROVE  token[k].addr = user[u].email
      BY <1>1, <2>4, <3>1 DEF LinkIsCurrent, TokenAlike, Moving
    <3>3. KindOf(req[r].op) # "email_verification"
      <4>1. SUFFICES ASSUME KindOf(req[r].op) = "email_verification" PROVE token'[k].used BY <3>2
      <4>2. token'[k] = [token[k] EXCEPT !.used = TRUE] BY <1>0, <2>4, <3>2, <4>1 DEF InvalidateAllOfType
      <4> QED BY <3>1, <4>2 DEF Token
    <3>4. req[r].op # "email" BY <3>3 DEF KindOf
    <3>5. ~Moving(u) BY <2>3, <3>4 DEF Moving, Working
    <3> QED BY <2>2, <2>4, <3>1, <3>2, <3>5 DEF AccountInv, LinkIsCurrent, TokenAlike
  <2> QED BY <1>1, <1>3, <2>2, <2>3, <2>4 DEF Settled, VerifiedIsProven, PasswordIsTheLastChosen
<1>10. \A k \in Tokens : Issued(k)' => Issued(k) BY InvalidateType DEF Issued, TokenAlike
<1>11. {u} \in SUBSET Users /\ \A v \in {u} : Settled(r, v) BY <1>1, <1>9
<1> QED BY <1>1, <1>2, <1>6, <1>8, <1>10, <1>11, KeepsAccounts

LEMMA FailAccounts ==
    ASSUME TypeInv, AccountInv, NEW r \in Requests, Fail(r)
    PROVE  AccountInv'
<1>1. TypeInv' /\ Grows /\ Becomes(r, "idle", NoRequest) /\ UNCHANGED <<now, user, token>> BY FailType
<1>2. CASE pc[r] = "invalidate" /\ req[r].op = "email"
  <2> DEFINE u == req[r].user
  <2>1. /\ u \in Registered /\ u \in Users /\ Recorded(u, TRUE, chosen[u], proven[u])
        /\ chosen[u] \in Passwords \cup {None} /\ proven[u] \in SUBSET Addresses
    BY <1>2, FailType DEF Registered
  <2>2. u \in disturbed' BY <2>1, RecordedMeans
  <2>3. (\A v \in Registered \ {u} : SameAccount(v)) /\ Registered' \subseteq Registered \cup {u}
    <3>1. TRUE \in BOOLEAN /\ (\A v \in Users \ {u} : user'[v] = user[v]) BY <1>1
    <3> HIDE DEF u
    <3>2. pc[r] = "invalidate" => req[r].user = u BY DEF u
    <3> QED BY <1>1, <2>1, <3>1, <3>2, ElseSame
  <2>4. pc'[r] = "idle" BY <1>1 DEF Becomes, TypeInv, TypeOK
  <2>5. Fresh(r)' /\ VerifiesCurrent(r)' /\ MailsCurrent(r)'
    BY <2>4 DEF Fresh, VerifiesCurrent, MailsCurrent
  <2>6. {u} \in SUBSET Users /\ \A v \in {u} : Settled(r, v) BY <2>1, <2>2 DEF Settled
  <2>7. \A k \in Tokens : Issued(k)' => Issued(k) BY <1>1 DEF Issued
  <2> QED BY <1>1, <2>3, <2>5, <2>6, <2>7, KeepsAccounts
<1>3. CASE ~(pc[r] = "invalidate" /\ req[r].op = "email")
  <2>1. UNCHANGED historyVars BY <1>3, FailType
  <2> QED BY <1>1, <1>3, <2>1, FinishAccounts
<1> QED BY <1>2, <1>3

LEMMA AccountInit == Init => AccountInv
<1> SUFFICES ASSUME Init PROVE AccountInv OBVIOUS
<1>1. \A r \in Requests : Fresh(r) /\ VerifiesCurrent(r) /\ MailsCurrent(r)
  BY DEF Init, Fresh, VerifiesCurrent, MailsCurrent
<1>2. \A k \in Tokens : LinkIsCurrent(k) BY DEF Init, LinkIsCurrent, Issued, BlankToken
<1>3. Registered = {} BY DEF Init, Registered, Exists, NoRow
<1> QED BY <1>1, <1>2, <1>3 DEF AccountInv, VerifiedIsProven, PasswordIsTheLastChosen

LEMMA StepAccounts ==
    ASSUME TypeInv, AccountInv, NEW r \in Requests, Begin(r) \/ Continue(r) \/ Fail(r)
    PROVE  AccountInv'
<1>1. ASSUME Finish(r), UNCHANGED <<now, user, token, historyVars>>, pc[r] # "invalidate" PROVE AccountInv'
  <2>1. Grows /\ Becomes(r, "idle", NoRequest) BY <1>1, FinishStep
  <2> QED BY <1>1, <2>1, FinishAccounts
<1>2. CASE Begin(r) BY <1>2, BeginOpens, OpensAccounts
<1>3. CASE FindByEmail(r) \/ ReadToVerify(r) \/ ReadToReset(r)
  <2>1. CASE Finish(r)
    <3>1. UNCHANGED <<now, user, token, historyVars>> /\ pc[r] # "invalidate"
      BY <1>3, ReadsOpen DEF Reads
    <3> QED BY <1>1, <2>1, <3>1
  <2>2. CASE ~Finish(r) BY <1>3, <2>2, ReadsOpen, OpensAccounts
  <2> QED BY <2>1, <2>2
<1>4. CASE CheckUnique(r)
  <2>1. CASE Finish(r)
    <3>1. UNCHANGED <<now, user, token, historyVars>> /\ pc[r] # "invalidate"
      BY <1>4 DEF CheckUnique, Reads
    <3> QED BY <1>1, <2>1, <3>1
  <2> QED BY <1>4, <2>1, CheckUniqueAccounts
<1>5. CASE Load(r) BY <1>5, LoadAccounts
<1>6. CASE Insert(r)
  <2>1. CASE Finish(r) /\ UNCHANGED <<user, historyVars>>
    <3>1. UNCHANGED <<now, user, token, historyVars>> /\ pc[r] # "invalidate"
      BY <1>6, <2>1 DEF Insert
    <3> QED BY <1>1, <2>1, <3>1
  <2>2. CASE \E u \in Users : ~Exists(u) /\ Saved(r, u, req[r].agg)
    BY <1>6, <2>2, InsertAccounts
  <2> QED BY <1>6, <2>1, <2>2 DEF Insert
<1>7. CASE Write(r)
  <2>1. CASE Finish(r) /\ UNCHANGED <<user, historyVars>>
    <3>1. UNCHANGED <<now, user, token, historyVars>> /\ pc[r] # "invalidate"
      BY <1>7, <2>1 DEF Write
    <3> QED BY <1>1, <2>1, <3>1
  <2>2. CASE Saved(r, req[r].user, Merged(req[r].agg, req[r].row, user[req[r].user]))
    BY <1>7, <2>2, WriteAccounts
  <2> QED BY <1>7, <2>1, <2>2 DEF Write
<1>8. CASE Spend(r) BY <1>8, SpendAccounts
<1>9. CASE InvalidateAllOfType(r) BY <1>9, InvalidateAccounts
<1>10. CASE Issue(r) BY <1>10, IssueAccounts
<1>11. CASE Fail(r) BY <1>11, FailAccounts
<1> QED BY <1>2, <1>3, <1>4, <1>5, <1>6, <1>7, <1>8, <1>9, <1>10, <1>11 DEF Continue

LEMMA WaitAccounts ==
    ASSUME TypeInv, AccountInv, Waits PROVE AccountInv'
<1>1. UNCHANGED <<user, token, pc, req, chosen, proven, disturbed>> BY DEF Waits, historyVars
<1>2. \A r \in Requests : Fresh(r)' /\ VerifiesCurrent(r)' /\ MailsCurrent(r)'
  BY <1>1 DEF AccountInv, Fresh, VerifiesCurrent, MailsCurrent, Moving
<1>3. \A k \in Tokens : LinkIsCurrent(k)' BY <1>1 DEF AccountInv, LinkIsCurrent, Moving, Issued
<1>4. VerifiedIsProven' /\ PasswordIsTheLastChosen'
  BY <1>1 DEF AccountInv, VerifiedIsProven, PasswordIsTheLastChosen, Registered, Exists
<1> QED BY <1>2, <1>3, <1>4 DEF AccountInv

LEMMA AccountStep == TypeInv /\ AccountInv /\ [Next]_vars => AccountInv'
BY EachStep, StepAccounts, WaitAccounts

THEOREM AccountsCorrect == Spec => []AccountInv
<1>1. Init => TypeInv /\ AccountInv BY TypeInit, AccountInit
<1>2. TypeInv /\ AccountInv /\ [Next]_vars => TypeInv' /\ AccountInv' BY TypeStep, AccountStep
<1> QED BY <1>1, <1>2, PTL DEF Spec

(* However many people register, log in with Google, change their address,   *)
(* ask for links and follow them at once: an address is verified only where  *)
(* a link mailed to that very address was followed or Google vouched for it, *)
(* except on an account where requests overlapped or died half-way.          *)
THEOREM VerifiedHonestly == Spec => []VerifiedIsProven
<1>1. AccountInv => VerifiedIsProven BY DEF AccountInv
<1> QED BY <1>1, AccountsCorrect, PTL

(* users.save never brings back an old password with a change of another     *)
(* column, unless another request worked on the account meanwhile.           *)
THEOREM LastChosen == Spec => []PasswordIsTheLastChosen
<1>1. AccountInv => PasswordIsTheLastChosen BY DEF AccountInv
<1> QED BY <1>1, AccountsCorrect, PTL

-----------------------------------------------------------------------------
(* Links are numbered in order, and those a request invalidated stay so. *)
Dead(j, u, kind) == Issued(j) /\ (token[j].user = u /\ token[j].kind = kind => token[j].used)
LinkInv ==
    /\ \A j, k \in Tokens : Issued(k) /\ j < k => Issued(j)
    /\ \A j, k \in Tokens : Issued(k) /\ j <= token[k].cut => Dead(j, token[k].user, token[k].kind)
    /\ \A r \in Requests, j \in Tokens :
          pc[r] = "issue" /\ j <= req[r].cut => Dead(j, req[r].user, KindOf(req[r].op))

LEMMA IssuedUpToLast ==
    ASSUME TypeInv, LinkInv, NEW j \in Tokens, j <= LastToken PROVE Issued(j)
<1>1. SUFFICES ASSUME ~Issued(j) PROVE FALSE OBVIOUS
<1>2. j \in Nat /\ j >= 1 BY AccountsAssumption DEF Tokens
<1> DEFINE S == {k \in Tokens : Issued(k)}
<1>3. S \subseteq 1 .. j - 1
  <2>1. ASSUME NEW k \in Tokens, Issued(k) PROVE k \in 1 .. j - 1
    <3>1. k \in Nat /\ k >= 1 BY AccountsAssumption DEF Tokens
    <3>2. ~(j < k) /\ k # j BY <1>1, <2>1 DEF LinkInv
    <3> QED BY <1>2, <3>1, <3>2
  <2> QED BY <2>1
<1>4. IsFiniteSet(1 .. j - 1) /\ Cardinality(1 .. j - 1) = j - 1
  <2>1. 1 \in Int /\ j - 1 \in Int BY <1>2
  <2>2. IsFiniteSet(1 .. j - 1)
        /\ Cardinality(1 .. j - 1) = (IF 1 > j - 1 THEN 0 ELSE (j - 1) - 1 + 1)
    BY <2>1, FS_Interval
  <2> QED BY <1>2, <2>2
<1> HIDE DEF S
<1>5. Cardinality(S) <= j - 1 /\ Cardinality(S) \in Nat BY <1>3, <1>4, FS_Subset, FS_CardinalityType
<1>6. LastToken = Cardinality(S) BY DEF LastToken, S
<1> QED BY <1>2, <1>5, <1>6

LEMMA StaysDead ==
    ASSUME TypeInv, Grows, NEW j \in Tokens, NEW u, NEW kind, Dead(j, u, kind) PROVE Dead(j, u, kind)'
BY DEF Dead, Grows

LEMMA WaitLinks ==
    ASSUME TypeInv, LinkInv, Grows, StoresNone PROVE LinkInv'
<1>1. \A j, k \in Tokens : Issued(k)' /\ j < k => Issued(j)' BY DEF LinkInv, StoresNone, Grows
<1>2. ASSUME NEW j \in Tokens, NEW k \in Tokens, Issued(k)', j <= token'[k].cut
      PROVE  Dead(j, token[k].user, token[k].kind)'
  <2>1. PICK u, kind : u = token[k].user /\ kind = token[k].kind OBVIOUS
  <2>2. Issued(k) /\ token'[k].cut = token[k].cut /\ token'[k].user = u /\ token'[k].kind = kind
    BY <1>2, <2>1 DEF StoresNone, Grows
  <2>3. Dead(j, u, kind)' BY <1>2, <2>1, <2>2, StaysDead DEF LinkInv
  <2> QED BY <2>2, <2>3 DEF Dead
<1>3. ASSUME NEW r \in Requests, NEW j \in Tokens, pc'[r] = "issue", j <= req'[r].cut
      PROVE  Dead(j, req[r].user, KindOf(req[r].op))'
  <2>1. PICK u, kind : u = req[r].user /\ kind = KindOf(req[r].op) OBVIOUS
  <2>2. pc[r] = "issue" /\ req'[r] = req[r] BY <1>3 DEF StoresNone
  <2>3. Dead(j, u, kind)' BY <1>3, <2>1, <2>2, StaysDead DEF LinkInv
  <2> QED BY <2>1, <2>2, <2>3 DEF Dead, KindOf
<1> QED BY <1>1, <1>2, <1>3 DEF LinkInv

LEMMA InvalidateLinks ==
    ASSUME TypeInv, LinkInv, NEW r \in Requests, InvalidateAllOfType(r) PROVE LinkInv'
<1>1. Grows /\ \A k \in Tokens : TokenAlike(k) BY InvalidateType
<1>2. PICK step \in {"idle", "issue"}, x \in Request :
        Becomes(r, step, x) /\ (step = "issue" => x = [req[r] EXCEPT !.cut = LastToken])
  BY InvalidateType
<1>3. /\ \A q \in Requests \ {r} : pc'[q] = pc[q] /\ req'[q] = req[q]
      /\ pc'[r] = step /\ req'[r] = x
  BY <1>2 DEF Becomes, TypeInv, TypeOK
<1>4. \A k \in Tokens : Issued(k)' => Issued(k) BY <1>1 DEF Issued, TokenAlike
<1>5. \A j, k \in Tokens : Issued(k)' /\ j < k => Issued(j)' BY <1>1, <1>4 DEF LinkInv, Grows
<1>6. ASSUME NEW j \in Tokens, NEW k \in Tokens, Issued(k)', j <= token'[k].cut
      PROVE  Dead(j, token[k].user, token[k].kind)'
  <2>1. PICK u, kind : u = token[k].user /\ kind = token[k].kind OBVIOUS
  <2>2. Issued(k) /\ token'[k].cut = token[k].cut /\ token'[k].user = u /\ token'[k].kind = kind
    BY <1>1, <1>4, <1>6, <2>1 DEF TokenAlike
  <2>3. Dead(j, u, kind)' BY <1>1, <1>6, <2>1, <2>2, StaysDead DEF LinkInv
  <2> QED BY <2>2, <2>3 DEF Dead
<1>7. ASSUME NEW q \in Requests, NEW j \in Tokens, pc'[q] = "issue", j <= req'[q].cut
      PROVE  Dead(j, req[q].user, KindOf(req[q].op))'
  <2>1. PICK u, kind : u = req[q].user /\ kind = KindOf(req[q].op) OBVIOUS
  <2>2. CASE q # r
    <3>1. Dead(j, u, kind)' BY <1>1, <1>3, <1>7, <2>1, <2>2, StaysDead DEF LinkInv
    <3> QED BY <1>3, <2>1, <2>2, <3>1 DEF Dead, KindOf
  <2>3. CASE q = r
    <3>1. req[r] \in Request BY DEF TypeInv, TypeOK
    <3>2. req'[r].user = u /\ req'[r].op = req[r].op /\ req'[r].cut = LastToken
      BY <1>2, <1>3, <1>7, <2>1, <2>3, <3>1 DEF Request
    <3>3. Issued(j) BY <1>7, <2>3, <3>2, IssuedUpToLast
    <3>4. token[j].user = u /\ token[j].kind = kind => token'[j].used
      <4>1. token[j] \in Token BY RowsAre
      <4>2. token[j].user = u /\ token[j].kind = kind => token'[j] = [token[j] EXCEPT !.used = TRUE]
        BY <2>1, <2>3 DEF InvalidateAllOfType
      <4> QED BY <4>1, <4>2 DEF Token
    <3>5. Dead(j, u, kind)' BY <1>1, <3>3, <3>4 DEF Dead, Grows
    <3> QED BY <2>1, <2>3, <3>2, <3>5 DEF Dead, KindOf
  <2> QED BY <2>2, <2>3
<1> QED BY <1>5, <1>6, <1>7 DEF LinkInv

LEMMA IssueLinks ==
    ASSUME TypeInv, LinkInv, NEW r \in Requests, Issue(r) PROVE LinkInv'
<1>1. Grows /\ Becomes(r, "idle", NoRequest) /\ pc[r] = "issue" BY IssueType DEF Issue
<1>2. PICK n \in Tokens :
                 /\ IsNext(n) /\ token'[n].user = req[r].user /\ token'[n].kind = KindOf(req[r].op)
                 /\ token'[n].addr = req[r].agg.email /\ token'[n].cut = req[r].cut
                 /\ \A j \in Tokens \ {n} : token'[j] = token[j]
  BY IssueType
<1>3. /\ \A q \in Requests \ {r} : pc'[q] = pc[q] /\ req'[q] = req[q]
      /\ pc'[r] = "idle"
  BY <1>1 DEF Becomes, TypeInv, TypeOK
<1>4. \A k \in Tokens : Issued(k)' => Issued(k) \/ k = n BY <1>2 DEF Issued
<1>5. \A j, k \in Tokens : Issued(k)' /\ j < k => Issued(j)'
  BY <1>1, <1>2, <1>4 DEF LinkInv, Grows, IsNext
<1>6. ASSUME NEW j \in Tokens, NEW k \in Tokens, Issued(k)', j <= token'[k].cut
      PROVE  Dead(j, token[k].user, token[k].kind)'
  <2>1. CASE k = n
    <3>1. PICK u, kind : u = req[r].user /\ kind = KindOf(req[r].op) OBVIOUS
    <3>2. Dead(j, u, kind) BY <1>1, <1>2, <1>6, <2>1, <3>1 DEF LinkInv
    <3>3. Dead(j, u, kind)' BY <1>1, <3>2, StaysDead
    <3> QED BY <1>2, <2>1, <3>1, <3>3 DEF Dead
  <2>2. CASE k # n
    <3>1. PICK u, kind : u = token[k].user /\ kind = token[k].kind OBVIOUS
    <3>2. Issued(k) /\ token'[k] = token[k] BY <1>2, <1>4, <1>6, <2>2
    <3>3. Dead(j, u, kind)' BY <1>1, <1>6, <3>1, <3>2, StaysDead DEF LinkInv
    <3> QED BY <3>1, <3>2, <3>3 DEF Dead
  <2> QED BY <2>1, <2>2
<1>7. ASSUME NEW q \in Requests, NEW j \in Tokens, pc'[q] = "issue", j <= req'[q].cut
      PROVE  Dead(j, req[q].user, KindOf(req[q].op))'
  <2>1. PICK u, kind : u = req[q].user /\ kind = KindOf(req[q].op) OBVIOUS
  <2>2. pc[q] = "issue" /\ req'[q] = req[q] BY <1>3, <1>7
  <2>3. Dead(j, u, kind)' BY <1>1, <1>7, <2>1, <2>2, StaysDead DEF LinkInv
  <2> QED BY <2>1, <2>2, <2>3 DEF Dead, KindOf
<1> QED BY <1>5, <1>6, <1>7 DEF LinkInv

LEMMA LinkInit == Init => LinkInv
BY DEF Init, LinkInv, Issued, BlankToken

LEMMA LinkStep == TypeInv /\ LinkInv /\ [Next]_vars => LinkInv'
BY EachStep, StepTypes, WaitTypes, WaitLinks, InvalidateLinks, IssueLinks

THEOREM LinksCorrect == Spec => []LinkInv
<1>1. Init => TypeInv /\ LinkInv BY TypeInit, LinkInit
<1>2. TypeInv /\ LinkInv /\ [Next]_vars => TypeInv' /\ LinkInv' BY TypeStep, LinkStep
<1> QED BY <1>1, <1>2, PTL DEF Spec

(* Asking for another link kills every link of its kind stored before the    *)
(* invalidation: of two good ones the older came after the newer one's       *)
(* request had invalidated, whatever the number of requests.                 *)
THEOREM DeadLinks == Spec => []OldLinksAreDead
<1>1. TypeInv /\ LinkInv => OldLinksAreDead
  <2> SUFFICES ASSUME TypeInv, LinkInv, NEW j \in Tokens, NEW k \in Tokens, Usable(j), Usable(k),
                      token[j].user = token[k].user, token[j].kind = token[k].kind
               PROVE  j > token[k].cut
    BY DEF OldLinksAreDead
  <2>1. ~(j <= token[k].cut) BY DEF LinkInv, Dead, Usable
  <2>2. j \in Int /\ token[k].cut \in Int BY RowsAre, AccountsAssumption DEF Token, Tokens, NoToken
  <2> QED BY <2>1, <2>2
<1> QED BY <1>1, TypeCorrect, LinksCorrect, PTL
=============================================================================
