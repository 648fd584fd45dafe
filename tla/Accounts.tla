------------------------------- MODULE Accounts -------------------------------
(***************************************************************************)
(* User accounts and the links mailed to them: registration, login with    *)
(* Google, verification of the address, change of address and password,    *)
(* profile, forgotten password. The tables users and auth_tokens, and the  *)
(* requests that work on them one query at a time. Sessions are in         *)
(* AuthSessions; names, roles and consent are left out; nobody deactivates *)
(* an account.                                                             *)
(*                                                                         *)
(* users.save of a known account is TypeORM's: the row is read again       *)
(* (without its password, which is select: false), and the UPDATE writes   *)
(* the columns that differ from what was read, so always the password.     *)
(***************************************************************************)
EXTENDS Integers, FiniteSets

CONSTANTS
    Users,          \* accounts that may ever exist (bound)
    Requests,       \* concurrent HTTP requests
    Addresses,      \* e-mail addresses; Google knows each under an id of its own
    Passwords,
    None,           \* null
    MaxTokens,      \* links ever mailed (bound)
    MaxDisturbed,   \* disturbed accounts past which no request begins (bound)
    TokenTtl,       \* TOKEN_TTL_MINUTES, by kind of link
    MaxTime         \* last instant of the clock (bound)

Kinds == {"email_verification", "password_reset"}
Tokens == 1 .. MaxTokens
NoToken == 0

ASSUME AccountsAssumption ==
    /\ MaxTokens \in Nat /\ MaxTime \in Nat /\ MaxDisturbed \in Nat
    /\ TokenTtl \in [Kinds -> Nat]
    /\ None \notin Users \cup Addresses \cup Passwords

VARIABLES
    now,
    user,           \* the table users
    token,          \* the table auth_tokens
    pc, req,        \* each request's step and local variables
    chosen,         \* history: the password last set on purpose, by account
    proven,         \* history: the addresses their owner proved to read, by account
    disturbed       \* history: accounts on which requests overlapped or died half-way

vars == <<now, user, token, pc, req, chosen, proven, disturbed>>
historyVars == <<chosen, proven, disturbed>>

Row == [email : Addresses \cup {None}, password : Passwords \cup {None},
        verified : BOOLEAN, google : Addresses \cup {None}]
NoRow == [email |-> None, password |-> None, verified |-> FALSE, google |-> None]
Exists(u) == user[u].email # None
Registered == {u \in Users : Exists(u)}

(* `cut` is the last token its issuer invalidated: history. *)
Token == [user : Users \cup {None}, kind : Kinds, addr : Addresses \cup {None},
          expires : Nat, used : BOOLEAN, cut : Tokens \cup {NoToken}]
BlankToken == [user |-> None, kind |-> "password_reset", addr |-> None,
               expires |-> 0, used |-> FALSE, cut |-> NoToken]
Issued(k) == token[k].user # None
IsNext(k) == ~Issued(k) /\ \A j \in Tokens : j < k => Issued(j)
Usable(k) == Issued(k) /\ ~token[k].used /\ now < token[k].expires

(* What a request holds: the account, the aggregate it read, the row users   *)
(* .save read, the link it was given and whether that was usable then.       *)
Request == [op : {"register", "google", "verify", "email", "resend", "forgot",
                  "reset", "password", "profile", "none"},
            user : Users \cup {None}, agg : Row, row : Row, token : Tokens \cup {NoToken},
            usable : BOOLEAN, cut : Tokens \cup {NoToken}]
NoRequest == [op |-> "none", user |-> None, agg |-> NoRow, row |-> NoRow,
              token |-> NoToken, usable |-> FALSE, cut |-> NoToken]

Goto(r, step) == pc' = [pc EXCEPT ![r] = step]
Finish(r) == Goto(r, "idle") /\ req' = [req EXCEPT ![r] = NoRequest]

Taken(e) == \E u \in Users : user[u].email = e
Linked(g) == g # None /\ \E u \in Users : user[u].google = g

(* A request on u that has something to read, save, invalidate or issue.    *)
Working(r, u) == req[r].user = u /\ pc[r] \notin {"idle", "spend"}

(* r changes u while another works on it, or dies and leaves u half-changed; *)
(* from then on the histories say nothing about u.                           *)
Overlaps(r, u) == \E q \in Requests \ {r} : Working(q, u)
Recorded(u, disturbs, c, p) ==
    LET off == disturbs \/ u \in disturbed
    IN  /\ disturbed' = IF off THEN disturbed \cup {u} ELSE disturbed
        /\ chosen' = [chosen EXCEPT ![u] = IF off THEN None ELSE c]
        /\ proven' = [proven EXCEPT ![u] = IF off THEN {} ELSE p]

-----------------------------------------------------------------------------
(* What the domain does to an account (UserAccount). *)

(* MUTANT of WithEmail: the new address inherits the verification. *)
WithEmailKept(row, e) == [row EXCEPT !.email = e]

WithEmail(row, e) == [row EXCEPT !.email = e, !.verified = FALSE]       \* changeEmail
Verified(row) == [row EXCEPT !.verified = TRUE]                        \* verifyEmail
WithGoogle(row, g) == [row EXCEPT !.google = g, !.verified = TRUE]      \* linkGoogleAccount
WithPassword(row, p) == [row EXCEPT !.password = p]                   \* changePasswordHash

(* MUTANT of Merged: an unselected password reads as null. *)
MergedWithoutPassword(agg, read, row) ==
    [row EXCEPT !.email = IF agg.email # read.email THEN agg.email ELSE @,
                !.password = None,
                !.verified = IF agg.verified # read.verified THEN agg.verified ELSE @,
                !.google = IF agg.google # read.google THEN agg.google ELSE @]

(* The UPDATE of users.save. *)
Merged(agg, read, row) ==
    [row EXCEPT !.email = IF agg.email # read.email THEN agg.email ELSE @,
                !.password = agg.password,
                !.verified = IF agg.verified # read.verified THEN agg.verified ELSE @,
                !.google = IF agg.google # read.google THEN agg.google ELSE @]

-----------------------------------------------------------------------------
(* Requests: their first query. *)

Start(r, rec, step) == pc[r] = "idle" /\ req' = [req EXCEPT ![r] = rec] /\ Goto(r, step)

(* An aggregate of u is read, and changed in memory to `agg`. *)
StartOn(r, op, u, agg, step) ==
    Start(r, [NoRequest EXCEPT !.op = op, !.user = u, !.agg = agg], step)

Reads == UNCHANGED <<now, user, token, historyVars>>

(* existsByEmail, then the hash of the password. *)
BeginRegister(r) ==
    \E e \in Addresses, p \in Passwords :
        /\ ~Taken(e)
        /\ StartOn(r, "register", None, [NoRow EXCEPT !.email = e, !.password = p], "insert")
        /\ Reads

(* findByGoogleId found nobody: the address is looked for next. Who is known *)
(* by the id just logs in. *)
BeginGoogle(r) ==
    \E e \in Addresses :
        /\ ~Linked(e)
        /\ StartOn(r, "google", None, [NoRow EXCEPT !.email = e, !.google = e, !.verified = TRUE],
                   "find")
        /\ Reads

FindByEmail(r) ==
    /\ pc[r] = "find"
    /\ LET e == req[r].agg.email
           found == {u \in Users : user[u].email = e}
       IN  IF found = {} THEN Goto(r, "insert") /\ UNCHANGED req
           ELSE \E u \in found :
                  /\ req' = [req EXCEPT ![r].user = u, ![r].agg = WithGoogle(user[u], e)]
                  /\ Goto(r, "load")
    /\ Reads

(* A link is followed: findByHash. *)
BeginVerify(r) ==
    \E k \in Tokens :
        /\ token[k].kind = "email_verification" /\ Issued(k)
        /\ Start(r, [NoRequest EXCEPT !.op = "verify", !.user = token[k].user,
                                !.token = k, !.usable = Usable(k)], "read")
        /\ Reads

(* The account is read; verified already, it is a success and nothing more.  *)
ReadToVerify(r) ==
    /\ pc[r] = "read" /\ req[r].op = "verify"
    /\ LET u == req[r].user
       IN  IF ~user[u].verified /\ req[r].usable
           THEN /\ req' = [req EXCEPT ![r].agg = Verified(user[u]), ![r].usable = FALSE]
                /\ Goto(r, "load")
           ELSE Finish(r)
    /\ Reads

BeginReset(r) ==
    \E k \in Tokens :
        /\ token[k].kind = "password_reset" /\ Usable(k)
        /\ Start(r, [NoRequest EXCEPT !.op = "reset", !.user = token[k].user,
                                !.token = k, !.usable = TRUE], "read")
        /\ Reads

ReadToReset(r) ==
    /\ pc[r] = "read" /\ req[r].op = "reset"
    /\ \E p \in Passwords : req' = [req EXCEPT ![r].agg = WithPassword(user[req[r].user], p),
                                              ![r].usable = FALSE]
    /\ Goto(r, "load")
    /\ Reads

(* update-email: the right password was given, and it is not the same e-mail. *)
BeginUpdateEmail(r) ==
    \E u \in Registered, e \in Addresses :
        /\ user[u].password # None /\ user[u].email # e
        /\ StartOn(r, "email", u, WithEmail(user[u], e), "unique")
        /\ Reads

CheckUnique(r) ==
    /\ pc[r] = "unique"
    /\ IF Taken(req[r].agg.email) THEN Finish(r) ELSE Goto(r, "load") /\ UNCHANGED req
    /\ Reads

BeginUpdatePassword(r) ==
    \E u \in Registered, p \in Passwords :
        /\ user[u].password \notin {None, p}
        /\ StartOn(r, "password", u, WithPassword(user[u], p), "load")
        /\ Reads

BeginUpdateProfile(r) ==
    \E u \in Registered : StartOn(r, "profile", u, user[u], "load") /\ Reads

BeginResend(r) ==
    \E u \in Registered :
        /\ ~user[u].verified
        /\ StartOn(r, "resend", u, [NoRow EXCEPT !.email = user[u].email], "invalidate")
        /\ Reads

BeginForgot(r) ==
    \E u \in Registered :
        StartOn(r, "forgot", u, [NoRow EXCEPT !.email = user[u].email], "invalidate") /\ Reads

-----------------------------------------------------------------------------
(* users.save *)

(* What comes after the account is saved. *)
AfterSave(op) ==
    CASE op \in {"register", "email"} -> "invalidate"
      [] op \in {"verify", "reset"} -> "spend"
      [] OTHER -> "idle"

Saved(r, u, row) ==
    /\ user' = [user EXCEPT ![u] = row]
    /\ Recorded(u, Overlaps(r, u),
                IF req[r].user = None \/ req[r].op \in {"reset", "password"}
                THEN req[r].agg.password ELSE chosen[u],
                proven[u] \cup CASE req[r].op = "verify" -> {token[req[r].token].addr}
                                 [] req[r].op = "google" -> {req[r].agg.google}
                                 [] OTHER -> {})
    /\ IF AfterSave(req[r].op) = "idle" THEN Finish(r)
       ELSE /\ Goto(r, AfterSave(req[r].op))
            /\ req' = [req EXCEPT ![r] = [NoRequest EXCEPT !.op = req[r].op, !.user = u,
                                            !.token = req[r].token, !.agg.email = row.email]]

(* INSERT; the unique indexes on email and google_id refuse. *)
Insert(r) ==
    /\ pc[r] = "insert"
    /\ IF Taken(req[r].agg.email) \/ Linked(req[r].agg.google)
       THEN Finish(r) /\ UNCHANGED <<user, historyVars>>
       ELSE \E u \in Users : /\ ~Exists(u)
                             /\ Saved(r, u, req[r].agg)
    /\ UNCHANGED <<now, token>>

Load(r) ==
    /\ pc[r] = "load"
    /\ req' = [req EXCEPT ![r].row = [user[req[r].user] EXCEPT !.password = None]]
    /\ Goto(r, "write")
    /\ Reads

Write(r) ==
    /\ pc[r] = "write"
    /\ LET u == req[r].user
           row == Merged(req[r].agg, req[r].row, user[u])
       IN  IF \E v \in Registered \ {u} :
                user[v].email = row.email \/ user[v].google \in {row.google} \ {None}
           THEN Finish(r) /\ UNCHANGED <<user, historyVars>>
           ELSE Saved(r, u, row)
    /\ UNCHANGED <<now, token>>

-----------------------------------------------------------------------------
(* auth_tokens *)

KindOf(op) == IF op \in {"forgot", "reset"} THEN "password_reset" ELSE "email_verification"

LastToken == Cardinality({k \in Tokens : Issued(k)})

(* markUsed and save. *)
Spend(r) ==
    /\ pc[r] = "spend"
    /\ token' = [token EXCEPT ![req[r].token].used = TRUE]
    /\ IF req[r].op = "reset" THEN Goto(r, "invalidate") /\ UNCHANGED req ELSE Finish(r)
    /\ UNCHANGED <<now, user, historyVars>>

(* MUTANT of InvalidateAllOfType: the links already mailed stay good. *)
InvalidateNone(r) ==
    /\ pc[r] = "invalidate"
    /\ IF req[r].op = "reset" THEN Finish(r)
       ELSE Goto(r, "issue") /\ req' = [req EXCEPT ![r].cut = LastToken]
    /\ UNCHANGED <<now, user, token, historyVars>>

(* One UPDATE. A reset ends here, but for its sessions. *)
InvalidateAllOfType(r) ==
    /\ pc[r] = "invalidate"
    /\ token' = [k \in Tokens |->
                   IF token[k].user = req[r].user /\ token[k].kind = KindOf(req[r].op)
                   THEN [token[k] EXCEPT !.used = TRUE] ELSE token[k]]
    /\ IF req[r].op = "reset" THEN Finish(r)
       ELSE Goto(r, "issue") /\ req' = [req EXCEPT ![r].cut = LastToken]
    /\ Recorded(req[r].user, Overlaps(r, req[r].user), chosen[req[r].user], proven[req[r].user])
    /\ UNCHANGED <<now, user>>

(* The new link is stored, and mailed to the address the request holds. A    *)
(* mail that fails is swallowed. *)
Issue(r) ==
    /\ pc[r] = "issue"
    /\ \E k \in Tokens :
         /\ IsNext(k)
         /\ token' = [token EXCEPT ![k] =
                [user |-> req[r].user, kind |-> KindOf(req[r].op), addr |-> req[r].agg.email,
                 expires |-> now + TokenTtl[KindOf(req[r].op)], used |-> FALSE,
                 cut |-> req[r].cut]]
    /\ Finish(r)
    /\ UNCHANGED <<now, user, historyVars>>

-----------------------------------------------------------------------------

Begin(r) ==
    /\ Cardinality(disturbed) <= MaxDisturbed
    /\ \/ BeginRegister(r) \/ BeginGoogle(r) \/ BeginVerify(r) \/ BeginReset(r)
       \/ BeginUpdateEmail(r) \/ BeginUpdatePassword(r) \/ BeginUpdateProfile(r)
       \/ BeginResend(r) \/ BeginForgot(r)

Continue(r) ==
    \/ FindByEmail(r) \/ ReadToVerify(r) \/ ReadToReset(r) \/ CheckUnique(r)
    \/ Insert(r) \/ Load(r) \/ Write(r)
    \/ Spend(r) \/ InvalidateAllOfType(r) \/ Issue(r)

(* A query fails, or the process dies with the request; what should have     *)
(* followed a save is left undone: the links of the old address stay good.   *)
Fail(r) ==
    /\ pc[r] # "idle" /\ Finish(r)
    /\ LET u == req[r].user
       IN  IF pc[r] = "invalidate" /\ req[r].op = "email"
           THEN Recorded(u, TRUE, chosen[u], proven[u]) ELSE UNCHANGED historyVars
    /\ UNCHANGED <<now, user, token>>

Tick == now < MaxTime /\ now' = now + 1 /\ UNCHANGED <<user, token, pc, req, historyVars>>

Init ==
    /\ now = 0
    /\ user = [u \in Users |-> NoRow]
    /\ token = [k \in Tokens |-> BlankToken]
    /\ pc = [r \in Requests |-> "idle"]
    /\ req = [r \in Requests |-> NoRequest]
    /\ chosen = [u \in Users |-> None]
    /\ proven = [u \in Users |-> {}]
    /\ disturbed = {}

Next == Tick \/ \E r \in Requests : Begin(r) \/ Continue(r) \/ Fail(r)

Spec == Init /\ [][Next]_vars

-----------------------------------------------------------------------------
(* Properties *)

TypeOK ==
    /\ now \in 0 .. MaxTime
    /\ user \in [Users -> Row]
    /\ token \in [Tokens -> Token]
    /\ pc \in [Requests -> {"idle", "find", "read", "unique", "insert", "load", "write",
                            "spend", "invalidate", "issue"}]
    /\ req \in [Requests -> Request]
    /\ chosen \in [Users -> Passwords \cup {None}]
    /\ proven \in [Users -> SUBSET Addresses]
    /\ disturbed \subseteq Users

(* An address counts as verified only if a link mailed to that very address  *)
(* was followed, or Google vouched for it: no sequence of registrations,     *)
(* changes of address, resends and linkings can do otherwise, except through *)
(* requests that overlapped on the account or died half-way.                 *)
VerifiedIsProven ==
    \A u \in Registered : user[u].verified => user[u].email \in proven[u] \/ u \in disturbed

(* The password is the one last set on purpose, unless requests overlapped:  *)
(* writing any other column never brings an old one back.                    *)
PasswordIsTheLastChosen ==
    \A u \in Registered : user[u].password = chosen[u] \/ u \in disturbed

(* Of two usable links of one kind to one account, the older was stored      *)
(* after the newer one's request had invalidated its predecessors: asking    *)
(* again leaves a single good link unless the requests overlapped.           *)
OldLinksAreDead ==
    \A j, k \in Tokens :
        /\ j < k /\ Usable(j) /\ Usable(k)
        /\ token[j].user = token[k].user /\ token[j].kind = token[k].kind
        => j > token[k].cut

(* "El enlace enviado al correo ANTERIOR no debe poder verificar la cuenta   *)
(* ya migrada": a link verifies the account at the address it was mailed to. *)
OldAddressNeverVerifies ==
    [][\A r \in Requests :
        pc[r] = "write" /\ req[r].op = "verify" /\ pc'[r] = "spend"
            => token[req[r].token].addr = user'[req[r].user].email]_vars
=============================================================================
