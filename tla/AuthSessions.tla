---------------------------- MODULE AuthSessions ----------------------------
(***************************************************************************)
(* Sessions of the auth bounded context: refresh tokens that are opened by *)
(* a login, rotated by every refresh, and revoked one by one (logout), by  *)
(* family (a rotated token came back) or by user (logout-all, a password   *)
(* reset). A family is the chain of rotations of one browser; it is named  *)
(* here by its first token.                                                *)
(*                                                                         *)
(* A request reads a row, awaits, and writes what it decided from the row  *)
(* it read. No write checks that the row is still the one that was read.   *)
(***************************************************************************)
EXTENDS Integers, FiniteSets

CONSTANTS
    Tokens,         \* hashes that may be issued (bound)
    Procs,          \* requests that may be in flight at once (bound)
    Users,          \* accounts, all of them active
    NoToken, NoUser,
    TTL,            \* REFRESH_TTL_DAYS
    MaxTime,        \* last instant of the clock (bound)
    MaxResets,      \* password resets per user (bound)
    MaxRestarts     \* restarts of the process (bound)

ASSUME NameAssumption == NoToken \notin Tokens /\ NoUser \notin Users
ASSUME BoundAssumption ==
    TTL \in Nat /\ MaxTime \in Nat /\ MaxResets \in Nat /\ MaxRestarts \in Nat

VARIABLES
    now,        \* the clock
    token,      \* the table refresh_tokens, by token_hash
    password,   \* how many times a user's password was reset
    pc,         \* where a request awaits
    hash,       \* the token it was given
    seen,       \* the row it read, with the changes it decided
    dirty,      \* columns its save() found different from the table
    cut,        \* history: families revoked because a rotated token came back
    late,       \* history: tokens issued from a row or password that had
                \* changed since it was read, and their successors
    unswept,    \* history: users with a new password whose sessions have not
                \* been revoked since
    restarts    \* restarts so far

reqVars == <<pc, hash, seen, dirty>>
history == <<cut, late, unswept>>
vars == <<now, token, password, reqVars, history, restarts>>

-----------------------------------------------------------------------------
(* Rows of refresh_tokens. pw is history: the password of the login that     *)
(* opened the family.                                                        *)
Row == [user : Users \cup {NoUser}, family : Tokens \cup {NoToken},
        expires : Nat, revoked : BOOLEAN, next : Tokens \cup {NoToken},
        pw : Nat]

Blank == [user |-> NoUser, family |-> NoToken, expires |-> 0,
          revoked |-> FALSE, next |-> NoToken, pw |-> 0]

Issued(t) == token[t].user # NoUser

Live(t) == Issued(t) /\ ~token[t].revoked

(* MUTANT of Usable: a revoked token is only refused if it was rotated. *)
UsableIfNotRotated(r) == r.next = NoToken /\ now < r.expires

(* RefreshToken.assertUsable *)
Usable(r) == r.next = NoToken /\ ~r.revoked /\ now < r.expires

(* MUTANT of Successor: every rotation prolongs the session. *)
SlidingSuccessor(r) ==
    [r EXCEPT !.revoked = FALSE, !.next = NoToken, !.expires = now + TTL]

(* RefreshToken.rotate: a new token with the user, family and expiry of r. *)
Successor(r) == [r EXCEPT !.revoked = FALSE, !.next = NoToken]

Enter(p, step, h, r) ==
    /\ pc[p] = "idle"
    /\ pc' = [pc EXCEPT ![p] = step]
    /\ hash' = [hash EXCEPT ![p] = h]
    /\ seen' = [seen EXCEPT ![p] = r]
    /\ UNCHANGED <<now, token, dirty, cut, late, restarts>>

Finish(p) ==
    /\ pc' = [pc EXCEPT ![p] = "idle"]
    /\ hash' = [hash EXCEPT ![p] = NoToken]
    /\ seen' = [seen EXCEPT ![p] = Blank]
    /\ dirty' = [dirty EXCEPT ![p] = {}]

-----------------------------------------------------------------------------
(* Opening and refreshing *)

(* Login: the account is read and its password compared. (Register and       *)
(* Google open a session the same way.)                                      *)
BeginLogin(p) ==
    \E u \in Users :
        /\ Enter(p, "open", NoToken,
                 [Blank EXCEPT !.user = u, !.pw = password[u]])
        /\ UNCHANGED <<password, unswept>>

(* issueRefreshFor: a new token, first of a new family. *)
Open(p) ==
    /\ pc[p] = "open"
    /\ \E t \in Tokens :
          /\ ~Issued(t)
          /\ token' = [token EXCEPT ![t] =
                [seen[p] EXCEPT !.family = t, !.expires = now + TTL]]
          /\ late' = IF seen[p].pw # password[seen[p].user]
                     THEN late \cup {t} ELSE late
    /\ Finish(p)
    /\ UNCHANGED <<now, password, cut, unswept, restarts>>

(* RefreshSessionUseCase up to its write. A token unknown, revoked or        *)
(* expired is refused without a trace; one that was rotated costs its family *)
(* the session.                                                              *)
BeginRefresh(p) ==
    \E t \in Tokens :
        /\ Issued(t)
        /\ \/ token[t].next # NoToken /\ Enter(p, "cut", t, token[t])
           \/ Usable(token[t]) /\ Enter(p, "rotate", t, token[t])
        /\ UNCHANGED <<password, unswept>>

(* revokeFamily *)
CutFamily(p) ==
    /\ pc[p] = "cut"
    /\ token' = [t \in Tokens |->
                    IF Issued(t) /\ token[t].family = seen[p].family
                    THEN [token[t] EXCEPT !.revoked = TRUE] ELSE token[t]]
    /\ cut' = cut \cup {seen[p].family}
    /\ Finish(p)
    /\ UNCHANGED <<now, password, late, unswept, restarts>>

(* The successor of a token is late if its row is no longer what was read. *)
IsLate(p) == token[hash[p]] # seen[p] \/ hash[p] \in late

(* MUTANT of Rotate: rotate() does not set the revocation date. *)
RotateWithoutRevoking(p) ==
    /\ pc[p] = "rotate"
    /\ \E n \in Tokens :
          /\ ~Issued(n)
          /\ token' = [token EXCEPT
                ![hash[p]].revoked = seen[p].revoked, ![hash[p]].next = n,
                ![n] = Successor(seen[p])]
          /\ late' = IF IsLate(p) THEN late \cup {n} ELSE late
    /\ Finish(p)
    /\ UNCHANGED <<now, password, cut, unswept, restarts>>

(* MUTANT of Rotate: the transaction commits without its INSERT. *)
RotateWithoutIssuing(p) ==
    /\ pc[p] = "rotate"
    /\ \E n \in Tokens :
          /\ ~Issued(n)
          /\ token' = [token EXCEPT
                ![hash[p]].revoked = TRUE, ![hash[p]].next = n]
    /\ Finish(p)
    /\ UNCHANGED <<now, password, history, restarts>>

(* saveRotation, one transaction: an UPDATE by token_hash of the two columns *)
(* that rotate() changed, and the INSERT of the successor.                   *)
Rotate(p) ==
    /\ pc[p] = "rotate"
    /\ \E n \in Tokens :
          /\ ~Issued(n)
          /\ token' = [token EXCEPT
                ![hash[p]].revoked = TRUE, ![hash[p]].next = n,
                ![n] = Successor(seen[p])]
          /\ late' = IF IsLate(p) THEN late \cup {n} ELSE late
    /\ Finish(p)
    /\ UNCHANGED <<now, password, cut, unswept, restarts>>

-----------------------------------------------------------------------------
(* Closing *)

(* LogoutUseCase: any token that exists, revoked in memory. *)
BeginLogout(p) ==
    \E t \in Tokens :
        /\ Issued(t)
        /\ Enter(p, "load", t, [token[t] EXCEPT !.revoked = TRUE])
        /\ UNCHANGED <<password, unswept>>

(* save() of an entity with an id: TypeORM reads the row again and compares  *)
(* the entity with it, column by column...                                   *)
LoadForSave(p) ==
    /\ pc[p] = "load"
    /\ LET d == {c \in {"revoked", "next"} : seen[p][c] # token[hash[p]][c]}
       IN  IF d = {} THEN Finish(p)
           ELSE /\ dirty' = [dirty EXCEPT ![p] = d]
                /\ pc' = [pc EXCEPT ![p] = "write"]
                /\ UNCHANGED <<hash, seen>>
    /\ UNCHANGED <<now, token, password, history, restarts>>

(* ...and then updates the columns that differ, with the entity's values.    *)
WriteDirty(p) ==
    /\ pc[p] = "write"
    /\ LET value(c) == IF c \in dirty[p] THEN seen[p][c] ELSE token[hash[p]][c]
       IN  token' = [token EXCEPT ![hash[p]].revoked = value("revoked"),
                                  ![hash[p]].next = value("next")]
    /\ Finish(p)
    /\ UNCHANGED <<now, password, history, restarts>>

RevokedAllOf(u) ==
    [t \in Tokens |-> IF token[t].user = u
                      THEN [token[t] EXCEPT !.revoked = TRUE] ELSE token[t]]

(* LogoutAllUseCase is that one UPDATE. *)
LogoutAll(u) ==
    /\ token' = RevokedAllOf(u)
    /\ UNCHANGED <<now, password, reqVars, history, restarts>>

(* ResetPasswordUseCase: the new password is saved... *)
BeginReset(p) ==
    \E u \in Users :
        /\ password[u] < MaxResets
        /\ Enter(p, "sweep", NoToken, [Blank EXCEPT !.user = u])
        /\ password' = [password EXCEPT ![u] = @ + 1]
        /\ unswept' = unswept \cup {u}

(* MUTANT of FinishReset: the reset does not close any session. *)
FinishResetOnly(p) ==
    /\ pc[p] = "sweep"
    /\ unswept' = unswept \ {seen[p].user}
    /\ Finish(p)
    /\ UNCHANGED <<now, token, password, cut, late, restarts>>

(* ...and, two statements on the reset tokens later, every session of the    *)
(* user is revoked.                                                          *)
FinishReset(p) ==
    /\ pc[p] = "sweep"
    /\ token' = RevokedAllOf(seen[p].user)
    /\ unswept' = unswept \ {seen[p].user}
    /\ Finish(p)
    /\ UNCHANGED <<now, password, cut, late, restarts>>

-----------------------------------------------------------------------------
Tick ==
    /\ now < MaxTime
    /\ now' = now + 1
    /\ UNCHANGED <<token, password, reqVars, history, restarts>>

(* The process dies, and with it the requests in flight. *)
Restart ==
    /\ restarts < MaxRestarts
    /\ restarts' = restarts + 1
    /\ pc' = [p \in Procs |-> "idle"]
    /\ hash' = [p \in Procs |-> NoToken]
    /\ seen' = [p \in Procs |-> Blank]
    /\ dirty' = [p \in Procs |-> {}]
    /\ UNCHANGED <<now, token, password, history>>

Init ==
    /\ now = 0
    /\ token = [t \in Tokens |-> Blank]
    /\ password = [u \in Users |-> 0]
    /\ pc = [p \in Procs |-> "idle"]
    /\ hash = [p \in Procs |-> NoToken]
    /\ seen = [p \in Procs |-> Blank]
    /\ dirty = [p \in Procs |-> {}]
    /\ cut = {} /\ late = {} /\ unswept = {}
    /\ restarts = 0

Next ==
    \/ \E p \in Procs :
          \/ BeginLogin(p) \/ Open(p)
          \/ BeginRefresh(p) \/ CutFamily(p) \/ Rotate(p)
          \/ BeginLogout(p) \/ LoadForSave(p) \/ WriteDirty(p)
          \/ BeginReset(p) \/ FinishReset(p)
    \/ \E u \in Users : LogoutAll(u)
    \/ Tick \/ Restart

Spec == Init /\ [][Next]_vars

-----------------------------------------------------------------------------
(* Properties *)

Awaits == {"idle", "open", "rotate", "cut", "load", "write", "sweep"}

(* Every variable has its type; an idle request holds nothing. *)
TypeOK ==
    /\ now \in Nat
    /\ token \in [Tokens -> Row]
    /\ password \in [Users -> Nat]
    /\ pc \in [Procs -> Awaits]
    /\ hash \in [Procs -> Tokens \cup {NoToken}]
    /\ seen \in [Procs -> Row]
    /\ dirty \in [Procs -> SUBSET {"revoked", "next"}]
    /\ cut \subseteq Tokens /\ late \subseteq Tokens /\ unswept \subseteq Users
    /\ restarts \in Nat
    /\ \A p \in Procs : pc[p] = "idle" =>
          hash[p] = NoToken /\ seen[p] = Blank /\ dirty[p] = {}

(* A session is one token at a time: of a family's tokens, only one is live, *)
(* whatever is refreshed, repeated or closed concurrently. The exceptions    *)
(* are exactly the tokens issued from a stale row.                           *)
OneLivePerFamily ==
    \A s, t \in Tokens :
        /\ s # t /\ Live(s) /\ Live(t) /\ token[s].family = token[t].family
        => s \in late \/ t \in late

(* Once a rotated token has come back its family is dead for good: no live   *)
(* token of it, but those issued from a stale row.                           *)
CutFamiliesStayDead ==
    \A t \in Tokens : Live(t) /\ token[t].family \in cut => t \in late

(* After a password reset nobody goes on with a session opened with an older *)
(* password, unless the reset has not got (or never got) to its revocation,  *)
(* or the token was issued from a stale read.                                *)
OldSessionsEnd ==
    \A t \in Tokens :
        Live(t) /\ token[t].pw # password[token[t].user] =>
            t \in late \/ token[t].user \in unswept

(* Refreshing does not prolong a session: all the tokens of a family expire  *)
(* when its first one does, and belong to the same user.                     *)
FixedLifetime ==
    \A t \in Tokens : Issued(t) =>
        LET first == token[t].family
        IN  /\ first \in Tokens /\ token[first].family = first
            /\ token[first].user = token[t].user
            /\ token[first].expires = token[t].expires

(* A rotation is whole: a token marked as replaced is revoked, and its       *)
(* successor exists in its family. The user is never left between an old     *)
(* token that is dead and a new one that is not there.                       *)
ChainIsWhole ==
    \A t \in Tokens : token[t].next # NoToken =>
        /\ token[t].revoked
        /\ Issued(token[t].next)
        /\ token[token[t].next].family = token[t].family

(* No stale write brings a revoked token back to life. *)
RevokedForever ==
    [][\A t \in Tokens : Issued(t) =>
          /\ Issued(t)' /\ (token[t].revoked => token'[t].revoked)]_token

(* reset-password.use-case.ts:59: "Cambiar la contraseña invalida todas las  *)
(* sesiones abiertas": when no reset of a user is running, no session opened *)
(* before the last one (its first token was not issued late) has a live      *)
(* token.                                                                    *)
ResetEndsSessions ==
    \A t \in Tokens :
        /\ Live(t)
        /\ token[t].pw # password[token[t].user]
        /\ token[t].family \notin late
        => \E p \in Procs : pc[p] = "sweep" /\ seen[p].user = token[t].user
=============================================================================
