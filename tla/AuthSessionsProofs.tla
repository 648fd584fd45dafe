------------------------- MODULE AuthSessionsProofs -------------------------
(***************************************************************************)
(* Theorems about AuthSessions, for every number of tokens, requests and   *)
(* users. The inductive invariant is IInv: the invariants the run checks,  *)
(* and what a request may rely on of the row it read.                      *)
(***************************************************************************)
EXTENDS AuthSessions, TLAPS

USE NameAssumption, BoundAssumption

-----------------------------------------------------------------------------
(* The inductive invariant *)

Reads == {"rotate", "cut", "load", "write"}

(* The row a request holds is one its token had: what identifies the session *)
(* is still there, and a successor it knows of exists.                       *)
HoldsRow(p) ==
    /\ hash[p] \in Tokens /\ Issued(hash[p])
    /\ seen[p].user = token[hash[p]].user
    /\ seen[p].family = token[hash[p]].family
    /\ seen[p].expires = token[hash[p]].expires
    /\ seen[p].pw = token[hash[p]].pw
    /\ seen[p].next # NoToken =>
          /\ Issued(seen[p].next)
          /\ token[seen[p].next].family = seen[p].family

SnapshotFits(p) ==
    /\ pc[p] \in Reads => HoldsRow(p)
    /\ pc[p] \in {"rotate", "open"} =>
          seen[p].next = NoToken /\ ~seen[p].revoked
    /\ pc[p] \in {"load", "write"} => seen[p].revoked
    /\ pc[p] = "write" => "revoked" \in dirty[p] \/ token[hash[p]].revoked
    /\ pc[p] \in {"open", "sweep"} => seen[p].user \in Users

SnapshotsFit == \A p \in Procs : SnapshotFits(p)

CutIssued == \A f \in cut : Issued(f)

Sessions ==
    /\ OneLivePerFamily /\ CutFamiliesStayDead /\ OldSessionsEnd
    /\ FixedLifetime /\ ChainIsWhole /\ CutIssued

IInv == TypeOK /\ Sessions /\ SnapshotsFit

(* What every step does to the rows there are. *)
Grows ==
    \A t \in Tokens : Issued(t) =>
        /\ token'[t].user = token[t].user
        /\ token'[t].family = token[t].family
        /\ token'[t].expires = token[t].expires
        /\ token'[t].pw = token[t].pw
        /\ token[t].revoked => token'[t].revoked

LEMMA BlankType == Blank \in Row
    BY DEF Blank, Row

(* A request that ends leaves nothing behind. *)
LEMMA FinishType ==
    ASSUME TypeOK, NEW p \in Procs, Finish(p),
           now' = now, password' = password, restarts' = restarts,
           token' \in [Tokens -> Row],
           cut' \subseteq Tokens, late' \subseteq Tokens, unswept' \subseteq Users
    PROVE  TypeOK'
    BY BlankType DEF TypeOK, Finish, Awaits

LEMMA EnterType ==
    ASSUME TypeOK, NEW p \in Procs, NEW step \in Awaits \ {"idle"},
           NEW h \in Tokens \cup {NoToken}, NEW r \in Row, Enter(p, step, h, r),
           password' \in [Users -> Nat], unswept' \subseteq Users
    PROVE  TypeOK'
    BY DEF TypeOK, Enter

-----------------------------------------------------------------------------
(* Snapshots *)

(* The rows of the other requests stay good when the table grows. *)
LEMMA OthersKeep ==
    ASSUME IInv, Grows, NEW q \in Procs, TypeOK',
           pc'[q] = pc[q], hash'[q] = hash[q], seen'[q] = seen[q],
           dirty'[q] = dirty[q]
    PROVE  SnapshotFits(q)'
<1>1. SnapshotFits(q)
    BY DEF IInv, SnapshotsFit
<1>2. \A t \in Tokens : Issued(t) => Issued(t)'
    BY DEF Grows, Issued
<1>3. ASSUME pc[q] \in Reads PROVE HoldsRow(q)'
  <2>1. HoldsRow(q)
      BY <1>1, <1>3 DEF SnapshotFits
  <2>2. seen[q].next \in Tokens \cup {NoToken}
      BY DEF IInv, TypeOK, Row
  <2> QED
      BY <1>2, <2>1, <2>2 DEF HoldsRow, Grows
<1>4. pc[q] = "write" => "revoked" \in dirty'[q] \/ token'[hash'[q]].revoked
    BY <1>1 DEF SnapshotFits, HoldsRow, Grows, Reads
<1> QED
    BY <1>1, <1>3, <1>4 DEF SnapshotFits

LEMMA FinishSnapshots ==
    ASSUME IInv, Grows, NEW p \in Procs, Finish(p), TypeOK'
    PROVE  SnapshotsFit'
<1> SUFFICES ASSUME NEW q \in Procs PROVE SnapshotFits(q)'
    BY DEF SnapshotsFit
<1>1. CASE q = p
    BY <1>1 DEF Finish, SnapshotFits, IInv, TypeOK, Reads
<1>2. CASE q # p
    BY <1>2, OthersKeep DEF Finish, IInv, TypeOK
<1> QED
    BY <1>1, <1>2

LEMMA EnterSnapshots ==
    ASSUME IInv, Grows, NEW p \in Procs, NEW step, NEW h, NEW r,
           Enter(p, step, h, r), TypeOK', SnapshotFits(p)'
    PROVE  SnapshotsFit'
<1> SUFFICES ASSUME NEW q \in Procs, q # p PROVE SnapshotFits(q)'
    BY DEF SnapshotsFit
<1> QED
    BY OthersKeep DEF Enter, IInv, TypeOK

LEMMA Unchanged ==
    ASSUME token' = token
    PROVE  Grows
    BY DEF Grows

-----------------------------------------------------------------------------
(* The table *)

(* A step that adds no token and at most revokes or relinks those there are  *)
(* keeps the families as they must be.                                       *)
LEMMA Narrows ==
    ASSUME IInv, Grows, TypeOK', late' = late,
           \A t \in Tokens : ~Issued(t) => token'[t] = token[t],
           \A t \in Tokens :
               \/ token'[t].next = token[t].next
               \/ /\ token'[t].revoked
                  /\ token'[t].next # NoToken =>
                        /\ Issued(token'[t].next)
                        /\ token[token'[t].next].family = token[t].family
    PROVE  /\ OneLivePerFamily' /\ FixedLifetime' /\ ChainIsWhole'
           /\ cut' = cut => CutFamiliesStayDead' /\ CutIssued'
           /\ password' = password /\ unswept' = unswept => OldSessionsEnd'
<1>1. \A t \in Tokens : Issued(t)' <=> Issued(t)
    BY DEF Grows, Issued
<1>2. \A t \in Tokens : Live(t)' => Live(t)
    BY <1>1 DEF Live, Grows
<1>3. \A t \in Tokens :
         /\ token'[t].user = token[t].user
         /\ token'[t].family = token[t].family
         /\ token'[t].expires = token[t].expires
         /\ token'[t].pw = token[t].pw
    BY DEF Grows
<1>4. OneLivePerFamily'
    BY <1>2, <1>3 DEF IInv, Sessions, OneLivePerFamily
<1>5. FixedLifetime'
    BY <1>1, <1>3 DEF IInv, Sessions, FixedLifetime
<1>6. ChainIsWhole'
  <2> SUFFICES ASSUME NEW t \in Tokens, token'[t].next # NoToken
               PROVE  /\ token'[t].revoked
                      /\ token'[token'[t].next].user # NoUser
                      /\ token'[token'[t].next].family = token'[t].family
      BY DEF ChainIsWhole, Issued
  <2>1. token'[t].next \in Tokens
      BY DEF TypeOK, Row
  <2>2. CASE token'[t].next = token[t].next
    <3>1. /\ token[t].revoked /\ Issued(token[t].next)
          /\ token[token[t].next].family = token[t].family
        BY <2>2 DEF IInv, Sessions, ChainIsWhole
    <3>2. token'[t].revoked
        BY <3>1 DEF Grows
    <3> QED
        BY <1>1, <1>3, <2>1, <2>2, <3>1, <3>2 DEF Issued
  <2>3. CASE token'[t].next # token[t].next
      BY <1>1, <1>3, <2>1, <2>3 DEF Issued
  <2> QED
      BY <2>2, <2>3
<1>7. ASSUME cut' = cut PROVE CutFamiliesStayDead' /\ CutIssued'
    BY <1>1, <1>2, <1>3, <1>7
        DEF IInv, TypeOK, Sessions, CutFamiliesStayDead, CutIssued
<1>8. ASSUME password' = password, unswept' = unswept PROVE OldSessionsEnd'
    BY <1>2, <1>3, <1>8 DEF IInv, Sessions, OldSessionsEnd
<1> QED
    BY <1>4, <1>5, <1>6, <1>7, <1>8

(* The same for a step that leaves the table alone. *)
LEMMA TableUnchanged ==
    ASSUME IInv, TypeOK', token' = token, late' = late, cut' = cut,
           password' = password, unswept' = unswept
    PROVE  Sessions'
<1>1. Grows
    BY Unchanged
<1> QED
    BY <1>1, Narrows DEF Sessions

(* Revoking a set of tokens. *)
LEMMA Revoking ==
    ASSUME IInv, NEW S \in SUBSET Tokens,
           token' = [t \in Tokens |-> IF t \in S
                        THEN [token[t] EXCEPT !.revoked = TRUE] ELSE token[t]]
    PROVE  /\ token' \in [Tokens -> Row] /\ Grows
           /\ \A t \in Tokens : token'[t].next = token[t].next
           /\ \A t \in Tokens : t \notin S => token'[t] = token[t]
           /\ \A t \in S : token'[t].revoked
<1>1. token \in [Tokens -> Row]
    BY DEF IInv, TypeOK
<1>2. ASSUME NEW t \in Tokens
      PROVE  /\ token'[t] \in Row
             /\ token'[t].user = token[t].user
             /\ token'[t].family = token[t].family
             /\ token'[t].expires = token[t].expires
             /\ token'[t].pw = token[t].pw
             /\ token'[t].next = token[t].next
             /\ token[t].revoked => token'[t].revoked
             /\ t \in S => token'[t].revoked
             /\ t \notin S => token'[t] = token[t]
  <2>1. token[t] \in Row
      BY <1>1
  <2>2. CASE t \in S
    <3>1. token'[t] = [token[t] EXCEPT !.revoked = TRUE]
        BY <2>2
    <3> QED
        BY <2>1, <2>2, <3>1 DEF Row
  <2>3. CASE t \notin S
    <3>1. token'[t] = token[t]
        BY <2>3
    <3> QED
        BY <2>1, <2>3, <3>1
  <2> QED
      BY <2>2, <2>3
<1>3. token' \in [Tokens -> Row]
    BY <1>2
<1> QED
    BY <1>2, <1>3 DEF Grows

LEMMA RevokingAll ==
    ASSUME IInv, NEW u \in Users, token' = RevokedAllOf(u)
    PROVE  /\ token' \in [Tokens -> Row] /\ Grows
           /\ \A t \in Tokens : token'[t].next = token[t].next
           /\ \A t \in Tokens : ~Issued(t) => token'[t] = token[t]
           /\ \A t \in Tokens : token'[t].user = u => token'[t].revoked
<1> DEFINE S == {t \in Tokens : token[t].user = u}
<1>1. token' = [t \in Tokens |-> IF t \in S
                   THEN [token[t] EXCEPT !.revoked = TRUE] ELSE token[t]]
    BY DEF RevokedAllOf
<1>2. S \in SUBSET Tokens
    OBVIOUS
<1>3. /\ token' \in [Tokens -> Row] /\ Grows
      /\ \A t \in Tokens : token'[t].next = token[t].next
      /\ \A t \in Tokens : t \notin S => token'[t] = token[t]
      /\ \A t \in S : token'[t].revoked
  <2> HIDE DEF S
  <2> QED
      BY <1>1, <1>2, Revoking
<1>4. \A t \in Tokens : ~Issued(t) => t \notin S
    BY DEF Issued
<1>5. \A t \in Tokens : token'[t].user = u => t \in S
    BY <1>3 DEF Grows, Issued
<1> QED
    BY <1>3, <1>4, <1>5

-----------------------------------------------------------------------------
(* Steps *)

LEMMA LoginKeeps ==
    ASSUME IInv, NEW p \in Procs, BeginLogin(p)
    PROVE  IInv' /\ Grows
<1>1. PICK u \in Users : Enter(p, "open", NoToken,
                            [Blank EXCEPT !.user = u, !.pw = password[u]])
    BY DEF BeginLogin
<1> DEFINE r == [Blank EXCEPT !.user = u, !.pw = password[u]]
<1>2. r \in Row /\ r.user = u /\ r.next = NoToken /\ ~r.revoked
    BY DEF IInv, TypeOK, Blank, Row
<1>3. TypeOK'
    BY <1>1, <1>2, EnterType DEF BeginLogin, Awaits, IInv, TypeOK
<1>4. Grows
    BY <1>1, Unchanged DEF Enter
<1>5. SnapshotFits(p)'
    BY <1>1, <1>2 DEF SnapshotFits, Enter, IInv, TypeOK, Reads
<1>6. SnapshotsFit'
    BY <1>1, <1>3, <1>4, <1>5, EnterSnapshots
<1>7. Sessions'
    BY <1>1, <1>3, TableUnchanged DEF BeginLogin, Enter
<1> QED
    BY <1>3, <1>4, <1>6, <1>7 DEF IInv

(* A request that found token t enters with its row. *)
LEMMA HoldsWhatItRead ==
    ASSUME IInv, NEW p \in Procs, NEW t \in Tokens, Issued(t), NEW step,
           NEW r \in Row, Enter(p, step, t, r),
           r.user = token[t].user, r.family = token[t].family,
           r.expires = token[t].expires, r.pw = token[t].pw,
           r.next = token[t].next
    PROVE  HoldsRow(p)'
<1>1. hash'[p] = t /\ seen'[p] = r /\ token' = token
    BY DEF Enter, IInv, TypeOK
<1>2. r.next \in Tokens \cup {NoToken}
    BY DEF Row
<1>3. r.next # NoToken =>
         Issued(r.next) /\ token[r.next].family = r.family
    BY DEF IInv, Sessions, ChainIsWhole
<1> QED
    BY <1>1, <1>2, <1>3 DEF HoldsRow, Issued

LEMMA BeginRefreshKeeps ==
    ASSUME IInv, NEW p \in Procs, BeginRefresh(p)
    PROVE  IInv' /\ Grows
<1>1. PICK t \in Tokens :
         /\ Issued(t)
         /\ \/ token[t].next # NoToken /\ Enter(p, "cut", t, token[t])
            \/ Usable(token[t]) /\ Enter(p, "rotate", t, token[t])
    BY DEF BeginRefresh
<1>2. PICK step \in {"cut", "rotate"} :
         /\ Enter(p, step, t, token[t])
         /\ step = "rotate" => Usable(token[t])
    BY <1>1
<1>3. token[t] \in Row
    BY DEF IInv, TypeOK
<1>4. TypeOK'
    BY <1>2, <1>3, EnterType DEF BeginRefresh, Awaits, IInv, TypeOK
<1>5. Grows
    BY <1>2, Unchanged DEF Enter
<1>6. HoldsRow(p)'
    BY <1>1, <1>2, <1>3, HoldsWhatItRead
<1>7. SnapshotFits(p)'
    BY <1>2, <1>6 DEF SnapshotFits, Enter, IInv, TypeOK, Usable
<1>8. SnapshotsFit'
    BY <1>2, <1>4, <1>5, <1>7, EnterSnapshots
<1>9. Sessions'
    BY <1>2, <1>4, TableUnchanged DEF BeginRefresh, Enter
<1> QED
    BY <1>4, <1>5, <1>8, <1>9 DEF IInv

LEMMA BeginLogoutKeeps ==
    ASSUME IInv, NEW p \in Procs, BeginLogout(p)
    PROVE  IInv' /\ Grows
<1>1. PICK t \in Tokens :
         Issued(t) /\ Enter(p, "load", t, [token[t] EXCEPT !.revoked = TRUE])
    BY DEF BeginLogout
<1> DEFINE r == [token[t] EXCEPT !.revoked = TRUE]
<1>2. token[t] \in Row
    BY DEF IInv, TypeOK
<1>3. /\ r \in Row /\ r.revoked
      /\ r.user = token[t].user /\ r.family = token[t].family
      /\ r.expires = token[t].expires /\ r.pw = token[t].pw
      /\ r.next = token[t].next
    BY <1>2 DEF Row
<1>4. TypeOK'
    BY <1>1, <1>3, EnterType DEF BeginLogout, Awaits, IInv, TypeOK
<1>5. Grows
    BY <1>1, Unchanged DEF Enter
<1>6. HoldsRow(p)'
  <2> HIDE DEF r
  <2>1. Enter(p, "load", t, r)
      BY <1>1 DEF r
  <2> QED
      BY <1>1, <1>3, <2>1, HoldsWhatItRead
<1>7. SnapshotFits(p)'
    BY <1>1, <1>3, <1>6 DEF SnapshotFits, Enter, IInv, TypeOK
<1>8. SnapshotsFit'
    BY <1>1, <1>4, <1>5, <1>7, EnterSnapshots
<1>9. Sessions'
    BY <1>1, <1>4, TableUnchanged DEF BeginLogout, Enter
<1> QED
    BY <1>4, <1>5, <1>8, <1>9 DEF IInv

LEMMA BeginResetKeeps ==
    ASSUME IInv, NEW p \in Procs, BeginReset(p)
    PROVE  IInv' /\ Grows
<1>1. PICK u \in Users :
         /\ Enter(p, "sweep", NoToken, [Blank EXCEPT !.user = u])
         /\ password' = [password EXCEPT ![u] = @ + 1]
         /\ unswept' = unswept \cup {u}
    BY DEF BeginReset
<1> DEFINE r == [Blank EXCEPT !.user = u]
<1>2. r \in Row /\ r.user = u
    BY DEF Blank, Row
<1>3. TypeOK'
  <2>1. password' \in [Users -> Nat] /\ unswept' \subseteq Users
      BY <1>1 DEF IInv, TypeOK
  <2> HIDE DEF r
  <2>2. Enter(p, "sweep", NoToken, r)
      BY <1>1 DEF r
  <2> QED
      BY <1>2, <2>1, <2>2, EnterType DEF Awaits, IInv
<1>4. Grows
    BY <1>1, Unchanged DEF Enter
<1>5. SnapshotFits(p)'
    BY <1>1, <1>2 DEF SnapshotFits, Enter, IInv, TypeOK, Reads
<1>6. SnapshotsFit'
    BY <1>1, <1>3, <1>4, <1>5, EnterSnapshots
<1>7. /\ OneLivePerFamily' /\ FixedLifetime' /\ ChainIsWhole'
      /\ CutFamiliesStayDead' /\ CutIssued'
    BY <1>1, <1>3, <1>4, Narrows DEF Enter
<1>8. OldSessionsEnd'
  <2>1. token' = token /\ late' = late
      BY <1>1 DEF Enter
  <2>2. \A v \in Users : v # u => password'[v] = password[v]
      BY <1>1 DEF IInv, TypeOK
  <2>3. \A t \in Tokens : Live(t) => token[t].user \in Users
      BY DEF IInv, TypeOK, Row, Live, Issued
  <2> QED
      BY <1>1, <2>1, <2>2, <2>3
         DEF IInv, Sessions, OldSessionsEnd, Live, Issued
<1> QED
    BY <1>3, <1>4, <1>6, <1>7, <1>8 DEF IInv, Sessions

LEMMA FinishResetKeeps ==
    ASSUME IInv, NEW p \in Procs, FinishReset(p)
    PROVE  IInv' /\ Grows
<1> DEFINE u == seen[p].user
<1>1. u \in Users
    BY DEF FinishReset, IInv, SnapshotsFit, SnapshotFits
<1>2. /\ token' \in [Tokens -> Row] /\ Grows
      /\ \A t \in Tokens : token'[t].next = token[t].next
      /\ \A t \in Tokens : ~Issued(t) => token'[t] = token[t]
      /\ \A t \in Tokens : token'[t].user = u => token'[t].revoked
    BY <1>1, RevokingAll DEF FinishReset
<1>3. TypeOK'
    BY <1>2, FinishType DEF FinishReset, IInv, TypeOK
<1>4. SnapshotsFit'
    BY <1>2, <1>3, FinishSnapshots DEF FinishReset
<1>5. /\ OneLivePerFamily' /\ FixedLifetime' /\ ChainIsWhole'
      /\ CutFamiliesStayDead' /\ CutIssued'
    BY <1>2, <1>3, Narrows DEF FinishReset
<1>6. OldSessionsEnd'
  <2> SUFFICES ASSUME NEW t \in Tokens, Live(t)',
                      token'[t].pw # password'[token'[t].user]
               PROVE  t \in late' \/ token'[t].user \in unswept'
      BY DEF OldSessionsEnd
  <2>1. /\ password' = password /\ late' = late
        /\ unswept' = unswept \ {u}
      BY DEF FinishReset
  <2>2. token'[t].user # u
      BY <1>2 DEF Live
  <2>3. Issued(t)
      BY <1>2 DEF Live, Issued
  <2>4. Live(t) /\ token'[t].user = token[t].user /\ token'[t].pw = token[t].pw
      BY <1>2, <2>3 DEF Live, Grows
  <2> QED
      BY <2>1, <2>2, <2>4 DEF IInv, Sessions, OldSessionsEnd
<1> QED
    BY <1>2, <1>3, <1>4, <1>5, <1>6 DEF IInv, Sessions

LEMMA LogoutAllKeeps ==
    ASSUME IInv, NEW u \in Users, LogoutAll(u)
    PROVE  IInv' /\ Grows
<1>1. /\ token' \in [Tokens -> Row] /\ Grows
      /\ \A t \in Tokens : token'[t].next = token[t].next
      /\ \A t \in Tokens : ~Issued(t) => token'[t] = token[t]
    BY RevokingAll DEF LogoutAll
<1>2. TypeOK'
    BY <1>1 DEF LogoutAll, IInv, TypeOK, reqVars, history
<1>3. SnapshotsFit'
    BY <1>1, <1>2, OthersKeep DEF SnapshotsFit, LogoutAll, reqVars
<1>4. Sessions'
    BY <1>1, <1>2, Narrows DEF LogoutAll, history, Sessions
<1> QED
    BY <1>1, <1>2, <1>3, <1>4 DEF IInv

LEMMA CutFamilyKeeps ==
    ASSUME IInv, NEW p \in Procs, CutFamily(p)
    PROVE  IInv' /\ Grows
<1> DEFINE f == seen[p].family
           S == {t \in Tokens : Issued(t) /\ token[t].family = f}
<1>1. HoldsRow(p)
    BY DEF CutFamily, IInv, SnapshotsFit, SnapshotFits, Reads
<1>2. f \in Tokens /\ Issued(f)
  <2>1. token[hash[p]].family = f /\ Issued(hash[p]) /\ hash[p] \in Tokens
      BY <1>1 DEF HoldsRow
  <2> QED
      BY <2>1 DEF IInv, Sessions, FixedLifetime, Issued
<1>3. /\ token' \in [Tokens -> Row] /\ Grows
      /\ \A t \in Tokens : token'[t].next = token[t].next
      /\ \A t \in Tokens : t \notin S => token'[t] = token[t]
      /\ \A t \in S : token'[t].revoked
  <2>1. token' = [t \in Tokens |-> IF t \in S
                     THEN [token[t] EXCEPT !.revoked = TRUE] ELSE token[t]]
      BY DEF CutFamily
  <2>2. S \in SUBSET Tokens
      OBVIOUS
  <2> HIDE DEF S
  <2> QED
      BY <2>1, <2>2, Revoking
<1>4. \A t \in Tokens : ~Issued(t) => token'[t] = token[t]
    BY <1>3
<1>5. TypeOK'
    BY <1>2, <1>3, FinishType DEF CutFamily, IInv, TypeOK
<1>6. SnapshotsFit'
    BY <1>3, <1>5, FinishSnapshots DEF CutFamily
<1>7. OneLivePerFamily' /\ FixedLifetime' /\ ChainIsWhole' /\ OldSessionsEnd'
  <2> HIDE DEF S
  <2> QED
      BY <1>3, <1>4, <1>5, Narrows DEF CutFamily
<1>8. CutIssued'
    BY <1>2, <1>3 DEF CutFamily, IInv, TypeOK, Sessions, CutIssued, Grows, Issued
<1>9. CutFamiliesStayDead'
  <2> SUFFICES ASSUME NEW t \in Tokens, Live(t)', token'[t].family \in cut'
               PROVE  t \in late'
      BY DEF CutFamiliesStayDead
  <2>1. t \notin S
      BY <1>3 DEF Live
  <2>2. token'[t] = token[t]
      BY <1>3, <2>1
  <2>3. Live(t) /\ token[t].family # f
      BY <2>1, <2>2 DEF Live, Issued
  <2> QED
      BY <2>2, <2>3 DEF CutFamily, IInv, Sessions, CutFamiliesStayDead
<1> QED
    BY <1>3, <1>5, <1>6, <1>7, <1>8, <1>9 DEF IInv, Sessions

(* A new token, the first of its family. *)
LEMMA OpenKeeps ==
    ASSUME IInv, NEW p \in Procs, Open(p)
    PROVE  IInv' /\ Grows
<1>1. PICK t \in Tokens :
         /\ ~Issued(t)
         /\ token' = [token EXCEPT ![t] =
                        [seen[p] EXCEPT !.family = t, !.expires = now + TTL]]
         /\ late' = IF seen[p].pw # password[seen[p].user]
                    THEN late \cup {t} ELSE late
    BY DEF Open
<1> DEFINE r == [seen[p] EXCEPT !.family = t, !.expires = now + TTL]
<1>2. /\ r \in Row /\ r.family = t /\ r.next = NoToken /\ ~r.revoked
      /\ r.user = seen[p].user /\ r.pw = seen[p].pw /\ r.user \in Users
  <2>1. /\ seen[p] \in Row /\ seen[p].next = NoToken /\ ~seen[p].revoked
        /\ seen[p].user \in Users
      BY DEF Open, IInv, TypeOK, SnapshotsFit, SnapshotFits
  <2>2. now + TTL \in Nat
      BY DEF IInv, TypeOK
  <2> QED
      BY <2>1, <2>2 DEF Row
<1>3. /\ token' \in [Tokens -> Row] /\ token'[t] = r
      /\ \A s \in Tokens \ {t} : token'[s] = token[s]
    BY <1>1, <1>2 DEF IInv, TypeOK
<1> HIDE DEF r
<1>4. Grows
    BY <1>1, <1>3 DEF Grows
<1>5. TypeOK'
    BY <1>1, <1>3, FinishType DEF Open, IInv, TypeOK
<1>6. SnapshotsFit'
    BY <1>4, <1>5, FinishSnapshots DEF Open
<1>7. \A s \in Tokens : Issued(s) => token[s].family # t
    BY <1>1 DEF IInv, Sessions, FixedLifetime, Issued
<1>8. \A s \in Tokens \ {t} : Live(s)' <=> Live(s)
    BY <1>3 DEF Live, Issued
<1>9. OneLivePerFamily'
    BY <1>1, <1>2, <1>3, <1>7, <1>8
       DEF IInv, Sessions, OneLivePerFamily, Live, Issued
<1>10. t \notin cut
    BY <1>1 DEF IInv, Sessions, CutIssued
<1>11. CutFamiliesStayDead' /\ CutIssued'
    BY <1>1, <1>2, <1>3, <1>8, <1>10
       DEF Open, IInv, Sessions, CutFamiliesStayDead, CutIssued, Issued
<1>12. OldSessionsEnd'
  <2> SUFFICES ASSUME NEW s \in Tokens, Live(s)',
                      token'[s].pw # password'[token'[s].user]
               PROVE  s \in late' \/ token'[s].user \in unswept'
      BY DEF OldSessionsEnd
  <2>1. CASE s = t
      BY <1>1, <1>2, <1>3, <2>1 DEF Open
  <2>2. CASE s # t
      BY <1>1, <1>3, <1>8, <2>2 DEF Open, IInv, Sessions, OldSessionsEnd
  <2> QED
      BY <2>1, <2>2
<1>13. FixedLifetime'
  <2> SUFFICES ASSUME NEW s \in Tokens, Issued(s)'
               PROVE  LET first == token'[s].family
                      IN  /\ first \in Tokens /\ token'[first].family = first
                          /\ token'[first].user = token'[s].user
                          /\ token'[first].expires = token'[s].expires
      BY DEF FixedLifetime
  <2>1. CASE s = t
      BY <1>2, <1>3, <2>1
  <2>2. CASE s # t
    <3>1. Issued(s) /\ token'[s] = token[s]
        BY <1>3, <2>2 DEF Issued
    <3> QED
        BY <1>3, <1>7, <3>1 DEF IInv, Sessions, FixedLifetime
  <2> QED
      BY <2>1, <2>2
<1>14. ChainIsWhole'
  <2> SUFFICES ASSUME NEW s \in Tokens, token'[s].next # NoToken
               PROVE  /\ token'[s].revoked
                      /\ token'[token'[s].next].user # NoUser
                      /\ token'[token'[s].next].family = token'[s].family
      BY DEF ChainIsWhole, Issued
  <2>1. s # t /\ token'[s] = token[s]
      BY <1>2, <1>3
  <2>2. token[s].next \in Tokens \ {t}
      BY <1>1, <2>1 DEF IInv, TypeOK, Row, Sessions, ChainIsWhole
  <2> QED
      BY <1>3, <2>1, <2>2 DEF IInv, Sessions, ChainIsWhole, Issued
<1> QED
    BY <1>4, <1>5, <1>6, <1>9, <1>11, <1>12, <1>13, <1>14 DEF IInv, Sessions

(* The token read leaves the family's line to its successor. *)
LEMMA RotateKeeps ==
    ASSUME IInv, NEW p \in Procs, Rotate(p)
    PROVE  IInv' /\ Grows
<1> DEFINE h == hash[p]
           r == seen[p]
<1>1. PICK n \in Tokens :
         /\ ~Issued(n)
         /\ token' = [token EXCEPT ![h].revoked = TRUE, ![h].next = n,
                                   ![n] = Successor(r)]
         /\ late' = IF IsLate(p) THEN late \cup {n} ELSE late
    BY DEF Rotate
<1>2. /\ r \in Row /\ HoldsRow(p) /\ h \in Tokens /\ Issued(h) /\ h # n
      /\ r.next = NoToken /\ ~r.revoked
    BY <1>1
       DEF Rotate, IInv, TypeOK, SnapshotsFit, SnapshotFits, Reads, HoldsRow
<1>3. /\ r.user = token[h].user /\ r.family = token[h].family
      /\ r.expires = token[h].expires /\ r.pw = token[h].pw
    BY <1>2 DEF HoldsRow
<1> HIDE DEF r, h
<1>4. token'[n] = r
  <2>1. Successor(r) = r
      BY <1>2 DEF Row, Successor
  <2> QED
      BY <1>1, <2>1 DEF IInv, TypeOK
<1>5. /\ token'[h] \in Row
      /\ token'[h].user = token[h].user /\ token'[h].family = token[h].family
      /\ token'[h].expires = token[h].expires /\ token'[h].pw = token[h].pw
      /\ token'[h].revoked /\ token'[h].next = n
    BY <1>1, <1>2 DEF IInv, TypeOK, Row
<1>6. \A s \in Tokens \ {h, n} : token'[s] = token[s]
    BY <1>1 DEF IInv, TypeOK
<1>7. token' \in [Tokens -> Row]
    BY <1>1, <1>2, <1>4, <1>5, <1>6 DEF IInv, TypeOK
<1>8. Grows
    BY <1>1, <1>5, <1>6 DEF Grows
<1>9. TypeOK'
  <2>1. late' \subseteq Tokens
      BY <1>1 DEF IInv, TypeOK
  <2>2. /\ Finish(p) /\ now' = now /\ password' = password /\ cut' = cut
        /\ unswept' = unswept /\ restarts' = restarts
      BY DEF Rotate
  <2> QED
      BY <1>7, <2>1, <2>2, FinishType DEF IInv, TypeOK
<1>10. SnapshotsFit'
    BY <1>8, <1>9, FinishSnapshots DEF Rotate
<1>11. late \subseteq late' /\ cut' = cut /\ password' = password /\ unswept' = unswept
    BY <1>1 DEF Rotate
<1>12. \A s \in Tokens \ {n} : Live(s)' => Live(s) /\ s # h /\ token'[s] = token[s]
    BY <1>5, <1>6 DEF Live, Issued
(* The new token is late, or the one it replaces was live until now. *)
<1>13. n \in late' \/ (Live(h) /\ h \notin late)
    BY <1>1, <1>2 DEF IsLate, Live, h, r
<1>14. OneLivePerFamily'
  <2> SUFFICES ASSUME NEW s \in Tokens, NEW t \in Tokens,
                      s # t, Live(s)', Live(t)',
                      token'[s].family = token'[t].family
               PROVE  s \in late' \/ t \in late'
      BY DEF OneLivePerFamily
  <2>1. ASSUME NEW a \in Tokens \ {n}, Live(a)', token'[a].family = r.family
        PROVE  a \in late' \/ n \in late'
      BY <1>2, <1>3, <1>11, <1>12, <1>13, <2>1
         DEF IInv, Sessions, OneLivePerFamily
  <2>2. CASE s # n /\ t # n
      BY <1>11, <1>12, <2>2 DEF IInv, Sessions, OneLivePerFamily
  <2>3. CASE s = n
      BY <1>4, <2>1, <2>3
  <2>4. CASE t = n
      BY <1>4, <2>1, <2>4
  <2> QED
      BY <2>2, <2>3, <2>4
<1>15. CutFamiliesStayDead'
  <2> SUFFICES ASSUME NEW t \in Tokens, Live(t)', token'[t].family \in cut
               PROVE  t \in late'
      BY <1>11 DEF CutFamiliesStayDead
  <2>1. CASE t = n
      BY <1>2, <1>3, <1>4, <1>13, <2>1 DEF IInv, Sessions, CutFamiliesStayDead
  <2>2. CASE t # n
      BY <1>11, <1>12, <2>2 DEF IInv, Sessions, CutFamiliesStayDead
  <2> QED
      BY <2>1, <2>2
<1>16. CutIssued'
    BY <1>8, <1>11 DEF IInv, TypeOK, Sessions, CutIssued, Grows, Issued
<1>17. OldSessionsEnd'
  <2> SUFFICES ASSUME NEW t \in Tokens, Live(t)',
                      token'[t].pw # password[token'[t].user]
               PROVE  t \in late' \/ token'[t].user \in unswept
      BY <1>11 DEF OldSessionsEnd
  <2>1. CASE t = n
      BY <1>2, <1>3, <1>4, <1>13, <2>1 DEF IInv, Sessions, OldSessionsEnd
  <2>2. CASE t # n
      BY <1>11, <1>12, <2>2 DEF IInv, Sessions, OldSessionsEnd
  <2> QED
      BY <2>1, <2>2
<1>18. FixedLifetime'
  <2> SUFFICES ASSUME NEW s \in Tokens, Issued(s)'
               PROVE  LET first == token'[s].family
                      IN  /\ first \in Tokens /\ token'[first].family = first
                          /\ token'[first].user = token'[s].user
                          /\ token'[first].expires = token'[s].expires
      BY DEF FixedLifetime
  <2>1. ASSUME NEW a \in Tokens, Issued(a)
        PROVE  LET first == token[a].family
               IN  /\ first \in Tokens /\ Issued(first)
                   /\ token'[first].family = first
                   /\ token'[first].user = token[a].user
                   /\ token'[first].expires = token[a].expires
      BY <1>8, <2>1 DEF IInv, Sessions, FixedLifetime, Issued, Grows
  <2>2. CASE s = n
      BY <1>2, <1>3, <1>4, <2>1, <2>2
  <2>3. CASE s # n
    <3>1. Issued(s)
        BY <1>2, <1>6, <2>3 DEF Issued
    <3> QED
        BY <1>8, <2>1, <3>1 DEF Grows
  <2> QED
      BY <2>2, <2>3
<1>19. ChainIsWhole'
  <2> SUFFICES ASSUME NEW s \in Tokens, token'[s].next # NoToken
               PROVE  /\ token'[s].revoked
                      /\ token'[token'[s].next].user # NoUser
                      /\ token'[token'[s].next].family = token'[s].family
      BY DEF ChainIsWhole, Issued
  <2>1. CASE s = n
      BY <1>2, <1>4, <2>1
  <2>2. CASE s = h
      BY <1>2, <1>3, <1>4, <1>5, <2>2 DEF Issued
  <2>3. CASE s \notin {n, h}
    <3>1. token'[s] = token[s] /\ token[s].next \in Tokens
        BY <1>6, <2>3 DEF IInv, TypeOK, Row
    <3>2. /\ token[s].revoked /\ Issued(token[s].next)
          /\ token[token[s].next].family = token[s].family
        BY <3>1 DEF IInv, Sessions, ChainIsWhole
    <3> QED
        BY <1>8, <3>1, <3>2 DEF Grows, Issued
  <2> QED
      BY <2>1, <2>2, <2>3
<1> QED
    BY <1>8, <1>9, <1>10, <1>14, <1>15, <1>16, <1>17, <1>18, <1>19
       DEF IInv, Sessions

LEMMA LoadKeeps ==
    ASSUME IInv, NEW p \in Procs, LoadForSave(p)
    PROVE  IInv' /\ Grows
<1> DEFINE d == {c \in {"revoked", "next"} : seen[p][c] # token[hash[p]][c]}
<1>1. /\ pc[p] = "load" /\ token' = token
      /\ UNCHANGED <<now, password, history, restarts>>
    BY DEF LoadForSave
<1>2. Grows
    BY <1>1, Unchanged
<1>3. CASE Finish(p)
  <2>1. TypeOK'
      BY <1>1, <1>3, FinishType DEF IInv, TypeOK, history
  <2>2. SnapshotsFit'
      BY <1>2, <1>3, <2>1, FinishSnapshots
  <2>3. Sessions'
      BY <1>1, <2>1, TableUnchanged DEF history
  <2> QED
      BY <1>2, <2>1, <2>2, <2>3 DEF IInv
<1>4. CASE /\ dirty' = [dirty EXCEPT ![p] = d]
           /\ pc' = [pc EXCEPT ![p] = "write"]
           /\ UNCHANGED <<hash, seen>>
  <2>1. TypeOK'
      BY <1>1, <1>4 DEF IInv, TypeOK, history, Awaits
  <2>2. HoldsRow(p) /\ seen[p].revoked
      BY <1>1 DEF IInv, SnapshotsFit, SnapshotFits, Reads
  <2>3. HoldsRow(p)'
      BY <1>1, <1>4, <2>2 DEF HoldsRow, Issued
  <2>4. "revoked" \in dirty'[p] \/ token'[hash'[p]].revoked
    <3>1. dirty'[p] = d
        BY <1>4 DEF IInv, TypeOK
    <3>2. seen[p].revoked = TRUE /\ token[hash[p]].revoked \in BOOLEAN
        BY <2>2 DEF IInv, TypeOK, Row, HoldsRow
    <3>3. CASE token[hash[p]].revoked
        BY <1>1, <1>4, <3>3
    <3>4. CASE ~token[hash[p]].revoked
        BY <3>1, <3>2, <3>4
    <3> QED
        BY <3>3, <3>4
  <2>5. SnapshotFits(p)'
    <3>1. pc'[p] = "write" /\ seen'[p] = seen[p]
        BY <1>4 DEF IInv, TypeOK
    <3> QED
        BY <2>2, <2>3, <2>4, <3>1 DEF SnapshotFits
  <2>6. ASSUME NEW q \in Procs, q # p PROVE SnapshotFits(q)'
      BY <1>2, <1>4, <2>1, <2>6, OthersKeep DEF IInv, TypeOK
  <2>7. SnapshotsFit'
      BY <2>5, <2>6 DEF SnapshotsFit
  <2>8. Sessions'
      BY <1>1, <2>1, TableUnchanged DEF history
  <2> QED
      BY <1>2, <2>1, <2>7, <2>8 DEF IInv
<1> QED
    BY <1>3, <1>4 DEF LoadForSave

LEMMA WriteKeeps ==
    ASSUME IInv, NEW p \in Procs, WriteDirty(p)
    PROVE  IInv' /\ Grows
<1> DEFINE h == hash[p]
           r == seen[p]
           value(c) == IF c \in dirty[p] THEN r[c] ELSE token[h][c]
           w == [token[h] EXCEPT !.revoked = value("revoked"),
                                 !.next = value("next")]
<1>1. /\ HoldsRow(p) /\ r.revoked /\ r \in Row /\ token[h] \in Row
      /\ h \in Tokens /\ Issued(h)
      /\ "revoked" \in dirty[p] \/ token[h].revoked
    BY DEF WriteDirty, IInv, TypeOK, SnapshotsFit, SnapshotFits, Reads, HoldsRow
<1>2. /\ w \in Row /\ w.revoked
      /\ w.user = token[h].user /\ w.family = token[h].family
      /\ w.expires = token[h].expires /\ w.pw = token[h].pw
      /\ w.next = token[h].next \/ w.next = r.next
    BY <1>1 DEF Row
<1>3. token' = [token EXCEPT ![h].revoked = value("revoked"),
                            ![h].next = value("next")]
    BY DEF WriteDirty
<1>4. r.next # NoToken => Issued(r.next) /\ token[r.next].family = token[h].family
    BY <1>1 DEF HoldsRow
<1> HIDE DEF value, r, h
<1>5. /\ token' \in [Tokens -> Row] /\ token'[h] = w
      /\ \A t \in Tokens \ {h} : token'[t] = token[t]
    BY <1>1, <1>2, <1>3 DEF IInv, TypeOK
<1>6. Grows
    BY <1>2, <1>5 DEF Grows
<1>7. /\ Finish(p) /\ UNCHANGED <<now, password, cut, late, unswept, restarts>>
    BY DEF WriteDirty, history
<1>8. TypeOK'
    BY <1>5, <1>7, FinishType DEF IInv, TypeOK
<1>9. SnapshotsFit'
    BY <1>6, <1>7, <1>8, FinishSnapshots
<1>10. \A t \in Tokens : ~Issued(t) => token'[t] = token[t]
    BY <1>1, <1>5
<1>11. \A t \in Tokens :
          \/ token'[t].next = token[t].next
          \/ /\ token'[t].revoked
             /\ token'[t].next # NoToken =>
                   /\ Issued(token'[t].next)
                   /\ token[token'[t].next].family = token[t].family
  <2> TAKE t \in Tokens
  <2>1. CASE t = h
      BY <1>2, <1>4, <1>5, <2>1
  <2>2. CASE t # h
      BY <1>5, <2>2
  <2> QED
      BY <2>1, <2>2
<1>12. Sessions'
    BY <1>6, <1>7, <1>8, <1>10, <1>11, Narrows DEF Sessions
<1> QED
    BY <1>6, <1>8, <1>9, <1>12 DEF IInv

LEMMA RestartKeeps ==
    ASSUME IInv, Restart
    PROVE  IInv' /\ Grows
<1>1. Grows
    BY Unchanged DEF Restart
<1>2. TypeOK'
    BY BlankType DEF Restart, IInv, TypeOK, Awaits, history
<1>3. SnapshotsFit'
    BY DEF Restart, SnapshotsFit, SnapshotFits, Reads
<1>4. Sessions'
    BY <1>2, TableUnchanged DEF Restart, history
<1> QED
    BY <1>1, <1>2, <1>3, <1>4 DEF IInv

LEMMA TickKeeps ==
    ASSUME IInv, Tick \/ UNCHANGED vars
    PROVE  IInv' /\ Grows
<1>1. UNCHANGED <<token, password, reqVars, history>> /\ now' \in Nat /\ restarts' = restarts
    BY DEF Tick, vars, IInv, TypeOK
<1>2. Grows
    BY <1>1, Unchanged
<1>3. TypeOK'
    BY <1>1 DEF IInv, TypeOK, reqVars, history
<1>4. SnapshotsFit'
    BY <1>1, <1>2, <1>3, OthersKeep DEF SnapshotsFit, reqVars
<1>5. Sessions'
    BY <1>1, <1>3, TableUnchanged DEF history
<1> QED
    BY <1>2, <1>3, <1>4, <1>5 DEF IInv

-----------------------------------------------------------------------------
(* Theorems *)

LEMMA InitIInv == Init => IInv
<1> SUFFICES ASSUME Init PROVE IInv
    OBVIOUS
<1>1. \A t \in Tokens : ~Issued(t) /\ token[t].next = NoToken
    BY DEF Init, Issued, Blank
<1>2. TypeOK
    BY BlankType DEF Init, TypeOK, Awaits
<1>3. Sessions
    BY <1>1 DEF Init, Sessions, OneLivePerFamily, CutFamiliesStayDead,
       OldSessionsEnd, FixedLifetime, ChainIsWhole, CutIssued, Live
<1>4. SnapshotsFit
    BY DEF Init, SnapshotsFit, SnapshotFits, Reads
<1> QED
    BY <1>2, <1>3, <1>4 DEF IInv

LEMMA NextIInv == IInv /\ [Next]_vars => IInv' /\ Grows
<1> SUFFICES ASSUME IInv, [Next]_vars PROVE IInv' /\ Grows
    OBVIOUS
<1>1. ASSUME NEW p \in Procs, BeginLogin(p) PROVE IInv' /\ Grows
    BY <1>1, LoginKeeps
<1>2. ASSUME NEW p \in Procs, Open(p) PROVE IInv' /\ Grows
    BY <1>2, OpenKeeps
<1>3. ASSUME NEW p \in Procs, BeginRefresh(p) PROVE IInv' /\ Grows
    BY <1>3, BeginRefreshKeeps
<1>4. ASSUME NEW p \in Procs, CutFamily(p) PROVE IInv' /\ Grows
    BY <1>4, CutFamilyKeeps
<1>5. ASSUME NEW p \in Procs, Rotate(p) PROVE IInv' /\ Grows
    BY <1>5, RotateKeeps
<1>6. ASSUME NEW p \in Procs, BeginLogout(p) PROVE IInv' /\ Grows
    BY <1>6, BeginLogoutKeeps
<1>7. ASSUME NEW p \in Procs, LoadForSave(p) PROVE IInv' /\ Grows
    BY <1>7, LoadKeeps
<1>8. ASSUME NEW p \in Procs, WriteDirty(p) PROVE IInv' /\ Grows
    BY <1>8, WriteKeeps
<1>9. ASSUME NEW p \in Procs, BeginReset(p) PROVE IInv' /\ Grows
    BY <1>9, BeginResetKeeps
<1>10. ASSUME NEW p \in Procs, FinishReset(p) PROVE IInv' /\ Grows
    BY <1>10, FinishResetKeeps
<1>11. ASSUME NEW u \in Users, LogoutAll(u) PROVE IInv' /\ Grows
    BY <1>11, LogoutAllKeeps
<1>12. CASE Restart
    BY <1>12, RestartKeeps
<1>13. CASE Tick \/ UNCHANGED vars
    BY <1>13, TickKeeps
<1> QED
    BY <1>1, <1>2, <1>3, <1>4, <1>5, <1>6, <1>7, <1>8, <1>9, <1>10, <1>11,
       <1>12, <1>13 DEF Next

LEMMA Inductive == Spec => []IInv
<1>1. Init => IInv
    BY InitIInv
<1>2. IInv /\ [Next]_vars => IInv'
    BY NextIInv
<1> QED
    BY <1>1, <1>2, PTL DEF Spec

(* Every variable has its type, and an idle request holds nothing, for any   *)
(* number of tokens, users and requests in flight.                           *)
THEOREM TypeCorrect == Spec => []TypeOK
<1>1. IInv => TypeOK
    BY DEF IInv
<1> QED
    BY <1>1, Inductive, PTL

(* A session is one token at a time, but for tokens issued from a stale row  *)
(* (refresh, logout and reuse detection, in any interleaving).               *)
THEOREM OneLive == Spec => []OneLivePerFamily
<1>1. IInv => OneLivePerFamily
    BY DEF IInv, Sessions
<1> QED
    BY <1>1, Inductive, PTL

(* A family revoked by reuse detection never has a live token again, but for *)
(* those issued from a stale row.                                            *)
THEOREM CutStaysDead == Spec => []CutFamiliesStayDead
<1>1. IInv => CutFamiliesStayDead
    BY DEF IInv, Sessions
<1> QED
    BY <1>1, Inductive, PTL

(* Sessions opened with an older password end with the reset, but for tokens *)
(* issued from a stale read and resets that did not get to revoke.           *)
THEOREM OldEnd == Spec => []OldSessionsEnd
<1>1. IInv => OldSessionsEnd
    BY DEF IInv, Sessions
<1> QED
    BY <1>1, Inductive, PTL

(* No refresh prolongs a session or changes whose it is.                     *)
THEOREM Lifetime == Spec => []FixedLifetime
<1>1. IInv => FixedLifetime
    BY DEF IInv, Sessions
<1> QED
    BY <1>1, Inductive, PTL

(* A replaced token is revoked and its successor exists, whichever request   *)
(* wrote the row last.                                                       *)
THEOREM WholeChains == Spec => []ChainIsWhole
<1>1. IInv => ChainIsWhole
    BY DEF IInv, Sessions
<1> QED
    BY <1>1, Inductive, PTL

(* No write of a stale row un-revokes a token.                               *)
THEOREM NeverUnrevoked == Spec => RevokedForever
<1>1. IInv /\ [Next]_vars =>
         [\A t \in Tokens : Issued(t) =>
             /\ Issued(t)' /\ (token[t].revoked => token'[t].revoked)]_token
  <2> SUFFICES ASSUME IInv, [Next]_vars
               PROVE  \A t \in Tokens : Issued(t) =>
                         /\ Issued(t)' /\ (token[t].revoked => token'[t].revoked)
      OBVIOUS
  <2>1. Grows
      BY NextIInv
  <2> QED
      BY <2>1 DEF Grows, Issued
<1> QED
    BY <1>1, Inductive, PTL DEF Spec, RevokedForever
=============================================================================
