---------------------------- MODULE FaqBoardProofs ----------------------------
(***************************************************************************)
(* The order of the questions, for any number of administrators, questions *)
(* and orders they may ask for.                                            *)
(***************************************************************************)
EXTENDS FaqBoard, FiniteSetTheorems, TLAPS

FaqSpec == FaqInit /\ [][FaqNext]_faqVars

Steps == {"idle", "insert", "reload", "write", "reinsert", "delete", "commit"}
Request == [at : Steps, id : Nat, order : Nat, asked : BOOLEAN, stale : BOOLEAN, ids : Seq(Nat)]
Edits == {"reload", "write", "reinsert"}

FaqTypes ==
    /\ used \in Nat
    /\ DOMAIN faqs \subseteq 1 .. used /\ faqs \in [DOMAIN faqs -> Nat]
    /\ clerks \in [Clerks -> Request]
    /\ kept \in Seq(1 .. used)
    /\ \A c \in Clerks : clerks[c].at \in Edits => clerks[c].id \in 1 .. used

\* A request that would not undo the order the owner gave.
Trusted(c) == ~clerks[c].asked /\ ~clerks[c].stale

\* The rows that carry the order the owner gave, and what is or will be behind each.
Ordered ==
    \A k \in DOMAIN kept : kept[k] \in DOMAIN faqs =>
        /\ faqs[kept[k]] = k - 1
        /\ \A id \in DOMAIN faqs : (\A l \in DOMAIN kept : kept[l] # id) => faqs[id] > k - 1
        /\ \A c \in Clerks : clerks[c].at = "insert" /\ Trusted(c) => clerks[c].order > k - 1

\* An edit that asks for no place and has seen the order writes the row's own.
Current ==
    \A c \in Clerks : (kept # <<>> /\ clerks[c].at \in {"reload", "write"} /\ Trusted(c)
                          /\ clerks[c].id \in DOMAIN faqs) => clerks[c].order = faqs[clerks[c].id]

FaqInv == FaqTypes /\ Ordered /\ Current

-----------------------------------------------------------------------------
LEMMA FiniteRows == ASSUME FaqTypes PROVE IsFiniteSet(DOMAIN faqs)
<1>1. used \in Int /\ DOMAIN faqs \in SUBSET (1 .. used) BY DEF FaqTypes
<1>2. IsFiniteSet(1 .. used) BY <1>1, FS_Interval
<1> QED BY <1>1, <1>2, FS_Subset

(* A finite set of numbers has a greatest one. *)
LEMMA Greatest ==
    ASSUME NEW S, IsFiniteSet(S), S \subseteq Nat, S # {}
    PROVE  Max(S) \in S /\ \A x \in S : x <= Max(S)
<1> DEFINE Bad == {T \in SUBSET S : T # {} /\ ~\E m \in T : \A x \in T : x <= m}
<1>1. Bad = {}
  <2>1. SUFFICES ASSUME Bad # {} PROVE FALSE OBVIOUS
  <2>2. Bad \subseteq FiniteSubsetsOf(S) BY FS_FiniteSubsetsOfFinite
  <2> HIDE DEF Bad
  <2>3. PICK T \in Bad : \A U \in Bad : ~(<<U, T>> \in StrictSubsetOrdering(S))
    BY <2>1, <2>2, FS_StrictSubsetOrderingWellFounded, WFMin
  <2>4. T \in SUBSET S /\ T # {} /\ ~\E m \in T : \A x \in T : x <= m BY <2>3 DEF Bad
  <2>5. PICK y \in T : TRUE BY <2>4
  <2>6. T \ {y} # {} BY <2>4, <2>5
  <2>7. T \ {y} \notin Bad
    <3>1. T \ {y} \subseteq T /\ T \ {y} # T /\ T \ {y} \in SUBSET S BY <2>4, <2>5
    <3> QED BY <2>3, <2>4, <3>1 DEF StrictSubsetOrdering
  <2>8. PICK m \in T \ {y} : \A x \in T \ {y} : x <= m BY <2>4, <2>6, <2>7 DEF Bad
  <2>9. CASE y <= m BY <2>4, <2>8, <2>9
  <2>10. CASE ~(y <= m)
    <3>1. \A x \in T : x <= y BY <2>4, <2>5, <2>8, <2>10
    <3> QED BY <2>4, <2>5, <3>1
  <2> QED BY <2>9, <2>10
<1>2. PICK m \in S : \A x \in S : x <= m BY <1>1
<1>3. \E m1 \in S : \A x \in S : m1 >= x BY <1>2
<1> QED BY <1>3 DEF Max

(* The place that follows the last one: siguientePuesto. *)
LEMMA NextPlace ==
    ASSUME FaqTypes
    PROVE  siguientePuesto \in Nat /\ \A i \in DOMAIN faqs : faqs[i] < siguientePuesto
<1>1. CASE DOMAIN faqs = {} BY <1>1 DEF siguientePuesto
<1>2. CASE DOMAIN faqs # {}
  <2> DEFINE S == {faqs[i] : i \in DOMAIN faqs}
  <2>1. IsFiniteSet(DOMAIN faqs) BY FiniteRows
  <2>2. IsFiniteSet(S)
    <3>1. faqs \in Surjection(DOMAIN faqs, S) BY DEF FaqTypes, Surjection
    <3> QED BY <2>1, <3>1, FS_Surjection
  <2>3. S \subseteq Nat /\ S # {} BY <1>2 DEF FaqTypes
  <2>4. siguientePuesto = Max(S) + 1 BY <1>2 DEF siguientePuesto
  <2>5. \A i \in DOMAIN faqs : faqs[i] \in S /\ faqs[i] \in Nat BY DEF FaqTypes
  <2> HIDE DEF S
  <2>6. Max(S) \in Nat /\ \A x \in S : x <= Max(S) BY <2>2, <2>3, Greatest
  <2> QED BY <2>3, <2>4, <2>5, <2>6
<1> QED BY <1>1, <1>2

(* A list accepted is every question there is, each once: esElMismoConjunto. *)
LEMMA SameSet ==
    ASSUME NEW S, IsFiniteSet(S), NEW ids \in Seq(Nat), esElMismoConjunto(ids, S)
    PROVE  /\ S = {ids[k] : k \in 1 .. Len(ids)}
           /\ \A k, l \in 1 .. Len(ids) : ids[k] = ids[l] => k = l
<1> DEFINE T == {ids[k] : k \in 1 .. Len(ids)}
<1>1. ToSet(ids) = T BY DEF ToSet
<1>2. Len(ids) \in Nat /\ Len(ids) = Cardinality(S) /\ Cardinality(T) = Len(ids) /\ T \subseteq S
  BY <1>1 DEF esElMismoConjunto
<1>3. S = T BY <1>2, FS_Subset
<1>4. IsFiniteSet(1 .. Len(ids)) /\ Cardinality(1 .. Len(ids)) = Len(ids) BY <1>2, FS_Interval
<1>5. ids \in Surjection(1 .. Len(ids), T) BY DEF Surjection
<1> HIDE DEF T
<1>6. ids \in Injection(1 .. Len(ids), T) BY <1>2, <1>4, <1>5, FS_Surjection
<1>7. \A k, l \in 1 .. Len(ids) : ids[k] = ids[l] => k = l BY <1>6 DEF Injection, IsInjective
<1> QED BY <1>3, <1>7 DEF T

-----------------------------------------------------------------------------
LEMMA FreeRequest ==
    /\ Free \in Request /\ Free.at = "idle" /\ Free.id = 0 /\ Free.order = 0
    /\ Free.ids = <<>> /\ ~Free.asked /\ ~Free.stale
<1>1. <<>> \in Seq(Nat) OBVIOUS
<1> QED BY <1>1 DEF Free, Request, Steps

LEMMA FaqInitInv == ASSUME FaqAssumption PROVE FaqInit => FaqInv
<1> SUFFICES ASSUME FaqInit PROVE FaqInv OBVIOUS
<1>1. Oldest \in Seq(Nat) BY DEF FaqAssumption
<1>2. used \in Nat /\ DOMAIN faqs = 1 .. used /\ faqs \in [DOMAIN faqs -> Nat] BY <1>1 DEF FaqInit
<1>3. kept = <<>> /\ kept \in Seq(1 .. used) BY DEF FaqInit
<1>4. clerks \in [Clerks -> Request] BY FreeRequest DEF FaqInit
<1>5. \A c \in Clerks : clerks[c] = Free BY DEF FaqInit
<1> QED BY <1>2, <1>3, <1>4, <1>5, FreeRequest DEF FaqInv, FaqTypes, Ordered, Current, Edits

(* Where nothing is kept, only the types matter. *)
LEMMA NothingKept == ASSUME FaqTypes', kept' = <<>> PROVE FaqInv'
BY DEF FaqInv, Ordered, Current

(* A request that goes on without writing. *)
LEMMA GoesOn ==
    ASSUME FaqInv, NEW c \in Clerks, NEW new \in Request,
           clerks' = [clerks EXCEPT ![c] = new], UNCHANGED <<faqs, used, kept>>,
           new.at \in Edits => new.id \in 1 .. used,
           (new.at = "insert" /\ ~new.asked /\ ~new.stale) =>
               \A i \in DOMAIN faqs : faqs[i] < new.order,
           (kept # <<>> /\ new.at \in {"reload", "write"} /\ ~new.asked /\ ~new.stale
              /\ new.id \in DOMAIN faqs) => new.order = faqs[new.id]
    PROVE  FaqInv'
<1>1. \A d \in Clerks : clerks'[d] = IF d = c THEN new ELSE clerks[d] BY DEF FaqInv, FaqTypes
<1>2. FaqTypes' BY <1>1 DEF FaqInv, FaqTypes
<1>3. new.order \in Nat BY DEF Request
<1>4. Ordered'
  <2> SUFFICES ASSUME NEW k \in DOMAIN kept, kept[k] \in DOMAIN faqs
               PROVE  /\ faqs[kept[k]] = k - 1
                      /\ \A id \in DOMAIN faqs : (\A l \in DOMAIN kept : kept[l] # id) => faqs[id] > k - 1
                      /\ \A d \in Clerks : clerks'[d].at = "insert" /\ ~clerks'[d].asked /\ ~clerks'[d].stale
                                              => clerks'[d].order > k - 1
    BY DEF Ordered, Trusted
  <2>1. /\ faqs[kept[k]] = k - 1
        /\ \A id \in DOMAIN faqs : (\A l \in DOMAIN kept : kept[l] # id) => faqs[id] > k - 1
        /\ \A d \in Clerks : clerks[d].at = "insert" /\ Trusted(d) => clerks[d].order > k - 1
    BY DEF FaqInv, Ordered
  <2>2. k \in Nat BY DEF FaqInv, FaqTypes
  <2>3. new.at = "insert" /\ ~new.asked /\ ~new.stale => new.order > k - 1 BY <1>3, <2>1, <2>2
  <2> QED BY <1>1, <2>1, <2>3 DEF Trusted
<1>5. Current' BY <1>1 DEF FaqInv, Current, Trusted
<1> QED BY <1>2, <1>4, <1>5 DEF FaqInv

(* A request that is over, and what it wrote left the rows as they were or *)
(* took some away.                                                         *)
LEMMA Removes ==
    ASSUME FaqInv, NEW c \in Clerks, clerks' = [clerks EXCEPT ![c] = Free], UNCHANGED <<used, kept>>,
           DOMAIN faqs' \subseteq DOMAIN faqs, faqs' = [i \in DOMAIN faqs' |-> faqs[i]]
    PROVE  FaqInv'
<1>1. \A d \in Clerks : clerks'[d] = clerks[d] \/ clerks'[d].at = "idle"
  BY FreeRequest DEF FaqInv, FaqTypes
<1>2. FaqTypes' BY <1>1, FreeRequest DEF FaqInv, FaqTypes, Edits
<1>3. \A i \in DOMAIN faqs' : faqs'[i] = faqs[i] /\ i \in DOMAIN faqs OBVIOUS
<1>4. Ordered' BY <1>1, <1>3 DEF FaqInv, Ordered, Trusted
<1>5. Current' BY <1>1, <1>3 DEF FaqInv, Current, Trusted
<1> QED BY <1>2, <1>4, <1>5 DEF FaqInv

-----------------------------------------------------------------------------
(* The steps of a request. *)
LEMMA Stored ==
    ASSUME FaqInv, NEW c \in Clerks PROVE clerks[c] \in Request
BY DEF FaqInv, FaqTypes

LEMMA GoesTo ==
    ASSUME FaqInv, NEW c \in Clerks, NEW at \in Steps \ {"insert", "reload"}, ClerkAt(c, at),
           UNCHANGED <<faqs, used, kept>>,
           at \in Edits => clerks[c].at = "reload"
    PROVE  FaqInv'
<1> DEFINE new == [clerks[c] EXCEPT !.at = at]
<1>1. clerks[c] \in Request BY Stored
<1>2. /\ new \in Request /\ new.at = at /\ new.id = clerks[c].id /\ new.order = clerks[c].order
      /\ new.asked = clerks[c].asked /\ new.stale = clerks[c].stale
  BY <1>1 DEF Request
<1>3. clerks' = [clerks EXCEPT ![c] = new] BY DEF ClerkAt
<1> HIDE DEF new
<1>4. (kept # <<>> /\ new.at \in {"reload", "write"} /\ ~new.asked /\ ~new.stale
         /\ new.id \in DOMAIN faqs) => new.order = faqs[new.id]
  BY <1>2 DEF FaqInv, Current, Trusted, Edits
<1>5. new.at \in Edits => new.id \in 1 .. used BY <1>2 DEF FaqInv, FaqTypes, Edits
<1> QED BY <1>2, <1>3, <1>4, <1>5, GoesOn

LEMMA CreateBegins == ASSUME FaqInv, NEW c \in Clerks, BeginCreateFaq(c), FaqAssumption PROVE FaqInv'
<1>1. PICK order \in Explicit \union {siguientePuesto} :
         clerks' = [clerks EXCEPT ![c] = [Free EXCEPT !.at = "insert", !.order = order,
                                                      !.asked = order # siguientePuesto]]
  BY DEF BeginCreateFaq
<1> DEFINE new == [Free EXCEPT !.at = "insert", !.order = order, !.asked = order # siguientePuesto]
<1>2. siguientePuesto \in Nat /\ \A i \in DOMAIN faqs : faqs[i] < siguientePuesto
  BY NextPlace DEF FaqInv
<1>3. order \in Nat BY <1>2 DEF FaqAssumption
<1> HIDE DEF siguientePuesto
<1>4. new \in Request /\ new.at = "insert" /\ new.order = order /\ (new.asked <=> order # siguientePuesto)
  BY <1>3, FreeRequest DEF Request, Steps
<1>5. clerks' = [clerks EXCEPT ![c] = new] /\ UNCHANGED <<faqs, used, kept>> BY <1>1 DEF BeginCreateFaq
<1> HIDE DEF new
<1> QED BY <1>2, <1>4, <1>5, GoesOn DEF Edits

LEMMA UpdateBegins == ASSUME FaqInv, NEW c \in Clerks, BeginUpdateFaq(c), FaqAssumption PROVE FaqInv'
<1>1. PICK id \in DOMAIN faqs : \E order \in Explicit \union {faqs[id]} :
         clerks' = [clerks EXCEPT ![c] = [Free EXCEPT !.at = "reload", !.id = id, !.order = order,
                                                      !.asked = order # faqs[id]]]
  BY DEF BeginUpdateFaq
<1>2. PICK order \in Explicit \union {faqs[id]} :
         clerks' = [clerks EXCEPT ![c] = [Free EXCEPT !.at = "reload", !.id = id, !.order = order,
                                                      !.asked = order # faqs[id]]]
  BY <1>1
<1> DEFINE new == [Free EXCEPT !.at = "reload", !.id = id, !.order = order, !.asked = order # faqs[id]]
<1>3. order \in Nat /\ id \in Nat /\ id \in 1 .. used BY DEF FaqAssumption, FaqInv, FaqTypes
<1>4. /\ new \in Request /\ new.at = "reload" /\ new.id = id /\ new.order = order
      /\ new.asked <=> order # faqs[id]
  BY <1>3, FreeRequest DEF Request, Steps
<1>5. clerks' = [clerks EXCEPT ![c] = new] /\ UNCHANGED <<faqs, used, kept>> BY <1>2 DEF BeginUpdateFaq
<1> HIDE DEF new
<1> QED BY <1>4, <1>5, <1>3, GoesOn DEF Edits

LEMMA RemoveBegins == ASSUME FaqInv, NEW c \in Clerks, BeginRemoveFaq(c) PROVE FaqInv'
<1>1. PICK id \in DOMAIN faqs : clerks' = [clerks EXCEPT ![c] = [Free EXCEPT !.at = "delete", !.id = id]]
  BY DEF BeginRemoveFaq
<1> DEFINE new == [Free EXCEPT !.at = "delete", !.id = id]
<1>2. id \in Nat BY DEF FaqInv, FaqTypes
<1>3. new \in Request /\ new.at = "delete" BY <1>2, FreeRequest DEF Request, Steps
<1>4. clerks' = [clerks EXCEPT ![c] = new] /\ UNCHANGED <<faqs, used, kept>> BY <1>1 DEF BeginRemoveFaq
<1> HIDE DEF new
<1> QED BY <1>3, <1>4, <1>2, GoesOn DEF Edits

LEMMA Ends ==
    ASSUME FaqInv, NEW c \in Clerks, ClerkFree(c), UNCHANGED <<faqs, used, kept>> PROVE FaqInv'
<1>1. clerks' = [clerks EXCEPT ![c] = Free] BY DEF ClerkFree
<1> QED BY <1>1, FreeRequest, GoesOn DEF Edits

LEMMA RowRead == ASSUME FaqInv, NEW c \in Clerks, ReloadFaq(c) PROVE FaqInv'
<1>1. UNCHANGED <<faqs, used, kept>> /\ clerks[c].at = "reload" BY DEF ReloadFaq
<1>2. CASE ClerkFree(c) BY <1>1, <1>2, Ends
<1>3. CASE ClerkAt(c, "write") BY <1>1, <1>3, GoesTo DEF Steps
<1>4. CASE ClerkAt(c, "reinsert") BY <1>1, <1>4, GoesTo DEF Steps
<1> QED BY <1>2, <1>3, <1>4 DEF ReloadFaq

\* What a write of the row id leaves of the types.
LEMMA WritesTypes ==
    ASSUME FaqInv, NEW c \in Clerks, clerks' = [clerks EXCEPT ![c] = Free],
           NEW id \in Nat, NEW order \in Nat, faqs' = WithFaq(id, order),
           used' \in Nat, used <= used', id \in 1 .. used', kept' \in {<<>>, kept}
    PROVE  FaqTypes'
<1>1. clerks' \in [Clerks -> Request] BY FreeRequest DEF FaqInv, FaqTypes
<1>2. \A d \in Clerks : clerks'[d].at \in Edits => clerks'[d].id \in 1 .. used'
  <2>1. \A d \in Clerks : clerks'[d] = clerks[d] \/ clerks'[d].at = "idle"
    BY FreeRequest DEF FaqInv, FaqTypes
  <2> QED BY <2>1 DEF FaqInv, FaqTypes, Edits
<1>3. DOMAIN faqs' = DOMAIN faqs \union {id} BY DEF WithFaq
<1>4. faqs' \in [DOMAIN faqs \union {id} -> Nat] BY DEF WithFaq, FaqInv, FaqTypes
<1>5. DOMAIN faqs' \subseteq 1 .. used' BY <1>3 DEF FaqInv, FaqTypes
<1>6. kept' \in Seq(1 .. used')
  <2>1. kept \in Seq(1 .. used) BY DEF FaqInv, FaqTypes
  <2>2. used \in Nat /\ used' \in Nat /\ used <= used' BY DEF FaqInv, FaqTypes
  <2>3. \A k \in 1 .. Len(kept) : kept[k] \in 1 .. used' BY <2>1, <2>2
  <2>4. kept \in Seq(1 .. used') BY <2>1, <2>3
  <2>5. <<>> \in Seq(1 .. used') OBVIOUS
  <2> QED BY <2>4, <2>5
<1> QED BY <1>1, <1>3, <1>4, <1>5, <1>6, <1>2 DEF FaqTypes

LEMMA Inserts == ASSUME FaqInv, NEW c \in Clerks, InsertFaq(c) PROVE FaqInv'
<1>1. /\ clerks[c].at = "insert" /\ faqs' = WithFaq(used + 1, clerks[c].order) /\ used' = used + 1
      /\ kept' = Undone(c) /\ clerks' = [clerks EXCEPT ![c] = Free]
  BY DEF InsertFaq, ClerkFree
<1>2. used \in Nat /\ clerks[c].order \in Nat BY Stored DEF FaqInv, FaqTypes, Request
<1>3. FaqTypes'
  <2>1. used + 1 \in Nat /\ used <= used' /\ used' \in Nat /\ used + 1 \in 1 .. used' BY <1>1, <1>2
  <2>2. kept' \in {<<>>, kept} BY <1>1 DEF Undone
  <2> QED BY <1>1, <1>2, <2>1, <2>2, WritesTypes
<1>4. CASE kept' = <<>> BY <1>3, <1>4, NothingKept
<1>5. CASE kept' # <<>>
  <2>1. Trusted(c) /\ kept' = kept BY <1>1, <1>5 DEF Undone, Trusted
  <2>2. used + 1 \notin DOMAIN faqs /\ \A k \in DOMAIN kept : kept[k] # used + 1
    BY <1>2 DEF FaqInv, FaqTypes
  <2>3. /\ DOMAIN faqs' = DOMAIN faqs \union {used + 1} /\ faqs'[used + 1] = clerks[c].order
        /\ \A i \in DOMAIN faqs : faqs'[i] = faqs[i]
    BY <1>1, <2>2 DEF WithFaq
  <2>4. \A d \in Clerks : clerks'[d] = clerks[d] \/ clerks'[d].at = "idle"
    BY <1>1, FreeRequest DEF FaqInv, FaqTypes
  <2>5. Ordered' BY <1>1, <2>1, <2>2, <2>3, <2>4 DEF FaqInv, Ordered, Trusted
  <2>6. \A d \in Clerks : clerks[d].at \in {"reload", "write"} => clerks[d].id # used + 1
    BY <1>2 DEF FaqInv, FaqTypes, Edits
  <2>7. Current'
    <3> SUFFICES ASSUME NEW d \in Clerks, clerks'[d].at \in {"reload", "write"}, Trusted(d)',
                        clerks'[d].id \in DOMAIN faqs'
                 PROVE  clerks'[d].order = faqs'[clerks'[d].id]
      BY DEF Current
    <3>1. clerks'[d] = clerks[d] BY <2>4
    <3>2. clerks[d].id \in DOMAIN faqs BY <2>3, <2>6, <3>1
    <3>3. clerks[d].order = faqs[clerks[d].id]
      BY <1>5, <2>1, <3>1, <3>2 DEF FaqInv, Current, Trusted
    <3> QED BY <2>3, <3>1, <3>2, <3>3
  <2> QED BY <1>3, <2>5, <2>7 DEF FaqInv
<1> QED BY <1>4, <1>5

LEMMA Writes == ASSUME FaqInv, NEW c \in Clerks, WriteFaq(c) PROVE FaqInv'
<1>1. /\ clerks[c].at = "write" /\ used' = used /\ kept' = Undone(c)
      /\ clerks' = [clerks EXCEPT ![c] = Free]
      /\ faqs' = IF clerks[c].id \in DOMAIN faqs THEN WithFaq(clerks[c].id, clerks[c].order) ELSE faqs
  BY DEF WriteFaq, ClerkFree
<1>2. clerks[c].id \in 1 .. used /\ clerks[c].id \in Nat /\ clerks[c].order \in Nat /\ used \in Nat
  BY <1>1, Stored DEF FaqInv, FaqTypes, Request, Edits
<1>3. CASE clerks[c].id \notin DOMAIN faqs
  <2>1. faqs' = faqs /\ faqs = [i \in DOMAIN faqs |-> faqs[i]] BY <1>1, <1>3 DEF FaqInv, FaqTypes
  <2>2. CASE kept' = kept
    <3>1. DOMAIN faqs' \subseteq DOMAIN faqs /\ faqs' = [i \in DOMAIN faqs' |-> faqs[i]] BY <2>1
    <3> QED BY <1>1, <2>2, <3>1, Removes
  <2>3. CASE kept' = <<>>
    <3>1. clerks' \in [Clerks -> Request]
          /\ \A d \in Clerks : clerks'[d] = clerks[d] \/ clerks'[d].at = "idle"
      BY <1>1, FreeRequest DEF FaqInv, FaqTypes
    <3>2. <<>> \in Seq(1 .. used) OBVIOUS
    <3>3. FaqTypes' BY <1>1, <2>1, <2>3, <3>1, <3>2 DEF FaqInv, FaqTypes, Edits
    <3> QED BY <2>3, <3>3, NothingKept
  <2> QED BY <1>1, <2>2, <2>3 DEF Undone
<1>4. CASE clerks[c].id \in DOMAIN faqs
  <2>1. faqs' = WithFaq(clerks[c].id, clerks[c].order) BY <1>1, <1>4
  <2>2. FaqTypes'
    <3>1. used <= used' /\ used' \in Nat /\ clerks[c].id \in 1 .. used' BY <1>1, <1>2
    <3>2. kept' \in {<<>>, kept} BY <1>1 DEF Undone
    <3> QED BY <1>1, <1>2, <2>1, <3>1, <3>2, WritesTypes
  <2>3. CASE kept' = <<>> BY <2>2, <2>3, NothingKept
  <2>4. CASE kept' # <<>>
    <3>1. Trusted(c) /\ kept' = kept BY <1>1, <2>4 DEF Undone, Trusted
    <3>2. clerks[c].order = faqs[clerks[c].id] BY <1>1, <1>4, <2>4, <3>1 DEF FaqInv, Current
    <3>3. DOMAIN faqs' = DOMAIN faqs BY <1>4, <2>1 DEF WithFaq
    <3>4. faqs' = [i \in DOMAIN faqs' |-> faqs[i]] BY <1>4, <2>1, <3>2, <3>3 DEF WithFaq
    <3> QED BY <1>1, <3>1, <3>3, <3>4, Removes
  <2> QED BY <2>3, <2>4
<1> QED BY <1>3, <1>4

LEMMA InsertsAgain == ASSUME FaqInv, NEW c \in Clerks, ReinsertFaq(c) PROVE FaqInv'
<1>1. /\ clerks[c].at = "reinsert" /\ used' = used /\ kept' = <<>>
      /\ clerks' = [clerks EXCEPT ![c] = Free]
      /\ faqs' = IF clerks[c].id \in DOMAIN faqs THEN faqs ELSE WithFaq(clerks[c].id, clerks[c].order)
  BY DEF ReinsertFaq, ClerkFree
<1>2. clerks[c].id \in 1 .. used /\ clerks[c].id \in Nat /\ clerks[c].order \in Nat /\ used \in Nat
  BY <1>1, Stored DEF FaqInv, FaqTypes, Request, Edits
<1>3. CASE clerks[c].id \in DOMAIN faqs
  <2>1. clerks' \in [Clerks -> Request]
        /\ \A d \in Clerks : clerks'[d] = clerks[d] \/ clerks'[d].at = "idle"
    BY <1>1, FreeRequest DEF FaqInv, FaqTypes
  <2>2. <<>> \in Seq(1 .. used) OBVIOUS
  <2>3. FaqTypes' BY <1>1, <1>3, <2>1, <2>2 DEF FaqInv, FaqTypes, Edits
  <2> QED BY <1>1, <2>3, NothingKept
<1>4. CASE clerks[c].id \notin DOMAIN faqs
  <2>1. FaqTypes'
    <3>1. used <= used' /\ used' \in Nat /\ clerks[c].id \in 1 .. used' BY <1>1, <1>2
    <3>2. kept' \in {<<>>, kept} /\ faqs' = WithFaq(clerks[c].id, clerks[c].order) BY <1>1, <1>4
    <3> QED BY <1>1, <1>2, <3>1, <3>2, WritesTypes
  <2> QED BY <1>1, <2>1, NothingKept
<1> QED BY <1>3, <1>4

LEMMA Deletes == ASSUME FaqInv, NEW c \in Clerks, DeleteFaq(c) PROVE FaqInv'
<1>1. /\ clerks' = [clerks EXCEPT ![c] = Free] /\ UNCHANGED <<used, kept>>
      /\ faqs' = WithoutFaq(clerks[c].id)
  BY DEF DeleteFaq, ClerkFree
<1>2. DOMAIN faqs' \subseteq DOMAIN faqs /\ faqs' = [i \in DOMAIN faqs' |-> faqs[i]]
  BY <1>1 DEF WithoutFaq
<1> QED BY <1>1, <1>2, Removes

-----------------------------------------------------------------------------
(* The reordering. *)
LEMMA Pages == ASSUME FaqInv PROVE Lists \subseteq Seq(Nat)
<1> SUFFICES ASSUME NEW ids \in Lists PROVE ids \in Seq(Nat) OBVIOUS
<1>1. PICK s \in SetToSeqs(DOMAIN faqs) \ {<<>>} :
         ids \in {s, Tail(s), Append(s, Head(s)), Append(s, used)}
  BY DEF Lists
<1>2. IsFiniteSet(DOMAIN faqs) /\ DOMAIN faqs \subseteq Nat /\ used \in Nat
  BY FiniteRows DEF FaqInv, FaqTypes
<1>3. Cardinality(DOMAIN faqs) \in Nat BY <1>2, FS_CardinalityType
<1>4. s \in [1 .. Cardinality(DOMAIN faqs) -> DOMAIN faqs] BY DEF SetToSeqs
<1>5. s \in Seq(Nat) /\ s # <<>> BY <1>2, <1>3, <1>4
<1>6. Tail(s) \in Seq(Nat) /\ Head(s) \in Nat BY <1>5
<1>7. Append(s, Head(s)) \in Seq(Nat) /\ Append(s, used) \in Seq(Nat) BY <1>2, <1>5, <1>6
<1> QED BY <1>1, <1>5, <1>6, <1>7

LEMMA ReorderBegins == ASSUME FaqInv, NEW c \in Clerks, BeginReorder(c) PROVE FaqInv'
<1>1. UNCHANGED <<faqs, used, kept>> BY DEF BeginReorder
<1>2. PICK ids \in Lists : \/ clerks' = [clerks EXCEPT ![c] = [Free EXCEPT !.at = "commit", !.ids = ids]]
                           \/ clerks' = clerks
  BY DEF BeginReorder
<1>3. CASE clerks' = clerks
  BY <1>1, <1>3 DEF FaqInv, FaqTypes, Ordered, Current, Trusted
<1>4. CASE clerks' = [clerks EXCEPT ![c] = [Free EXCEPT !.at = "commit", !.ids = ids]]
  <2> DEFINE new == [Free EXCEPT !.at = "commit", !.ids = ids]
  <2>1. ids \in Seq(Nat) BY Pages
  <2>2. new \in Request /\ new.at = "commit" BY <2>1, FreeRequest DEF Request, Steps
  <2>3. clerks' = [clerks EXCEPT ![c] = new] BY <1>4
  <2> HIDE DEF new
  <2> QED BY <1>1, <2>2, <2>3, GoesOn DEF Edits
<1> QED BY <1>2, <1>3, <1>4

\* A set of numbers has a least one.
LEMMA Least == ASSUME NEW I, I \subseteq Nat, I # {} PROVE Min(I) \in I
<1>1. PICK m \in I : \A n \in I : ~(<<n, m>> \in OpToRel(<, Nat))
  BY NatLessThanWellFounded, WFMin
<1>2. \A n \in I : ~(n < m) BY <1>1 DEF OpToRel
<1>3. \A n \in I : m =< n
  <2> SUFFICES ASSUME NEW n \in I PROVE m =< n OBVIOUS
  <2>1. m \in Nat /\ n \in Nat BY <1>1
  <2> QED BY <1>2, <2>1
<1> QED BY <1>3 DEF Min

\* Where a list that repeats nothing puts one of its questions.
LEMMA PlaceOf ==
    ASSUME NEW ids \in Seq(Nat), NEW k \in 1 .. Len(ids),
           \A j, l \in 1 .. Len(ids) : ids[j] = ids[l] => j = l
    PROVE  SelectInSeq(ids, LAMBDA x : x = ids[k]) = k
<1> DEFINE I == {i \in 1 .. Len(ids) : ids[i] = ids[k]}
<1>1. I = {k} OBVIOUS
<1>2. SelectInSeq(ids, LAMBDA x : x = ids[k]) = IF I # {} THEN Min(I) ELSE 0 BY DEF SelectInSeq
<1>3. Len(ids) \in Nat /\ k \in Nat OBVIOUS
<1> HIDE DEF I
<1>4. \E m \in I : \A y \in I : m =< y BY <1>1, <1>3
<1>5. Min(I) \in I BY <1>4 DEF Min
<1> QED BY <1>1, <1>2, <1>5

LEMMA Commits == ASSUME FaqInv, NEW c \in Clerks, Commit(c) PROVE FaqInv'
<1> DEFINE ids == clerks[c].ids
<1>1. ids \in Seq(Nat) /\ used \in Nat /\ used' = used /\ DOMAIN faqs \subseteq 1 .. used
  BY Stored DEF Request, FaqInv, FaqTypes, Commit
<1>2. clerks' = [d \in Clerks |-> IF d = c THEN Free ELSE [clerks[d] EXCEPT !.stale = clerks[d].at # "idle"]]
  BY DEF Commit
<1>3. \A d \in Clerks : /\ clerks'[d] \in Request
                        /\ clerks'[d].at = "idle" \/ clerks'[d].stale
                        /\ clerks'[d].at \in Edits => clerks'[d].id \in 1 .. used
  <2> SUFFICES ASSUME NEW d \in Clerks PROVE /\ clerks'[d] \in Request
                                             /\ clerks'[d].at = "idle" \/ clerks'[d].stale
                                             /\ clerks'[d].at \in Edits => clerks'[d].id \in 1 .. used
    OBVIOUS
  <2>1. CASE d = c BY <1>2, <2>1, FreeRequest DEF Edits
  <2>2. CASE d # c
    <3> DEFINE new == [clerks[d] EXCEPT !.stale = clerks[d].at # "idle"]
    <3>1. clerks[d] \in Request BY Stored
    <3>2. new \in Request /\ new.at = clerks[d].at /\ new.id = clerks[d].id
          /\ new.stale = (clerks[d].at # "idle")
      BY <3>1 DEF Request
    <3>3. clerks'[d] = new BY <1>2, <2>2
    <3> HIDE DEF new
    <3> QED BY <3>2, <3>3 DEF FaqInv, FaqTypes
  <2> QED BY <2>1, <2>2
<1>4. faqs' = [i \in DOMAIN faqs |-> IF Contains(ids, i) THEN SelectInSeq(ids, LAMBDA x : x = i) - 1 ELSE faqs[i]]
  BY DEF Commit
<1>5. kept' = IF esElMismoConjunto(ids, DOMAIN faqs) THEN ids ELSE <<>> BY DEF Commit
<1>6. clerks' \in [Clerks -> Request] BY <1>2, <1>3
<1> HIDE DEF ids
<1>7. \A i \in DOMAIN faqs : Contains(ids, i) => SelectInSeq(ids, LAMBDA x : x = i) - 1 \in Nat
  <2> SUFFICES ASSUME NEW i \in DOMAIN faqs, Contains(ids, i)
               PROVE  SelectInSeq(ids, LAMBDA x : x = i) - 1 \in Nat
    OBVIOUS
  <2>1. \E k \in 1 .. Len(ids) : ids[k] = i BY DEF Contains
  <2> DEFINE I == {k \in 1 .. Len(ids) : ids[k] = i}
  <2>2. SelectInSeq(ids, LAMBDA x : x = i) = IF I # {} THEN Min(I) ELSE 0 BY DEF SelectInSeq
  <2>3. I # {} /\ I \subseteq Nat /\ I \subseteq 1 .. Len(ids) BY <1>1, <2>1
  <2> HIDE DEF I
  <2>4. SelectInSeq(ids, LAMBDA x : x = i) \in 1 .. Len(ids) BY <2>2, <2>3, Least
  <2>5. Len(ids) \in Nat BY <1>1
  <2> QED BY <2>4, <2>5
<1>8. DOMAIN faqs' = DOMAIN faqs /\ faqs' \in [DOMAIN faqs -> Nat]
  BY <1>4, <1>7 DEF FaqInv, FaqTypes
<1>9. CASE kept' = <<>>
  <2>1. <<>> \in Seq(1 .. used) OBVIOUS
  <2>2. FaqTypes' BY <1>1, <1>3, <1>8, <1>6, <1>9, <2>1 DEF FaqTypes
  <2> QED BY <1>9, <2>2, NothingKept
<1>10. CASE esElMismoConjunto(ids, DOMAIN faqs)
  <2>1. IsFiniteSet(DOMAIN faqs) BY FiniteRows DEF FaqInv
  <2>2. /\ DOMAIN faqs = {ids[k] : k \in 1 .. Len(ids)}
        /\ \A k, l \in 1 .. Len(ids) : ids[k] = ids[l] => k = l
    BY <1>1, <1>10, <2>1, SameSet
  <2>3. kept' = ids /\ DOMAIN ids = 1 .. Len(ids) /\ Len(ids) \in Nat BY <1>1, <1>5, <1>10
  <2>4. \A k \in 1 .. Len(ids) : ids[k] \in 1 .. used BY <1>1, <2>2
  <2>5. kept' \in Seq(1 .. used) BY <1>1, <2>3, <2>4
  <2>6. FaqTypes' BY <1>1, <1>3, <1>8, <1>6, <2>5 DEF FaqTypes
  <2>7. \A k \in 1 .. Len(ids) : faqs'[ids[k]] = k - 1
    <3> SUFFICES ASSUME NEW k \in 1 .. Len(ids) PROVE faqs'[ids[k]] = k - 1 OBVIOUS
    <3>1. ids[k] \in DOMAIN faqs /\ Contains(ids, ids[k]) BY <2>2 DEF Contains
    <3>2. faqs'[ids[k]] = SelectInSeq(ids, LAMBDA x : x = ids[k]) - 1 BY <1>4, <3>1
    <3>3. SelectInSeq(ids, LAMBDA x : x = ids[k]) = k BY <1>1, <2>2, PlaceOf
    <3> QED BY <3>2, <3>3
  <2>8. Ordered'
    BY <1>3, <1>8, <2>2, <2>3, <2>7 DEF Ordered, Trusted
  <2>9. Current' BY <1>3 DEF Current, Trusted
  <2> QED BY <2>6, <2>8, <2>9 DEF FaqInv
<1> QED BY <1>5, <1>9, <1>10

-----------------------------------------------------------------------------
LEMMA FaqStep == ASSUME FaqAssumption, FaqInv, [FaqNext]_faqVars PROVE FaqInv'
<1>1. CASE FaqNext
  <2>1. PICK c \in Clerks :
           \/ BeginCreateFaq(c) \/ InsertFaq(c)
           \/ BeginUpdateFaq(c) \/ ReloadFaq(c) \/ WriteFaq(c) \/ ReinsertFaq(c)
           \/ BeginRemoveFaq(c) \/ DeleteFaq(c)
           \/ BeginReorder(c) \/ Commit(c)
    BY <1>1 DEF FaqNext
  <2> QED BY <2>1, CreateBegins, Inserts, UpdateBegins, RowRead, Writes, InsertsAgain, RemoveBegins,
             Deletes, ReorderBegins, Commits
<1>2. CASE UNCHANGED faqVars
  BY <1>2 DEF faqVars, FaqInv, FaqTypes, Ordered, Current, Trusted
<1> QED BY <1>1, <1>2

LEMMA FaqInvImplies == FaqInv => OrderIsKept
<1> SUFFICES ASSUME FaqInv, NEW k \in DOMAIN kept, kept[k] \in DOMAIN faqs,
                    NEW id \in DOMAIN faqs \ {kept[l] : l \in 1 .. k}
             PROVE  ListedBefore(kept[k], id)
  BY DEF OrderIsKept
<1>1. /\ faqs[kept[k]] = k - 1
      /\ (\A l \in DOMAIN kept : kept[l] # id) => faqs[id] > k - 1
  BY DEF FaqInv, Ordered
<1>2. k \in Nat /\ DOMAIN kept = 1 .. Len(kept) /\ Len(kept) \in Nat /\ faqs[id] \in Nat
  BY DEF FaqInv, FaqTypes
<1>3. CASE \E l \in DOMAIN kept : kept[l] = id
  <2>1. PICK l \in DOMAIN kept : kept[l] = id BY <1>3
  <2>2. l > k BY <1>2, <2>1
  <2>3. faqs[id] = l - 1 BY <2>1 DEF FaqInv, Ordered
  <2> QED BY <1>1, <1>2, <2>2, <2>3 DEF ListedBefore
<1>4. CASE \A l \in DOMAIN kept : kept[l] # id BY <1>1, <1>2, <1>4 DEF ListedBefore
<1> QED BY <1>3, <1>4

(* However the requests of any number of administrators interleave, the     *)
(* last order accepted is the one listed, new questions after it, unless a  *)
(* request asked for a place, had read the table before, or wrote back a    *)
(* removed question (FaqsService.reordenar, create, update, remove).        *)
THEOREM OrderKept == ASSUME FaqAssumption PROVE FaqSpec => []OrderIsKept
<1>1. FaqInit => FaqInv BY FaqInitInv
<1>2. FaqInv /\ [FaqNext]_faqVars => FaqInv' BY FaqStep
<1>3. FaqInv => OrderIsKept BY FaqInvImplies
<1> QED BY <1>1, <1>2, <1>3, PTL DEF FaqSpec
=============================================================================
