------------------------------ MODULE FaqBoard ------------------------------
(***************************************************************************)
(* The questions of the portal and the order the owner gives them          *)
(* (FaqsService).  A request is a clerk; its steps are its statements.     *)
(*                                                                         *)
(* save() reads the row again before it writes: it updates the columns     *)
(* that differ from what it read, and inserts a row that is gone.  Texts   *)
(* are left out.  Questions are numbered by the time of their creation.    *)
(***************************************************************************)
EXTENDS Integers, SequencesExt

CONSTANTS Clerks,
          Oldest,        \* the orders of the questions there are at the start
          MaxFaqs,       \* questions there may ever be (bound)
          Explicit       \* the orders a request may ask for

\* Assumed of the constants by the module that gives them values.
FaqAssumption == Oldest \in Seq(Nat) /\ MaxFaqs \in Nat /\ Explicit \subseteq Nat

VARIABLES faqs,      \* the orders of the rows of the table
          used,      \* how many questions there have been
          clerks,
          locked,    \* the rows a reordering holds FOR UPDATE
          kept       \* the last order accepted, unless something undid it (history)

faqVars == <<faqs, used, clerks, locked, kept>>

Free == [at |-> "idle", id |-> 0, order |-> 0, asked |-> FALSE, stale |-> FALSE, ids |-> <<>>]
Ids == 1 .. MaxFaqs
WithoutFaq(id) == [i \in DOMAIN faqs \ {id} |-> faqs[i]]
WithFaq(id, order) == [i \in DOMAIN faqs \union {id} |-> IF i = id THEN order ELSE faqs[i]]

\* findAll lists by order, those of one order by the time of their creation.
ListedBefore(i, j) == faqs[i] < faqs[j] \/ (faqs[i] = faqs[j] /\ i < j)

siguientePuesto == IF DOMAIN faqs = {} THEN 0 ELSE Max({faqs[i] : i \in DOMAIN faqs}) + 1

\* MUTANT of esElMismoConjunto: a part of the list will do.
sonDeLaLista(asked, existing) ==
    /\ Cardinality(ToSet(asked)) = Len(asked)
    /\ ToSet(asked) \subseteq existing

esElMismoConjunto(asked, existing) ==
    /\ Len(asked) = Cardinality(existing)
    /\ Cardinality(ToSet(asked)) = Len(asked)
    /\ ToSet(asked) \subseteq existing

ClerkAt(c, at) == clerks' = [clerks EXCEPT ![c].at = at]
ClerkFree(c) == clerks' = [clerks EXCEPT ![c] = Free]

\* What undoes an order: a place asked for, or one read before it was given.
Undone(c) == IF clerks[c].asked \/ clerks[c].stale THEN <<>> ELSE kept

BeginCreateFaq(c) ==
    /\ clerks[c].at = "idle"
    /\ used + Cardinality({d \in Clerks : clerks[d].at = "insert"}) < MaxFaqs      \* bound
    /\ \E order \in Explicit \union {siguientePuesto} :
          clerks' = [clerks EXCEPT ![c] = [Free EXCEPT !.at = "insert", !.order = order,
                                                       !.asked = order # siguientePuesto]]
    /\ UNCHANGED <<faqs, used, locked, kept>>

InsertFaq(c) ==
    /\ clerks[c].at = "insert"
    /\ faqs' = WithFaq(used + 1, clerks[c].order)
    /\ used' = used + 1
    /\ kept' = Undone(c)
    /\ ClerkFree(c)
    /\ UNCHANGED locked

BeginUpdateFaq(c) ==
    /\ clerks[c].at = "idle"
    /\ \E id \in DOMAIN faqs : \E order \in Explicit \union {faqs[id]} :
          clerks' = [clerks EXCEPT ![c] = [Free EXCEPT !.at = "reload", !.id = id, !.order = order,
                                                       !.asked = order # faqs[id]]]
    /\ UNCHANGED <<faqs, used, locked, kept>>

ReloadFaq(c) ==
    /\ clerks[c].at = "reload"
    /\ \/ clerks[c].id \notin DOMAIN faqs /\ ClerkAt(c, "reinsert")
       \/ /\ clerks[c].id \in DOMAIN faqs
          /\ IF faqs[clerks[c].id] # clerks[c].order THEN ClerkAt(c, "write") ELSE ClerkFree(c)
    /\ UNCHANGED <<faqs, used, locked, kept>>

WriteFaq(c) ==
    /\ clerks[c].at = "write" /\ clerks[c].id \notin locked
    /\ faqs' = IF clerks[c].id \in DOMAIN faqs THEN WithFaq(clerks[c].id, clerks[c].order) ELSE faqs
    /\ kept' = Undone(c)
    /\ ClerkFree(c)
    /\ UNCHANGED <<used, locked>>

ReinsertFaq(c) ==
    /\ clerks[c].at = "reinsert"
    /\ faqs' = IF clerks[c].id \in DOMAIN faqs THEN faqs ELSE WithFaq(clerks[c].id, clerks[c].order)
    /\ kept' = <<>>
    /\ ClerkFree(c)
    /\ UNCHANGED <<used, locked>>

BeginRemoveFaq(c) ==
    /\ clerks[c].at = "idle"
    /\ \E id \in DOMAIN faqs : clerks' = [clerks EXCEPT ![c] = [Free EXCEPT !.at = "delete", !.id = id]]
    /\ UNCHANGED <<faqs, used, locked, kept>>

DeleteFaq(c) ==
    /\ clerks[c].at = "delete" /\ clerks[c].id \notin locked
    /\ faqs' = WithoutFaq(clerks[c].id)
    /\ ClerkFree(c)
    /\ UNCHANGED <<used, locked, kept>>

\* A list as a page holds it: of today, or with one question lacking, repeated or removed since.
Lists ==
    UNION {{s, Tail(s), Append(s, Head(s)), Append(s, used)} : s \in SetToSeqs(DOMAIN faqs) \ {<<>>}}

\* The rows there are, locked; the rows that enter after that are not.
BeginReorder(c) ==
    /\ clerks[c].at = "idle" /\ locked = {}
    /\ \E ids \in Lists :
          IF esElMismoConjunto(ids, DOMAIN faqs)
          THEN /\ clerks' = [clerks EXCEPT ![c] = [Free EXCEPT !.at = "commit", !.ids = ids]]
               /\ locked' = DOMAIN faqs
          ELSE UNCHANGED <<clerks, locked>>
    /\ UNCHANGED <<faqs, used, kept>>

Commit(c) ==
    /\ clerks[c].at = "commit"
    /\ faqs' = [i \in DOMAIN faqs |->
                   IF Contains(clerks[c].ids, i) THEN SelectInSeq(clerks[c].ids, LAMBDA x : x = i) - 1 ELSE faqs[i]]
    /\ kept' = IF esElMismoConjunto(clerks[c].ids, DOMAIN faqs) THEN clerks[c].ids ELSE <<>>
    /\ locked' = {}
    /\ clerks' = [d \in Clerks |-> IF d = c THEN Free
                                   ELSE [clerks[d] EXCEPT !.stale = clerks[d].at # "idle"]]
    /\ UNCHANGED used

FaqInit ==
    /\ faqs = Oldest
    /\ used = Len(Oldest)
    /\ clerks = [c \in Clerks |-> Free]
    /\ locked = {}
    /\ kept = <<>>

FaqNext ==
    \E c \in Clerks :
        \/ BeginCreateFaq(c) \/ InsertFaq(c)
        \/ BeginUpdateFaq(c) \/ ReloadFaq(c) \/ WriteFaq(c) \/ ReinsertFaq(c)
        \/ BeginRemoveFaq(c) \/ DeleteFaq(c)
        \/ BeginReorder(c) \/ Commit(c)

(***************************************************************************)
(* The order the owner gave is the one the portal shows: her questions, the *)
(* removed ones left out, come first and as she put them, and any other     *)
(* after them; two orders given at once are never mixed.  Only a request    *)
(* that asks for a place, that read the table before the order was given,   *)
(* or that writes back a removed question can undo it.                      *)
(***************************************************************************)
OrderIsKept ==
    \A k \in DOMAIN kept : kept[k] \in DOMAIN faqs =>
        \A id \in DOMAIN faqs \ {kept[l] : l \in 1 .. k} : ListedBefore(kept[k], id)
=============================================================================
