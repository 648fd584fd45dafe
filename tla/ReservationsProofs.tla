------------------------- MODULE ReservationsProofs -------------------------
(***************************************************************************)
(* Theorems about Reservations, for every number of ids, requests and      *)
(* stylists and every length of the day. The inductive invariant is IInv.  *)
(***************************************************************************)
EXTENDS Reservations, FiniteSetTheorems, TLAPS

USE IdAssumption, WorkerAssumption, ActorAssumption, TimeAssumption
    DEF Staffable

-----------------------------------------------------------------------------
(* Types *)

(* What the assigner reads about the staff is a set of <<minutes, stylist>>. *)
LEMMA WorkloadsType ==
    ASSUME TypeOK, NEW day \in Int
    PROVE  Workloads(day) \subseteq Nat \X Workers
<1> SUFFICES ASSUME NEW w \in Workers
             PROVE  Cardinality(UsedSlots(w, day)) \in Nat
    BY DEF Workloads, Staff
<1> DEFINE first == IF now \div DayLen = day THEN now ELSE day * DayLen
           last == day * DayLen + DayLen - 1
<1>1. first \in Int /\ last \in Int
    BY DEF TypeOK
<1>2. IsFiniteSet(first .. last)
    BY <1>1, FS_Interval
<1>3. UsedSlots(w, day) \subseteq first .. last
    BY DEF UsedSlots
<1> QED
    BY <1>2, <1>3, FS_Subset, FS_CardinalityType

LEMMA BlankType == Blank("unborn") \in Row /\ Blank("purged") \in Row
    BY DEF Blank, Row, Statuses

LEMMA EnterType ==
    ASSUME TypeOK, NEW p \in Procs, NEW step \in Awaits \ {"idle"},
           NEW kind \in Kinds, NEW id \in Ids, NEW r \in Row,
           Enter(p, step, kind, id, r)
    PROVE  TypeOK'
    BY DEF TypeOK, Enter

LEMMA FinishType ==
    ASSUME TypeOK, NEW p \in Procs, Finish(p),
           now' = now, staffing' = staffing, settling' = settling,
           restarts' = restarts, row' \in [Ids -> Row], confirmed' \subseteq Ids
    PROVE  TypeOK'
    BY BlankType DEF TypeOK, Finish, Awaits

(* What cancel(), confirm(), reschedule() and the assigner change of a row. *)
LEMMA WithStatus ==
    ASSUME NEW r \in Row, NEW s \in Statuses
    PROVE  /\ [r EXCEPT !.status = s] \in Row
           /\ [r EXCEPT !.status = s].status = s
<1>1. s \in Statuses \cup {"unborn", "purged"}
    OBVIOUS
<1> QED
    BY <1>1 DEF Row

LEMMA WithStart ==
    ASSUME NEW r \in Row, NEW start \in Starts
    PROVE  [r EXCEPT !.start = start] \in Row
<1>1. start \in Nat
    OBVIOUS
<1> QED
    BY <1>1 DEF Row

LEMMA WithWorker ==
    ASSUME NEW r \in Row, NEW w \in Workers \cup {Default}
    PROVE  [r EXCEPT !.worker = w] \in Row
BY DEF Row

LEMMA BeginType ==
    ASSUME TypeOK, NEW p \in Procs, Begin(p)
    PROVE  TypeOK'
<1>1. CASE BeginCreate(p)
  <2>1. PICK id \in Ids, start \in Starts, dur \in Durations,
             owner \in SUBSET Clients, w \in Staffable \cup {NoWorker},
             step \in {"check", "assign"} :
            Enter(p, step, "create", id, Draft(start, dur, owner, w))
      BY <1>1 DEF BeginCreate
  <2>2. Draft(start, dur, owner, w) \in Row
      BY DEF Draft, Row, Statuses
  <2> QED
      BY <2>1, <2>2, EnterType DEF Awaits, Kinds
<1>2. CASE BeginCancel(p)
  <2>1. PICK id \in Ids : Enter(p, "save", "cancel", id,
                                [row[id] EXCEPT !.status = "cancelada"])
      BY <1>2 DEF BeginCancel
  <2>2. row[id] \in Row /\ "cancelada" \in Statuses
      BY DEF TypeOK, Statuses
  <2>3. [row[id] EXCEPT !.status = "cancelada"] \in Row
      BY <2>2, WithStatus
  <2> QED
      BY <2>1, <2>3, EnterType DEF Awaits, Kinds
<1>3. CASE BeginConfirm(p)
  <2>1. PICK id \in Ids : Enter(p, "save", "confirm", id,
                                [row[id] EXCEPT !.status = "confirmada"])
      BY <1>3 DEF BeginConfirm
  <2>2. row[id] \in Row /\ "confirmada" \in Statuses
      BY DEF TypeOK, Statuses
  <2>3. [row[id] EXCEPT !.status = "confirmada"] \in Row
      BY <2>2, WithStatus
  <2> QED
      BY <2>1, <2>3, EnterType DEF Awaits, Kinds
<1>4. CASE BeginReschedule(p)
  <2>1. PICK id \in Ids, start \in Starts, step \in {"check", "assign"} :
            Enter(p, step, "reschedule", id, [row[id] EXCEPT !.start = start])
      BY <1>4 DEF BeginReschedule
  <2>2. row[id] \in Row
      BY DEF TypeOK
  <2>3. [row[id] EXCEPT !.start = start] \in Row
      BY <2>2, WithStart
  <2> QED
      BY <2>1, <2>3, EnterType DEF Awaits, Kinds
<1> QED
    BY <1>1, <1>2, <1>3, <1>4 DEF Begin

LEMMA AssignType ==
    ASSUME TypeOK, NEW p \in Procs, NEW w \in Workers \cup {Default},
           pc[p] # "idle", Assign(p, w),
           UNCHANGED <<now, row, staffing, settling, confirmed, restarts>>
    PROVE  TypeOK'
<1>1. [agg[p] EXCEPT !.worker = w] \in Row
    BY WithWorker DEF TypeOK
<1>2. agg' \in [Procs -> Row]
    BY <1>1 DEF TypeOK, Assign
<1> QED
    BY <1>2 DEF TypeOK, Assign, Awaits

LEMMA ContinueType ==
    ASSUME TypeOK, NEW p \in Procs, Continue(p)
    PROVE  TypeOK'
<1>1. CASE ReadWorkloads(p)
  <2>1. CASE Staff = {} /\ Assign(p, Default)
      BY <1>1, <2>1, AssignType DEF ReadWorkloads
  <2>2. CASE Staff # {} /\ ~Assign(p, Default)
    <3>1. agg[p].start \div DayLen \in Int
        BY DEF TypeOK, Row
    <3>2. Workloads(agg[p].start \div DayLen) \subseteq Nat \X Workers
        BY <3>1, WorkloadsType
    <3> QED
        BY <1>1, <2>2, <3>2 DEF ReadWorkloads, TypeOK, Awaits
  <2>3. CASE Staff # {} /\ Assign(p, Default)
      BY <1>1, <2>3, AssignType DEF ReadWorkloads
  <2> QED
      BY <1>1, <2>1, <2>2, <2>3 DEF ReadWorkloads
<1>2. CASE TryCandidate(p)
  <2>1. PICK c \in cands[p] : TryCandidate(p)!2!(c)
      BY <1>2 DEF TryCandidate
  <2>2. c[2] \in Workers
      BY <2>1 DEF TypeOK
  <2>3. CASE Assign(p, c[2])
      BY <1>2, <2>2, <2>3, AssignType DEF TryCandidate
  <2>4. CASE /\ cands' = [cands EXCEPT ![p] = @ \ {c}]
             /\ UNCHANGED <<pc, op, target, agg>>
      BY <1>2, <2>4 DEF TryCandidate, TypeOK
  <2>5. CASE Finish(p)
      BY <1>2, <2>5, FinishType DEF TryCandidate, TypeOK
  <2> QED
      BY <2>1, <2>3, <2>4, <2>5
<1>3. CASE CheckOverlap(p)
  <2>1. CASE pc' = [pc EXCEPT ![p] = "save"] /\ UNCHANGED <<op, target, agg, cands>>
      BY <1>3, <2>1 DEF CheckOverlap, TypeOK, Awaits
  <2>2. CASE Finish(p)
      BY <1>3, <2>2, FinishType DEF CheckOverlap, TypeOK
  <2> QED
      BY <1>3, <2>1, <2>2 DEF CheckOverlap
<1>4. CASE Save(p)
  <2>1. target[p] \in Ids
      BY <1>4 DEF Save, TypeOK
  <2>2. row' \in [Ids -> Row] /\ confirmed' \subseteq Ids
      BY <1>4, <2>1 DEF Save, TypeOK
  <2> QED
      BY <1>4, <2>2, FinishType DEF Save
<1> QED
    BY <1>1, <1>2, <1>3, <1>4 DEF Continue

LEMMA JobsType ==
    ASSUME TypeOK, SettleConfirmed \/ SettlePending \/ Purge
    PROVE  TypeOK'
<1>1. row' \in [Ids -> Row]
  <2> SUFFICES ASSUME NEW f \in [Ids -> Row],
                      \A id \in Ids : f[id] \in Row, f = row
               PROVE  row' \in [Ids -> Row]
      BY DEF TypeOK
  <2>1. \A r \in Row : /\ [r EXCEPT !.status = "cumplida"] \in Row
                        /\ [r EXCEPT !.status = "cancelada"] \in Row
      BY DEF Row, Statuses
  <2>2. CASE SettleConfirmed
      BY <2>1, <2>2 DEF SettleConfirmed
  <2>3. CASE SettlePending
      BY <2>1, <2>3 DEF SettlePending
  <2>4. CASE Purge
      BY <2>4, BlankType DEF Purge
  <2> QED
      BY <2>2, <2>3, <2>4
<1>2. settling' \in Nat \cup {-1}
    BY DEF SettleConfirmed, SettlePending, Purge, TypeOK
<1>3. UNCHANGED <<now, staffing, reqVars, confirmed, restarts>>
    BY DEF SettleConfirmed, SettlePending, Purge
<1> QED
    BY <1>1, <1>2, <1>3 DEF TypeOK, reqVars

LEMMA RestartType ==
    ASSUME TypeOK, Restart
    PROVE  TypeOK'
    BY BlankType DEF Restart, TypeOK, Awaits

LEMMA InitType == Init => TypeOK
    BY BlankType DEF Init, TypeOK, Awaits

LEMMA NextType == TypeOK /\ [Next]_vars => TypeOK'
<1> SUFFICES ASSUME TypeOK, [Next]_vars
             PROVE  TypeOK'
    OBVIOUS
<1>1. ASSUME NEW p \in Procs, Begin(p) \/ Continue(p)
      PROVE  TypeOK'
    BY <1>1, BeginType, ContinueType
<1>2. CASE SettleConfirmed \/ SettlePending \/ Purge
    BY <1>2, JobsType
<1>3. ASSUME NEW w \in Workers, HireWorker(w) \/ RemoveWorker(w)
      PROVE  TypeOK'
    BY <1>3 DEF HireWorker, RemoveWorker, TypeOK, reqVars
<1>4. CASE Tick
    BY <1>4 DEF Tick, TypeOK, reqVars
<1>5. CASE Restart
    BY <1>5, RestartType
<1>6. CASE UNCHANGED vars
    BY <1>6 DEF vars, reqVars, TypeOK
<1> QED
    BY <1>1, <1>2, <1>3, <1>4, <1>5, <1>6 DEF Next

(* Every variable keeps its type, and a request holds a target exactly while *)
(* it runs.                                                                  *)
THEOREM TypeCorrect == Spec => []TypeOK
    BY InitType, NextType, PTL DEF Spec

-----------------------------------------------------------------------------
(* The inductive invariant. NoWorkerOverlap and WorkersExist rest on what    *)
(* the database checks when a row is written; the rest needs to know what a  *)
(* stale aggregate can hold, hence SnapshotsAgree.                           *)
IInv ==
    /\ TypeOK
    /\ NoWorkerOverlap
    /\ FulfilledIsEarned
    /\ WorkersExist
    /\ SnapshotsAgree

(* A request enters with an aggregate that agrees with what it read. *)
Agrees(p, step, kind, id, r) ==
    /\ step = "assign" => ~r.pinned
    /\ step # "try"
    /\ r.status \in {"pendiente", "confirmada", "cancelada"}
    /\ r.status = "confirmada" => kind = "confirm" \/ id \in confirmed
    /\ kind = "create" => /\ row[id].status = "unborn" /\ r.status = "pendiente"
                          /\ \A q \in Procs : target[q] # id
    /\ kind # "create" => Exists(id) /\ SameBooking(r, row[id])

(* cancel() and confirm() leave the booking alone. *)
LEMMA StatusIsNotBooking ==
    ASSUME NEW r \in Row, NEW s \in Statuses
    PROVE  SameBooking([r EXCEPT !.status = s], r)
BY DEF Row, SameBooking

LEMMA BeginAgrees ==
    ASSUME TypeOK, FulfilledIsEarned, NEW p \in Procs, Begin(p)
    PROVE  \E step \in Awaits, kind \in Kinds, id \in Ids, r \in Row :
              Enter(p, step, kind, id, r) /\ Agrees(p, step, kind, id, r)
<1>1. CASE BeginCreate(p)
  <2>1. PICK id \in Ids, start \in Starts, dur \in Durations,
             owner \in SUBSET Clients, w \in Staffable \cup {NoWorker} :
            /\ row[id].status = "unborn"
            /\ \A q \in Procs : target[q] # id
            /\ Enter(p, IF w = NoWorker THEN "assign" ELSE "check",
                     "create", id, Draft(start, dur, owner, w))
      BY <1>1 DEF BeginCreate
  <2> DEFINE step == IF w = NoWorker THEN "assign" ELSE "check"
             r == Draft(start, dur, owner, w)
  <2>2. r \in Row
      BY DEF Draft, Row, Statuses
  <2>3. Agrees(p, step, "create", id, r)
      BY <2>1 DEF Agrees, Draft
  <2> QED
      BY <2>1, <2>2, <2>3 DEF Awaits, Kinds
<1>2. CASE BeginCancel(p)
  <2>1. PICK id \in Ids :
            /\ Exists(id)
            /\ Enter(p, "save", "cancel", id,
                     [row[id] EXCEPT !.status = "cancelada"])
      BY <1>2 DEF BeginCancel
  <2> DEFINE r == [row[id] EXCEPT !.status = "cancelada"]
  <2>2. r \in Row /\ r.status = "cancelada" /\ SameBooking(r, row[id])
    <3>1. row[id] \in Row /\ "cancelada" \in Statuses
        BY DEF TypeOK, Statuses
    <3> QED
        BY <3>1, WithStatus, StatusIsNotBooking
  <2>3. Agrees(p, "save", "cancel", id, r)
      BY <2>1, <2>2 DEF Agrees
  <2> QED
      BY <2>1, <2>2, <2>3 DEF Awaits, Kinds
<1>3. CASE BeginConfirm(p)
  <2>1. PICK id \in Ids :
            /\ Exists(id)
            /\ Enter(p, "save", "confirm", id,
                     [row[id] EXCEPT !.status = "confirmada"])
      BY <1>3 DEF BeginConfirm
  <2> DEFINE r == [row[id] EXCEPT !.status = "confirmada"]
  <2>2. r \in Row /\ r.status = "confirmada" /\ SameBooking(r, row[id])
    <3>1. row[id] \in Row /\ "confirmada" \in Statuses
        BY DEF TypeOK, Statuses
    <3> QED
        BY <3>1, WithStatus, StatusIsNotBooking
  <2>3. Agrees(p, "save", "confirm", id, r)
      BY <2>1, <2>2 DEF Agrees
  <2> QED
      BY <2>1, <2>2, <2>3 DEF Awaits, Kinds
<1>4. CASE BeginReschedule(p)
  <2>1. PICK id \in Ids, start \in Starts, step \in {"check", "assign"} :
            /\ Exists(id) /\ row[id].status \notin Terminal
            /\ step = "assign" => ~KeepsWorker([row[id] EXCEPT !.start = start])
            /\ Enter(p, step, "reschedule", id, [row[id] EXCEPT !.start = start])
      BY <1>4 DEF BeginReschedule
  <2> DEFINE r == [row[id] EXCEPT !.start = start]
  <2> row[id] \in Row
      BY DEF TypeOK
  <2>2. /\ r \in Row /\ r.status = row[id].status
        /\ SameBooking(r, row[id])
      BY DEF Row, SameBooking
  <2>3. row[id].status = "confirmada" => id \in confirmed
      BY DEF FulfilledIsEarned
  <2>4. Agrees(p, step, "reschedule", id, r)
      BY <2>1, <2>2, <2>3
      DEF Agrees, Exists, Statuses, Terminal, KeepsWorker, SameBooking
  <2> QED
      BY <2>1, <2>2, <2>4 DEF Awaits, Kinds
<1> QED
    BY <1>1, <1>2, <1>3, <1>4 DEF Begin

LEMMA BeginStep ==
    ASSUME IInv, NEW p \in Procs, Begin(p)
    PROVE  IInv'
<1>1. PICK step \in Awaits, kind \in Kinds, id \in Ids, r \in Row :
          Enter(p, step, kind, id, r) /\ Agrees(p, step, kind, id, r)
    BY BeginAgrees DEF IInv
<1>2. UNCHANGED <<now, row, staffing, confirmed>>
    BY <1>1 DEF Enter
<1>3. TypeOK'
    BY BeginType DEF IInv
<1>4. NoWorkerOverlap' /\ FulfilledIsEarned' /\ WorkersExist'
    BY <1>2 DEF IInv, NoWorkerOverlap, FulfilledIsEarned, WorkersExist, Exists, Staff
<1>5. SnapshotsAgree'
  <2>1. /\ pc' = [pc EXCEPT ![p] = step] /\ op' = [op EXCEPT ![p] = kind]
        /\ target' = [target EXCEPT ![p] = id] /\ agg' = [agg EXCEPT ![p] = r]
      BY <1>1 DEF Enter
  <2>2. /\ pc'[p] = step /\ op'[p] = kind /\ target'[p] = id /\ agg'[p] = r
        /\ \A q \in Procs \ {p} : /\ pc'[q] = pc[q] /\ op'[q] = op[q]
                                 /\ target'[q] = target[q] /\ agg'[q] = agg[q]
      BY <2>1 DEF IInv, TypeOK
  <2>3. SUFFICES ASSUME NEW q \in Procs, pc'[q] # "idle"
                 PROVE  SnapshotAgrees(q)'
      BY DEF SnapshotsAgree
  <2>4. CASE q = p
    <3>1. kind = "create" => \A q2 \in Procs \ {p} : target'[q2] # target'[p]
        BY <1>1, <2>2 DEF Agrees
    <3>2. kind # "create" => /\ row'[id].status # "unborn"
                             /\ SameBooking(agg'[p], row'[id])
        BY <1>1, <1>2, <2>2 DEF Agrees, Exists, Statuses
    <3>3. kind = "create" => /\ row'[id].status = "unborn"
                             /\ agg'[p].status = "pendiente"
        BY <1>1, <1>2, <2>2 DEF Agrees
    <3>4. r.status \in {"pendiente", "confirmada", "cancelada"}
        BY <1>1 DEF Agrees
    <3>5. r.status = "confirmada" => kind = "confirm" \/ id \in confirmed
        BY <1>1 DEF Agrees
    <3>6. step \in {"assign", "try"} => ~r.pinned
        BY <1>1 DEF Agrees
    <3>7. kind # "none"
        BY DEF Kinds
    <3> QED
        BY <1>2, <2>2, <2>4, <3>1, <3>2, <3>3, <3>4, <3>5, <3>6, <3>7
        DEF SnapshotAgrees
  <2>5. CASE q # p
    <3>1. SnapshotAgrees(q)
        BY <2>2, <2>3, <2>5 DEF IInv, SnapshotsAgree
    <3>2. op[q] = "create" => target[q] # id
        BY <1>1, <3>1 DEF Agrees, Exists, Statuses, SnapshotAgrees
    <3> QED
        BY <1>2, <2>2, <2>5, <3>1, <3>2 DEF Exists, SnapshotAgrees
  <2> QED
      BY <2>4, <2>5
<1> QED
    BY <1>3, <1>4, <1>5 DEF IInv

(* A request that ends without writing. *)
LEMMA FinishStep ==
    ASSUME IInv, NEW p \in Procs, Finish(p), TypeOK',
           UNCHANGED <<now, row, staffing, confirmed>>
    PROVE  IInv'
<1>1. NoWorkerOverlap' /\ FulfilledIsEarned' /\ WorkersExist'
    BY DEF IInv, NoWorkerOverlap, FulfilledIsEarned, WorkersExist, Exists, Staff
<1>2. /\ pc'[p] = "idle" /\ target'[p] = NoId
      /\ \A q \in Procs \ {p} : /\ pc'[q] = pc[q] /\ op'[q] = op[q]
                               /\ target'[q] = target[q] /\ agg'[q] = agg[q]
    BY DEF Finish, IInv, TypeOK
<1>3. SnapshotsAgree'
  <2> SUFFICES ASSUME NEW q \in Procs, pc'[q] # "idle"
               PROVE  SnapshotAgrees(q)'
      BY DEF SnapshotsAgree
  <2>1. q # p /\ SnapshotAgrees(q) /\ target[q] \in Ids
      BY <1>2 DEF IInv, SnapshotsAgree, TypeOK
  <2> QED
      BY <1>2, <2>1 DEF Exists, SnapshotAgrees
<1> QED
    BY <1>1, <1>3 DEF IInv

(* A request that goes on, with at most another stylist in its aggregate,    *)
(* and that only where the client chose none.                                *)
LEMMA GoOnStep ==
    ASSUME IInv, NEW p \in Procs, TypeOK',
           UNCHANGED <<now, row, staffing, confirmed, op, target>>,
           pc[p] # "idle",
           NEW step \in Awaits \ {"idle"}, pc' = [pc EXCEPT ![p] = step],
           step = "try" => pc[p] \in {"assign", "try"}, step # "assign",
           \/ agg' = agg
           \/ /\ pc[p] \in {"assign", "try"}
              /\ \E w \in Staffable : agg' = [agg EXCEPT ![p].worker = w]
    PROVE  IInv'
<1>1. NoWorkerOverlap' /\ FulfilledIsEarned' /\ WorkersExist'
    BY DEF IInv, NoWorkerOverlap, FulfilledIsEarned, WorkersExist, Exists, Staff
<1>2. SnapshotsAgree'
  <2> SUFFICES ASSUME NEW q \in Procs, pc'[q] # "idle"
               PROVE  SnapshotAgrees(q)'
      BY DEF SnapshotsAgree
  <2>1. pc[q] # "idle" /\ SnapshotAgrees(q)
      BY DEF IInv, SnapshotsAgree, TypeOK
  <2>2. /\ agg'[q].status = agg[q].status /\ agg'[q].owner = agg[q].owner
        /\ agg'[q].dur = agg[q].dur /\ agg'[q].pinned = agg[q].pinned
        /\ agg[q].pinned => agg'[q].worker = agg[q].worker
      BY <2>1 DEF IInv, TypeOK, Row, SnapshotAgrees
  <2>3. pc'[q] \in {"assign", "try"} => pc[q] \in {"assign", "try"}
      BY DEF IInv, TypeOK
  <2> QED
      BY <2>1, <2>2, <2>3 DEF Exists, SnapshotAgrees, SameBooking
<1> QED
    BY <1>1, <1>2 DEF IInv

LEMMA ReadWorkloadsStep ==
    ASSUME IInv, NEW p \in Procs, ReadWorkloads(p)
    PROVE  IInv'
<1>1. TypeOK' /\ pc[p] = "assign" /\ UNCHANGED <<now, row, staffing, confirmed>>
    BY ContinueType DEF IInv, Continue, ReadWorkloads
<1>2. CASE Assign(p, Default)
  <2>1. PICK step \in {"check", "save"} : pc' = [pc EXCEPT ![p] = step]
      BY <1>2 DEF Assign
  <2>2. UNCHANGED <<op, target>> /\ agg' = [agg EXCEPT ![p].worker = Default]
      BY <1>2 DEF Assign
  <2> QED
      BY <1>1, <2>1, <2>2, GoOnStep DEF Awaits
<1>3. CASE pc' = [pc EXCEPT ![p] = "try"] /\ UNCHANGED <<op, target, agg>>
    BY <1>1, <1>3, GoOnStep DEF Awaits
<1> QED
    BY <1>2, <1>3 DEF ReadWorkloads

LEMMA TryCandidateStep ==
    ASSUME IInv, NEW p \in Procs, TryCandidate(p)
    PROVE  IInv'
<1>1. TypeOK' /\ pc[p] = "try" /\ UNCHANGED <<now, row, staffing, confirmed>>
    BY ContinueType DEF IInv, Continue, TryCandidate
<1>2. PICK c \in cands[p] :
          Assign(p, c[2]) \/ UNCHANGED <<pc, op, target, agg>> \/ Finish(p)
    BY DEF TryCandidate
<1>3. CASE Assign(p, c[2])
  <2>1. PICK step \in {"check", "save"} : pc' = [pc EXCEPT ![p] = step]
      BY <1>3 DEF Assign
  <2>2. UNCHANGED <<op, target>> /\ agg' = [agg EXCEPT ![p].worker = c[2]]
      BY <1>3 DEF Assign
  <2>3. c[2] \in Staffable
      BY DEF IInv, TypeOK
  <2> QED
      BY <1>1, <2>1, <2>2, <2>3, GoOnStep DEF Awaits
<1>4. CASE UNCHANGED <<pc, op, target, agg>>
  <2>1. pc' = [pc EXCEPT ![p] = "try"]
      BY <1>1, <1>4 DEF IInv, TypeOK
  <2> QED
      BY <1>1, <1>4, <2>1, GoOnStep DEF Awaits
<1>5. CASE Finish(p)
    BY <1>1, <1>5, FinishStep
<1> QED
    BY <1>2, <1>3, <1>4, <1>5

LEMMA CheckOverlapStep ==
    ASSUME IInv, NEW p \in Procs, CheckOverlap(p)
    PROVE  IInv'
<1>1. TypeOK' /\ pc[p] = "check" /\ UNCHANGED <<now, row, staffing, confirmed>>
    BY ContinueType DEF IInv, Continue, CheckOverlap
<1>2. CASE pc' = [pc EXCEPT ![p] = "save"] /\ UNCHANGED <<op, target, agg>>
    BY <1>1, <1>2, GoOnStep DEF Awaits
<1>3. CASE Finish(p)
    BY <1>1, <1>3, FinishStep
<1> QED
    BY <1>2, <1>3 DEF CheckOverlap

(* The write. What the database refuses keeps NoWorkerOverlap and            *)
(* WorkersExist; what the aggregate can hold keeps the rest.                 *)
LEMMA SaveStep ==
    ASSUME IInv, NEW p \in Procs, Save(p)
    PROVE  IInv'
<1> DEFINE id == target[p]
           r == agg[p]
<1>1. TypeOK' /\ TypeOK /\ pc[p] = "save" /\ Finish(p)
      /\ UNCHANGED <<now, staffing>>
    BY ContinueType DEF IInv, Continue, Save
<1>2. CASE ~Accepts(p)
    BY <1>1, <1>2, FinishStep DEF Save
<1>3. CASE Accepts(p)
  <2>1. id \in Ids /\ r \in Row
      BY <1>1 DEF TypeOK
  <2>2. row' = [row EXCEPT ![id] = r]
        /\ (confirmed' = IF op[p] = "confirm" THEN confirmed \cup {id} ELSE confirmed)
      BY <1>3 DEF Save
  <2>3. row'[id] = r /\ \A j \in Ids \ {id} : row'[j] = row[j]
      BY <1>1, <2>1, <2>2 DEF TypeOK
  <2>4. SnapshotAgrees(p)
      BY <1>1 DEF IInv, SnapshotsAgree
  <2>5. NoWorkerOverlap'
    <3>1. SUFFICES ASSUME NEW i \in Ids, NEW j \in Ids, i # j,
                          Occupies(row'[i]), Occupies(row'[j]),
                          row'[i].worker = row'[j].worker
                   PROVE  ~Overlap(row'[i], row'[j])
        BY DEF NoWorkerOverlap
    <3>2. Occupies(r) => IsFree(r.worker, r, id)
        BY <1>3 DEF Accepts, Excluded
    <3>3. CASE i = id
        BY <2>3, <3>1, <3>2, <3>3 DEF IsFree, Overlap
    <3>4. CASE j = id
        BY <2>3, <3>1, <3>2, <3>4 DEF IsFree, Overlap
    <3>5. CASE i # id /\ j # id
        BY <2>3, <3>1, <3>5 DEF IInv, NoWorkerOverlap
    <3> QED
        BY <3>3, <3>4, <3>5
  <2>6. FulfilledIsEarned'
      BY <1>1, <2>2, <2>3, <2>4 DEF IInv, FulfilledIsEarned, SnapshotAgrees
  <2>7. WorkersExist'
      BY <1>1, <1>3, <2>3
      DEF IInv, WorkersExist, Accepts, WorkerGone, Exists, Staff
  <2>8. SnapshotsAgree'
    <3>1. /\ pc'[p] = "idle" /\ target'[p] = NoId
          /\ \A q \in Procs \ {p} : /\ pc'[q] = pc[q] /\ op'[q] = op[q]
                                   /\ target'[q] = target[q] /\ agg'[q] = agg[q]
        BY <1>1 DEF Finish, TypeOK
    <3>2. SUFFICES ASSUME NEW q \in Procs, pc'[q] # "idle"
                   PROVE  SnapshotAgrees(q)'
        BY DEF SnapshotsAgree
    <3>3. q # p /\ SnapshotAgrees(q) /\ target[q] \in Ids
        BY <1>1, <3>1, <3>2 DEF IInv, SnapshotsAgree, TypeOK
    <3>4. CASE target[q] # id
        BY <2>2, <2>3, <3>1, <3>3, <3>4 DEF Exists, SnapshotAgrees
    <3>5. CASE target[q] = id
      <4>1. op[q] # "create" /\ op[p] # "create"
          BY <2>4, <3>3, <3>5 DEF SnapshotAgrees
      <4>2. Exists(id)
          BY <1>3, <4>1 DEF Accepts
      <4>3. SameBooking(agg[q], r)
          BY <2>4, <3>3, <3>5, <4>1, <4>2 DEF SnapshotAgrees, SameBooking
      <4>4. row'[id].status # "unborn"
          BY <2>3, <2>4 DEF SnapshotAgrees
      <4> QED
          BY <2>2, <2>3, <3>1, <3>3, <3>5, <4>1, <4>3, <4>4 DEF SnapshotAgrees
    <3> QED
        BY <3>4, <3>5
  <2> QED
      BY <1>1, <2>5, <2>6, <2>7, <2>8 DEF IInv
<1> QED
    BY <1>2, <1>3

(* What a cron job's statement does to one row. *)
Settled(r, s) ==
    \/ s = r
    \/ s.status = "purged"
    \/ /\ r.status = "confirmada" /\ s.status = "cumplida" /\ Ended(r, now)
       /\ EndOf(s) = EndOf(r) /\ s.start = r.start
       /\ s.worker = r.worker /\ SameBooking(s, r)
    \/ /\ r.status = "pendiente" /\ s.status = "cancelada"
       /\ s.worker = r.worker /\ SameBooking(s, r)

LEMMA JobsSettle ==
    ASSUME TypeOK, SettleConfirmed \/ SettlePending \/ Purge, NEW id \in Ids
    PROVE  /\ Settled(row[id], row'[id])
           /\ row[id].status = "unborn" <=> row'[id].status = "unborn"
           /\ row[id].status = "purged" => row'[id].status = "purged"
<1>1. row[id] \in Row
    BY DEF TypeOK
<1>2. CASE SettleConfirmed
    BY <1>1, <1>2 DEF SettleConfirmed, Settled, Row, EndOf, SameBooking
<1>3. CASE SettlePending
    BY <1>1, <1>3 DEF SettlePending, Settled, Row, EndOf, SameBooking
<1>4. CASE Purge
    BY <1>1, <1>4 DEF Purge, Settled, Blank, Exists, Statuses
<1> QED
    BY <1>2, <1>3, <1>4

LEMMA JobsStep ==
    ASSUME IInv, SettleConfirmed \/ SettlePending \/ Purge
    PROVE  IInv'
<1>1. TypeOK /\ TypeOK' /\ UNCHANGED <<now, staffing, reqVars, confirmed>>
    BY JobsType DEF IInv, SettleConfirmed, SettlePending, Purge
<1>2. \A id \in Ids : Settled(row[id], row'[id])
    BY <1>1, JobsSettle
<1>3. \A id \in Ids : Occupies(row'[id]) =>
          /\ Occupies(row[id]) /\ row'[id].worker = row[id].worker
          /\ row'[id].start = row[id].start /\ EndOf(row'[id]) = EndOf(row[id])
    BY <1>2 DEF Settled, Occupies, Statuses
<1>4. NoWorkerOverlap'
    BY <1>3 DEF IInv, NoWorkerOverlap, Overlap
<1>5. FulfilledIsEarned'
    BY <1>1, <1>2 DEF IInv, FulfilledIsEarned, Settled, Ended
<1>6. \A id \in Ids : Exists(id)' =>
          /\ Exists(id) /\ row'[id].worker = row[id].worker
          /\ SameBooking(row'[id], row[id])
    BY <1>2 DEF Settled, Exists, Statuses, SameBooking
<1>7. WorkersExist'
    BY <1>1, <1>6 DEF IInv, WorkersExist, Staff
<1>8. SnapshotsAgree'
  <2> SUFFICES ASSUME NEW p \in Procs, pc'[p] # "idle"
               PROVE  SnapshotAgrees(p)'
      BY DEF SnapshotsAgree
  <2>1. SnapshotAgrees(p) /\ target[p] \in Ids
      BY <1>1 DEF IInv, SnapshotsAgree, TypeOK, reqVars
  <2>2. row[target[p]].status = "unborn" <=> row'[target[p]].status = "unborn"
      BY <1>1, <2>1, JobsSettle
  <2>3. Exists(target[p])' => SameBooking(row'[target[p]], row[target[p]])
      BY <1>6, <2>1, <1>1 DEF reqVars, Exists
  <2>4. Exists(target[p])' => Exists(target[p])
      BY <1>6, <2>1, <1>1 DEF reqVars, Exists
  <2> QED
      BY <1>1, <2>1, <2>2, <2>3, <2>4 DEF SnapshotAgrees, SameBooking, reqVars
<1> QED
    BY <1>1, <1>4, <1>5, <1>7, <1>8 DEF IInv

LEMMA StaffStep ==
    ASSUME IInv, NEW w \in Workers, HireWorker(w) \/ RemoveWorker(w)
    PROVE  IInv'
<1>1. TypeOK' /\ UNCHANGED <<now, row, reqVars, confirmed>>
    BY NextType DEF IInv, Next, HireWorker, RemoveWorker
<1>2. WorkersExist'
  <2>1. \A v \in Staff : v \in Staff' \/ (v = w /\ ~HasReservations(w))
      BY DEF HireWorker, RemoveWorker, Staff, IInv, TypeOK
  <2> QED
      BY <1>1, <2>1 DEF IInv, WorkersExist, HasReservations, Exists
<1> QED
    BY <1>1, <1>2
    DEF IInv, NoWorkerOverlap, FulfilledIsEarned, SnapshotsAgree,
        SnapshotAgrees, Exists, reqVars

LEMMA TickStep ==
    ASSUME IInv, Tick
    PROVE  IInv'
<1>1. TypeOK /\ TypeOK' /\ now' = now + 1
      /\ UNCHANGED <<row, staffing, reqVars, confirmed>>
    BY NextType DEF IInv, Next, Tick
<1>2. FulfilledIsEarned'
  <2>1. \A id \in Ids : EndOf(row[id]) \in Nat
      BY <1>1 DEF TypeOK, Row, EndOf
  <2> QED
      BY <1>1, <2>1 DEF IInv, FulfilledIsEarned, Ended, TypeOK
<1> QED
    BY <1>1, <1>2
    DEF IInv, NoWorkerOverlap, WorkersExist, Staff, SnapshotsAgree,
        SnapshotAgrees, Exists, reqVars

LEMMA RestartStep ==
    ASSUME IInv, Restart
    PROVE  IInv'
<1>1. TypeOK' /\ UNCHANGED <<now, row, staffing, confirmed>>
    BY RestartType DEF IInv, Restart
<1>2. SnapshotsAgree'
    BY DEF Restart, SnapshotsAgree
<1> QED
    BY <1>1, <1>2
    DEF IInv, NoWorkerOverlap, FulfilledIsEarned, WorkersExist, Exists, Staff

LEMMA InitInv == Init => IInv
    BY InitType
    DEF IInv, Init, NoWorkerOverlap, FulfilledIsEarned, WorkersExist, Exists,
        SnapshotsAgree, Occupies, Blank, Statuses

LEMMA StutterStep ==
    ASSUME IInv, UNCHANGED vars
    PROVE  IInv'
<1>1. TypeOK'
    BY NextType DEF IInv
<1> QED
    BY <1>1
    DEF IInv, vars, reqVars, NoWorkerOverlap, FulfilledIsEarned, WorkersExist,
        Exists, Staff, SnapshotsAgree, SnapshotAgrees

LEMMA NextInv == IInv /\ [Next]_vars => IInv'
<1> SUFFICES ASSUME IInv, [Next]_vars
             PROVE  IInv'
    OBVIOUS
<1>1. ASSUME NEW p \in Procs, Begin(p)
      PROVE  IInv'
    BY <1>1, BeginStep
<1>2. ASSUME NEW p \in Procs, Continue(p)
      PROVE  IInv'
    BY <1>2, ReadWorkloadsStep, TryCandidateStep, CheckOverlapStep, SaveStep
    DEF Continue
<1>3. CASE SettleConfirmed \/ SettlePending \/ Purge
    BY <1>3, JobsStep
<1>4. ASSUME NEW w \in Workers, HireWorker(w) \/ RemoveWorker(w)
      PROVE  IInv'
    BY <1>4, StaffStep
<1>5. CASE Tick
    BY <1>5, TickStep
<1>6. CASE Restart
    BY <1>6, RestartStep
<1>7. CASE UNCHANGED vars
    BY <1>7, StutterStep
<1> QED
    BY <1>1, <1>2, <1>3, <1>4, <1>5, <1>6, <1>7 DEF Next

LEMMA Invariance == Spec => []IInv
    BY InitInv, NextInv, PTL DEF Spec

(* No stylist is ever booked twice at once, whatever requests, jobs, hirings *)
(* and restarts interleave.                                                  *)
THEOREM NoOverlap == Spec => []NoWorkerOverlap
<1> IInv => NoWorkerOverlap
    BY DEF IInv
<1> QED
    BY Invariance, PTL

(* A reservation counts as confirmed only if the salon confirmed it, and as  *)
(* fulfilled only if, besides, its visit is over.                            *)
THEOREM Earned == Spec => []FulfilledIsEarned
<1> IInv => FulfilledIsEarned
    BY DEF IInv
<1> QED
    BY Invariance, PTL

(* No reservation refers to a stylist who left. *)
THEOREM StylistsExist == Spec => []WorkersExist
<1> IInv => WorkersExist
    BY DEF IInv
<1> QED
    BY Invariance, PTL

(* In-flight aggregates are stale only in status, window and free stylist. *)
THEOREM Snapshots == Spec => []SnapshotsAgree
<1> IInv => SnapshotsAgree
    BY DEF IInv
<1> QED
    BY Invariance, PTL

-----------------------------------------------------------------------------
(* Steps: what a step may do to the table. *)

(* A step leaves the table alone, writes one aggregate, or is a job's. *)
LEMMA StepKinds ==
    ASSUME TypeOK, [Next]_vars
    PROVE  \/ UNCHANGED row
           \/ SettleConfirmed \/ SettlePending \/ Purge
           \/ \E p \in Procs : Save(p) /\ Accepts(p)
<1>1. ASSUME NEW p \in Procs, Begin(p)
      PROVE  UNCHANGED row
    BY <1>1
    DEF Begin, BeginCreate, BeginCancel, BeginConfirm, BeginReschedule, Enter
<1>2. ASSUME NEW p \in Procs, Continue(p)
      PROVE  UNCHANGED row \/ (Save(p) /\ Accepts(p))
    BY <1>2 DEF Continue, ReadWorkloads, TryCandidate, CheckOverlap, Save
<1>3. ASSUME NEW w \in Workers, HireWorker(w) \/ RemoveWorker(w)
      PROVE  UNCHANGED row
    BY <1>3 DEF HireWorker, RemoveWorker
<1>4. Tick \/ Restart \/ UNCHANGED vars => UNCHANGED row
    BY DEF Tick, Restart, vars
<1> QED
    BY <1>1, <1>2, <1>3, <1>4 DEF Next

(* What an accepted write does, from the invariant. *)
LEMMA AcceptedSave ==
    ASSUME IInv, NEW p \in Procs, Save(p), Accepts(p)
    PROVE  \E id \in Ids : \E r \in Row :
              /\ row' = [row EXCEPT ![id] = r]
              /\ row[id].status # "purged"
              /\ Exists(id) => SameBooking(r, row[id])
              /\ Occupies(r) => IsFree(r.worker, r, id)
<1>1. target[p] \in Ids /\ agg[p] \in Row /\ SnapshotAgrees(p)
    BY DEF Save, IInv, TypeOK, SnapshotsAgree
<1>2. row' = [row EXCEPT ![target[p]] = agg[p]]
    BY DEF Save
<1>3. Occupies(agg[p]) => IsFree(agg[p].worker, agg[p], target[p])
    BY DEF Accepts, Excluded
<1>4. row[target[p]].status # "purged"
      /\ (Exists(target[p]) => SameBooking(agg[p], row[target[p]]))
    BY <1>1 DEF SnapshotAgrees, Accepts, Exists, Statuses
<1> QED
    BY <1>1, <1>2, <1>3, <1>4

LEMMA StepKeepsBooking ==
    ASSUME IInv, [Next]_vars, NEW id \in Ids
    PROVE  /\ Exists(id) /\ Exists(id)' => SameBooking(row'[id], row[id])
           /\ row[id].status = "purged" => ~Exists(id)'
<1>1. TypeOK
    BY DEF IInv
<1>2. CASE UNCHANGED row
    BY <1>2 DEF Exists, SameBooking, Statuses
<1>3. CASE SettleConfirmed \/ SettlePending \/ Purge
  <2>1. /\ Settled(row[id], row'[id])
        /\ row[id].status = "purged" => row'[id].status = "purged"
      BY <1>1, <1>3, JobsSettle
  <2> QED
      BY <2>1 DEF Settled, Exists, SameBooking, Statuses
<1>4. ASSUME NEW p \in Procs, Save(p), Accepts(p)
      PROVE  /\ Exists(id) /\ Exists(id)' => SameBooking(row'[id], row[id])
             /\ row[id].status = "purged" => ~Exists(id)'
  <2>1. PICK j \in Ids, r \in Row :
            /\ row' = [row EXCEPT ![j] = r]
            /\ row[j].status # "purged"
            /\ Exists(j) => SameBooking(r, row[j])
      BY <1>4, AcceptedSave
  <2>2. CASE j = id
      BY <1>1, <2>1, <2>2 DEF TypeOK
  <2>3. CASE j # id
      BY <1>1, <2>1, <2>3 DEF TypeOK, Exists, SameBooking, Statuses
  <2> QED
      BY <2>2, <2>3
<1> QED
    BY <1>1, <1>2, <1>3, <1>4, StepKinds

(* Owner, services and a chosen stylist survive every write while the row    *)
(* lives, and a purged id stays purged.                                      *)
THEOREM BookingsKept == Spec => BookingIsKept
<1>1. IInv /\ [Next]_vars =>
          [\A id \in Ids :
              /\ Exists(id) /\ Exists(id)' => SameBooking(row'[id], row[id])
              /\ row[id].status = "purged" => ~Exists(id)']_row
    BY StepKeepsBooking
<1> QED
    BY <1>1, Invariance, PTL DEF Spec, BookingIsKept

-----------------------------------------------------------------------------
(* Refinement of WorkerCalendar *)

Agenda == {Visit(id) : id \in {i \in Ids : Occupies(row[i])}}

(* Fewer reservations occupying the agenda, each where it was. *)
LEMMA JobsRelease ==
    ASSUME TypeOK, SettleConfirmed \/ SettlePending \/ Purge
    PROVE  Agenda' \subseteq Agenda
<1> SUFFICES ASSUME NEW id \in Ids, Occupies(row[id])'
             PROVE  Occupies(row[id]) /\ Visit(id)' = Visit(id)
    BY DEF Agenda
<1>1. Settled(row[id], row'[id])
    BY JobsSettle
<1> QED
    BY <1>1 DEF Settled, Occupies, Visit, SameBooking, Statuses

LEMMA SaveWritesVisit ==
    ASSUME IInv, NEW p \in Procs, Save(p), Accepts(p)
    PROVE  Calendar!Next
<1>1. PICK id \in Ids, r \in Row :
          /\ row' = [row EXCEPT ![id] = r]
          /\ Exists(id) => SameBooking(r, row[id])
          /\ Occupies(r) => IsFree(r.worker, r, id)
    BY AcceptedSave
<1>2. row'[id] = r /\ \A j \in Ids \ {id} : row'[j] = row[j]
    BY <1>1 DEF IInv, TypeOK
<1>3. \A j \in Ids \ {id} : Visit(j)' = Visit(j)
    BY <1>2 DEF Visit
<1>4. \A j \in Ids : Visit(j).id = j /\ Visit(j).worker = row[j].worker
                     /\ Visit(j).from = row[j].start /\ Visit(j).to = EndOf(row[j])
                     /\ Visit(j).pinned = row[j].pinned
    BY DEF Visit
<1>5. CASE ~Occupies(r)
  <2>1. Agenda' \subseteq Agenda
      BY <1>2, <1>3, <1>5 DEF Agenda
  <2> QED
      BY <2>1 DEF Agenda, Calendar!Next, Calendar!Release
<1>6. CASE Occupies(r)
  <2> DEFINE e == Visit(id)'
  <2>1. e.id = id /\ e.worker = r.worker /\ e.from = r.start /\ e.to = EndOf(r)
        /\ e.pinned = r.pinned
      BY <1>2 DEF Visit
  <2>2. e \in Agenda'
      BY <1>2, <1>6 DEF Agenda
  <2>3. Agenda' = {x \in Agenda : x.id # e.id} \cup {e}
      BY <1>2, <1>3, <1>4, <1>6, <2>1 DEF Agenda
  <2>4. ASSUME NEW x \in Agenda, x.id # e.id, x.worker = e.worker
        PROVE  ~Calendar!Meet(x, e)
    <3>1. PICK j \in Ids : Occupies(row[j]) /\ x = Visit(j)
        BY DEF Agenda
    <3>2. j # id /\ row[j].worker = r.worker
        BY <1>4, <2>1, <2>4, <3>1
    <3>3. ~Overlap(row[j], r)
        BY <1>1, <1>6, <3>1, <3>2 DEF IsFree, Overlap
    <3> QED
        BY <1>4, <2>1, <3>1, <3>3 DEF Calendar!Meet, Overlap
  <2>5. ASSUME NEW x \in Agenda, x.id = e.id, x.pinned
        PROVE  e.pinned /\ e.worker = x.worker
    <3>1. PICK j \in Ids : Occupies(row[j]) /\ x = Visit(j)
        BY DEF Agenda
    <3>2. j = id /\ Exists(id)
        BY <1>4, <2>1, <2>5, <3>1 DEF Occupies, Exists
    <3> QED
        BY <1>1, <1>4, <2>1, <2>5, <3>1, <3>2 DEF SameBooking
  <2>6. Calendar!Write(e)
      BY <2>3, <2>4, <2>5 DEF Calendar!Write, Agenda
  <2> QED
      BY <2>2, <2>6 DEF Calendar!Next, Agenda
<1> QED
    BY <1>5, <1>6

(* The table of reservations, seen through the rows that are not cancelled,  *)
(* is an agenda without double bookings at every step: each step writes one  *)
(* visit that clashes with none, or only frees visits.                       *)
THEOREM RefinesCalendar == Spec => ImplementsCalendar
<1>1. Init => Calendar!Init
    BY DEF Init, Calendar!Init, Occupies, Blank, Statuses
<1>2. IInv /\ [Next]_vars => [Calendar!Next]_Agenda
  <2> SUFFICES ASSUME IInv, [Next]_vars
               PROVE  Calendar!Next \/ UNCHANGED Agenda
      OBVIOUS
  <2>1. TypeOK
      BY DEF IInv
  <2>2. CASE UNCHANGED row
      BY <2>2 DEF Agenda, Visit, Occupies
  <2>3. CASE SettleConfirmed \/ SettlePending \/ Purge
      BY <2>1, <2>3, JobsRelease DEF Agenda, Calendar!Next, Calendar!Release
  <2>4. ASSUME NEW p \in Procs, Save(p), Accepts(p)
        PROVE  Calendar!Next
      BY <2>4, SaveWritesVisit
  <2> QED
      BY <2>1, <2>2, <2>3, <2>4, StepKinds
<1> QED
    BY <1>1, <1>2, Invariance, PTL DEF Spec, ImplementsCalendar, Calendar!Spec, Agenda
=============================================================================
