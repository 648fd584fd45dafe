------------------------------ MODULE StaffDesk ------------------------------
(***************************************************************************)
(* The stylists and the option "Sin preferencia" (WorkersService). An actor *)
(* is a process of the backend with the request it serves; two requests of  *)
(* one process interleave as those of two do. Names are left out, so that   *)
(* of an edit only the way save() works is left: it reads the row again,    *)
(* and inserts it if it is gone. Which stylist a visit gets is the matter   *)
(* of Reservations; here a visit only refers to one.                        *)
(***************************************************************************)
EXTENDS Integers

CONSTANTS Actors,
          MaxHired       \* ids given to those who are hired (bound)

StaffAssumption == MaxHired \in Nat

VARIABLES workers,       \* the rows: isDefault of each id
          hired,         \* ids given so far
          booked,        \* the ids some reservation refers to
          actors,
          raced          \* two processes found no default at once (history)

staffVars == <<workers, hired, booked, actors, raced>>

Down == [at |-> "down", id |-> 0, isDefault |-> FALSE]
Served == [Down EXCEPT !.at = "idle"]

ActorAt(a, at) == actors' = [actors EXCEPT ![a].at = at]
ActorDone(a) == actors' = [actors EXCEPT ![a] = Served]
WithWorker(id, isDefault) == [i \in DOMAIN workers \union {id} |-> IF i = id THEN isDefault ELSE workers[i]]

Defaults == {id \in DOMAIN workers : workers[id]}

\* Before the process listens (onModuleInit), and first of all in every read.
Boot(a) ==
    /\ actors[a].at = "down"
    /\ ActorAt(a, "ensure")
    /\ UNCHANGED <<workers, hired, booked, raced>>

List(a) ==
    /\ actors[a].at = "idle"
    /\ ActorAt(a, "ensure")
    /\ UNCHANGED <<workers, hired, booked, raced>>

ensureDefaultWorker(a) ==
    /\ actors[a].at = "ensure"
    /\ IF Defaults # {} THEN ActorDone(a) /\ UNCHANGED raced
       ELSE /\ ActorAt(a, "add")
            /\ raced' = (raced \/ \E b \in Actors : actors[b].at = "add")
    /\ UNCHANGED <<workers, hired, booked>>

InsertWorker(isDefault) == hired' = hired + 1 /\ workers' = WithWorker(hired + 1, isDefault)

AddDefault(a) ==
    /\ actors[a].at = "add"
    /\ InsertWorker(TRUE)
    /\ ActorDone(a)
    /\ UNCHANGED <<booked, raced>>

create(a) ==
    /\ actors[a].at = "idle" /\ hired < MaxHired       \* bound
    /\ InsertWorker(FALSE)
    /\ UNCHANGED <<booked, actors, raced>>

BeginUpdateWorker(a) ==
    /\ actors[a].at = "idle"
    /\ \E id \in DOMAIN workers :
          actors' = [actors EXCEPT ![a] = [at |-> "reload", id |-> id, isDefault |-> workers[id]]]
    /\ UNCHANGED <<workers, hired, booked, raced>>

ReloadWorker(a) ==
    /\ actors[a].at = "reload"
    /\ IF actors[a].id \in DOMAIN workers THEN ActorDone(a) ELSE ActorAt(a, "reinsert")
    /\ UNCHANGED <<workers, hired, booked, raced>>

\* The key is refused if somebody else's edit inserted the row first.
ReinsertWorker(a) ==
    /\ actors[a].at = "reinsert"
    /\ workers' = IF actors[a].id \in DOMAIN workers THEN workers
                  ELSE WithWorker(actors[a].id, actors[a].isDefault)
    /\ ActorDone(a)
    /\ UNCHANGED <<hired, booked, raced>>

\* MUTANT of Removable: the default worker is a worker like the others.
RemovableWhoever(id) == TRUE
Removable(id) == ~workers[id]

BeginRemoveWorker(a) ==
    /\ actors[a].at = "idle"
    /\ \E id \in DOMAIN workers :
          /\ Removable(id)
          /\ actors' = [actors EXCEPT ![a].at = "count", ![a].id = id]
    /\ UNCHANGED <<workers, hired, booked, raced>>

Count(a) ==
    /\ actors[a].at = "count"
    /\ IF actors[a].id \in booked THEN ActorDone(a) ELSE ActorAt(a, "delete")
    /\ UNCHANGED <<workers, hired, booked, raced>>

\* The foreign key refuses it if a reservation came after the count.
DeleteWorker(a) ==
    /\ actors[a].at = "delete"
    /\ workers' = IF actors[a].id \in booked THEN workers
                  ELSE [id \in DOMAIN workers \ {actors[a].id} |-> workers[id]]
    /\ ActorDone(a)
    /\ UNCHANGED <<hired, booked, raced>>

Die(a) ==
    /\ actors[a].at # "down"
    /\ actors' = [actors EXCEPT ![a] = Down]
    /\ UNCHANGED <<workers, hired, booked, raced>>

\* The last reservation of a stylist is purged, or there is one again.
Rebook ==
    /\ \E id \in DOMAIN workers :
          booked' = IF id \in booked THEN booked \ {id} ELSE booked \union {id}
    /\ UNCHANGED <<workers, hired, actors, raced>>

StaffInit ==
    /\ workers = <<>> /\ hired = 0 /\ booked = {}
    /\ actors = [a \in Actors |-> Down]
    /\ raced = FALSE

StaffNext ==
    \/ \E a \in Actors :
          \/ Boot(a) \/ List(a) \/ ensureDefaultWorker(a) \/ AddDefault(a)
          \/ create(a) \/ BeginUpdateWorker(a) \/ ReloadWorker(a) \/ ReinsertWorker(a)
          \/ BeginRemoveWorker(a) \/ Count(a) \/ DeleteWorker(a) \/ Die(a)
    \/ Rebook

(***************************************************************************)
(* Whoever the salon hires, renames and lets go, and whatever process dies: *)
(* a process that serves finds a default worker, and only one unless two    *)
(* processes started on an empty table at once; a removal that was decided  *)
(* on a count never takes a stylist somebody is booked with; and one whom   *)
(* an edit in flight brings back is a stylist, never a second default.      *)
(***************************************************************************)
StaffIsSound ==
    /\ (\E a \in Actors : actors[a].at \notin {"down", "ensure", "add"}) => Defaults # {}
    /\ (\E i, j \in Defaults : i # j) => raced
    /\ booked \subseteq DOMAIN workers
    /\ \A a \in Actors : actors[a].at = "reinsert" => ~actors[a].isDefault
=============================================================================
