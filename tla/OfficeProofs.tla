------------------------------ MODULE OfficeProofs ------------------------------
(***************************************************************************)
(* What holds of the stylists' desk (StaffDesk) for any number of processes *)
(* of the backend and of stylists, and of the catalogue as it is written    *)
(* (CatalogueDesk) for any names, images, tags and lists of them.           *)
(***************************************************************************)
EXTENDS CatalogueDesk, StaffDesk, FiniteSetTheorems, SequenceTheorems, TLAPS

-----------------------------------------------------------------------------
(* The staff. *)

StaffSpec == StaffInit /\ [][StaffNext]_staffVars

Steps == {"down", "ensure", "add", "idle", "reload", "reinsert", "count", "delete"}

StaffTypes ==
    /\ hired \in Nat
    /\ workers \in [DOMAIN workers -> BOOLEAN] /\ DOMAIN workers \subseteq 1 .. hired
    /\ actors \in [Actors -> [at : Steps, id : Nat, isDefault : BOOLEAN]]
    /\ raced \in BOOLEAN

\* A default worker is never let go: nobody removes one, and an edit of one finds it.
Handling(a) ==
    /\ actors[a].at \in {"reload", "reinsert", "count", "delete"} => actors[a].id \in 1 .. hired
    /\ actors[a].at \in {"count", "delete"} => actors[a].id \notin Defaults
    /\ actors[a].at = "reload" /\ actors[a].isDefault => actors[a].id \in Defaults
    /\ actors[a].at = "reinsert" => ~actors[a].isDefault
    /\ actors[a].at \notin {"down", "ensure", "add"} => Defaults # {}

\* While no two looked at once, one adds the default at most, to a staff without.
OneDefault ==
    ~raced =>
        /\ \A i, j \in Defaults : i = j
        /\ \A a, b \in Actors : actors[a].at = "add" /\ actors[b].at = "add" => a = b
        /\ \A a \in Actors : actors[a].at = "add" => Defaults = {}

StaffInv ==
    /\ StaffTypes
    /\ \A a \in Actors : Handling(a)
    /\ OneDefault
    /\ booked \subseteq DOMAIN workers

LEMMA StaffInvImplies == StaffInv => StaffIsSound
<1> SUFFICES ASSUME StaffInv PROVE StaffIsSound OBVIOUS
<1>1. (\E a \in Actors : actors[a].at \notin {"down", "ensure", "add"}) => Defaults # {}
  BY DEF StaffInv, Handling
<1>2. (\E i, j \in Defaults : i # j) => raced BY DEF StaffInv, OneDefault
<1>3. \A a \in Actors : actors[a].at = "reinsert" => ~actors[a].isDefault
  BY DEF StaffInv, Handling
<1>4. booked \subseteq DOMAIN workers BY DEF StaffInv
<1> QED BY <1>1, <1>2, <1>3, <1>4 DEF StaffIsSound

LEMMA StaffInitInv == StaffInit => StaffInv
<1> SUFFICES ASSUME StaffInit PROVE StaffInv OBVIOUS
<1>1. workers = <<>> /\ hired = 0 /\ booked = {} /\ raced = FALSE
  BY DEF StaffInit
<1>2. \A a \in Actors : actors[a] = [at |-> "down", id |-> 0, isDefault |-> FALSE]
  BY DEF StaffInit, Down
<1>3. actors \in [Actors -> [at : Steps, id : Nat, isDefault : BOOLEAN]]
  BY DEF StaffInit, Down, Steps
<1>4. DOMAIN workers = {} /\ workers \in [DOMAIN workers -> BOOLEAN] BY <1>1
<1>5. Defaults = {} BY <1>4 DEF Defaults
<1>6. \A a \in Actors : Handling(a) BY <1>2 DEF Handling
<1>7. OneDefault BY <1>2, <1>5 DEF OneDefault
<1>8. StaffTypes BY <1>1, <1>3, <1>4 DEF StaffTypes
<1> QED BY <1>1, <1>6, <1>7, <1>8 DEF StaffInv

-----------------------------------------------------------------------------
\* A step that only moves an actor, and not to where the default is added.
LEMMA Moves ==
    ASSUME StaffInv, NEW a \in Actors, NEW new \in [at : Steps, id : Nat, isDefault : BOOLEAN],
           actors' = [actors EXCEPT ![a] = new], UNCHANGED <<workers, hired, raced>>,
           booked' \subseteq DOMAIN workers, Handling(a)', new.at # "add"
    PROVE  StaffInv'
<1>1. StaffTypes' BY DEF StaffInv, StaffTypes
<1>2. Defaults' = Defaults BY DEF Defaults
<1>3. \A b \in Actors : actors'[b] = IF b = a THEN new ELSE actors[b] BY DEF StaffInv, StaffTypes
<1>4. \A b \in Actors \ {a} : Handling(b)' BY <1>2, <1>3 DEF StaffInv, Handling
<1>5. OneDefault' BY <1>2, <1>3 DEF StaffInv, OneDefault
<1> QED BY <1>1, <1>4, <1>5 DEF StaffInv

LEMMA Records ==
    /\ Down = [at |-> "down", id |-> 0, isDefault |-> FALSE]
    /\ Served = [at |-> "idle", id |-> 0, isDefault |-> FALSE]
    /\ Down \in [at : Steps, id : Nat, isDefault : BOOLEAN]
    /\ Served \in [at : Steps, id : Nat, isDefault : BOOLEAN]
<1>1. Down = [at |-> "down", id |-> 0, isDefault |-> FALSE] BY DEF Down
<1>2. Served = [Down EXCEPT !.at = "idle"] BY DEF Served
<1>3. Served = [at |-> "idle", id |-> 0, isDefault |-> FALSE] BY ONLY <1>1, <1>2
<1> QED BY <1>1, <1>3 DEF Steps

\* A step that adds a row, by an actor that is served: the default worker where
\* there is none, a new stylist, or an old one brought back.
LEMMA Adds ==
    ASSUME StaffInv, NEW a \in Actors, NEW id, NEW isDefault \in BOOLEAN,
           id \in 1 .. hired', hired' \in Nat, hired <= hired', id \notin DOMAIN workers,
           workers' \in [DOMAIN workers \union {id} -> BOOLEAN], workers'[id] = isDefault,
           \A i \in DOMAIN workers : workers'[i] = workers[i],
           actors' \in [Actors -> [at : Steps, id : Nat, isDefault : BOOLEAN]],
           \A b \in Actors : \/ actors'[b] = actors[b] /\ (b = a => actors[a].at = "idle")
                             \/ b = a /\ actors'[b] = Served,
           booked' = booked, raced' = raced,
           isDefault => id = hired + 1 /\ actors[a].at = "add",
           Defaults # {} \/ isDefault
    PROVE  StaffInv'
<1>1. Served = [at |-> "idle", id |-> 0, isDefault |-> FALSE] BY Records
<1>2. StaffTypes' BY DEF StaffInv, StaffTypes
<1>3. Defaults' = IF isDefault THEN Defaults \union {id} ELSE Defaults
  BY DEF Defaults
<1>5. \A b \in Actors : Handling(b)'
  <2> SUFFICES ASSUME NEW b \in Actors PROVE Handling(b)' OBVIOUS
  <2>1. CASE actors'[b] = Served BY <1>1, <1>3, <2>1 DEF Handling
  <2>2. CASE actors'[b] = actors[b]
    BY <1>3, <2>2 DEF StaffInv, StaffTypes, Handling
  <2> QED BY <2>1, <2>2
<1>6. OneDefault'
  <2>1. CASE isDefault
    <3>1. ~raced => Defaults = {} /\ \A b \in Actors : actors[b].at = "add" => b = a
      BY <2>1 DEF StaffInv, OneDefault
    <3>2. \A b \in Actors : actors'[b].at = "add" => b # a /\ actors[b].at = "add"
      BY <1>1, <2>1
    <3> QED BY <1>3, <2>1, <3>1, <3>2 DEF OneDefault
  <2>2. CASE ~isDefault
    <3>1. \A b \in Actors : actors'[b].at = "add" => actors[b].at = "add" BY <1>1
    <3> QED BY <1>3, <2>2, <3>1 DEF StaffInv, OneDefault
  <2> QED BY <2>1, <2>2
<1>7. booked' \subseteq DOMAIN workers' BY DEF StaffInv
<1> QED BY <1>2, <1>5, <1>6, <1>7 DEF StaffInv

LEMMA StaffStep ==
    ASSUME StaffInv, [StaffNext]_staffVars PROVE StaffInv'
<1> USE DEF ActorAt, ActorDone
<1>1. Served = [at |-> "idle", id |-> 0, isDefault |-> FALSE]
      /\ Down = [at |-> "down", id |-> 0, isDefault |-> FALSE]
      /\ Down \in [at : Steps, id : Nat, isDefault : BOOLEAN]
      /\ Served \in [at : Steps, id : Nat, isDefault : BOOLEAN]
  BY Records
<1>2. StaffTypes /\ booked \subseteq DOMAIN workers /\ \A a \in Actors : Handling(a) BY DEF StaffInv
<1>3. \A a \in Actors : actors[a] \in [at : Steps, id : Nat, isDefault : BOOLEAN]
  BY <1>2 DEF StaffTypes
\* Where an actor goes with what it has.
<1>4. ASSUME NEW a \in Actors, NEW at \in Steps, actors' = [actors EXCEPT ![a].at = at],
             UNCHANGED <<workers, hired, booked, raced>>, at # "add",
             at \in {"reload", "reinsert", "count", "delete"} => actors[a].id \in 1 .. hired,
             at \in {"count", "delete"} => actors[a].id \notin Defaults,
             at = "reload" /\ actors[a].isDefault => actors[a].id \in Defaults,
             at = "reinsert" => ~actors[a].isDefault,
             at \notin {"down", "ensure", "add"} => Defaults # {}
      PROVE  StaffInv'
  <2> DEFINE new == [actors[a] EXCEPT !.at = at]
  <2>1. new \in [at : Steps, id : Nat, isDefault : BOOLEAN] /\ new.at = at
        /\ new.id = actors[a].id /\ new.isDefault = actors[a].isDefault
    BY <1>3, <1>4
  <2>2. actors' = [actors EXCEPT ![a] = new] BY <1>2, <1>4 DEF StaffTypes
  <2> HIDE DEF new
  <2>3. actors'[a] = new BY <1>2, <2>2 DEF StaffTypes
  <2>4. Defaults' = Defaults BY <1>4 DEF Defaults
  <2>5. Handling(a)' BY <1>4, <2>1, <2>3, <2>4 DEF Handling
  <2> QED BY <1>2, <1>4, <2>1, <2>2, <2>5, Moves
\* An actor that is served.
<1>5. ASSUME NEW a \in Actors, actors' = [actors EXCEPT ![a] = Served],
             UNCHANGED <<workers, hired, booked, raced>>, Defaults # {}
      PROVE  StaffInv'
  <2>1. Served \in [at : Steps, id : Nat, isDefault : BOOLEAN] BY <1>1 DEF Steps
  <2>2. actors'[a] = Served BY <1>2, <1>5 DEF StaffTypes
  <2>3. Defaults' = Defaults BY <1>5 DEF Defaults
  <2>4. Handling(a)' BY <1>1, <1>5, <2>2, <2>3 DEF Handling
  <2> QED BY <1>1, <1>2, <1>5, <2>1, <2>4, Moves
<1>6. ASSUME NEW a \in Actors, Boot(a) \/ List(a) PROVE StaffInv'
  BY <1>4, <1>6 DEF Boot, List, Steps
<1>7. ASSUME NEW a \in Actors, ensureDefaultWorker(a) PROVE StaffInv'
  <2>1. CASE Defaults # {} BY <1>5, <1>7, <2>1 DEF ensureDefaultWorker
  <2>2. CASE Defaults = {}
    <3>1. /\ actors' = [actors EXCEPT ![a].at = "add"] /\ UNCHANGED <<workers, hired, booked>>
          /\ raced' = (raced \/ \E b \in Actors : actors[b].at = "add")
      BY <1>7, <2>2 DEF ensureDefaultWorker
    <3>2. StaffTypes' BY <1>2, <3>1 DEF StaffTypes, Steps
    <3>3. Defaults' = {} BY <2>2, <3>1 DEF Defaults
    <3>4. \A b \in Actors : actors'[b] = IF b = a THEN [actors[a] EXCEPT !.at = "add"] ELSE actors[b]
      BY <1>2, <3>1 DEF StaffTypes
    <3>5. \A b \in Actors : actors'[b].at = (IF b = a THEN "add" ELSE actors[b].at)
      BY <1>3, <3>4
    <3>6. \A b \in Actors : Handling(b)'
      BY <1>2, <2>2, <3>1, <3>3, <3>4, <3>5 DEF Handling
    <3>7. OneDefault' BY <3>1, <3>3, <3>5 DEF OneDefault
    <3> QED BY <1>2, <3>1, <3>2, <3>6, <3>7 DEF StaffInv
  <2> QED BY <2>1, <2>2
<1>8. ASSUME NEW a \in Actors, AddDefault(a) PROVE StaffInv'
  <2>1. /\ hired' = hired + 1 /\ booked' = booked /\ raced' = raced
        /\ workers' = [i \in DOMAIN workers \union {hired + 1} |->
                          IF i = hired + 1 THEN TRUE ELSE workers[i]]
    BY <1>8 DEF AddDefault, InsertWorker, WithWorker
  <2>2. actors' = [actors EXCEPT ![a] = Served] /\ actors[a].at = "add"
    BY <1>8 DEF AddDefault
  <2> DEFINE id == hired + 1
  <2>3. hired' \in Nat /\ hired <= hired' /\ id \in 1 .. hired' /\ id \notin DOMAIN workers
    BY <1>2, <2>1 DEF StaffTypes
  <2>4. /\ workers' \in [DOMAIN workers \union {id} -> BOOLEAN] /\ workers'[id] = TRUE
        /\ \A i \in DOMAIN workers : workers'[i] = workers[i]
    BY <1>2, <2>1, <2>3 DEF StaffTypes
  <2>5. /\ actors' \in [Actors -> [at : Steps, id : Nat, isDefault : BOOLEAN]]
        /\ \A b \in Actors : \/ actors'[b] = actors[b] /\ (b = a => actors[a].at = "idle")
                             \/ b = a /\ actors'[b] = Served
    BY <1>1, <1>2, <2>2 DEF StaffTypes
  <2>6. TRUE \in BOOLEAN OBVIOUS
  <2>7. id = hired + 1 OBVIOUS
  <2> HIDE DEF id
  <2> QED BY <1>2, <2>1, <2>2, <2>3, <2>4, <2>5, <2>6, <2>7, Adds
<1>9. ASSUME NEW a \in Actors, create(a) PROVE StaffInv'
  <2>1. /\ hired' = hired + 1 /\ booked' = booked /\ raced' = raced
        /\ workers' = [i \in DOMAIN workers \union {hired + 1} |->
                          IF i = hired + 1 THEN FALSE ELSE workers[i]]
    BY <1>9 DEF create, InsertWorker, WithWorker
  <2>2. actors' = actors /\ actors[a].at = "idle"
    BY <1>9 DEF create
  <2> DEFINE id == hired + 1
  <2>3. hired' \in Nat /\ hired <= hired' /\ id \in 1 .. hired' /\ id \notin DOMAIN workers
    BY <1>2, <2>1 DEF StaffTypes
  <2>4. /\ workers' \in [DOMAIN workers \union {id} -> BOOLEAN] /\ workers'[id] = FALSE
        /\ \A i \in DOMAIN workers : workers'[i] = workers[i]
    BY <1>2, <2>1, <2>3 DEF StaffTypes
  <2>5. /\ actors' \in [Actors -> [at : Steps, id : Nat, isDefault : BOOLEAN]]
        /\ \A b \in Actors : \/ actors'[b] = actors[b] /\ (b = a => actors[a].at = "idle")
                             \/ b = a /\ actors'[b] = Served
    BY <1>1, <1>2, <2>2 DEF StaffTypes
  <2>6. Defaults # {} /\ FALSE \in BOOLEAN BY <1>2, <2>2 DEF Handling
  <2>7. id = hired + 1 OBVIOUS
  <2> HIDE DEF id
  <2> QED BY <1>2, <2>1, <2>2, <2>3, <2>4, <2>5, <2>6, <2>7, Adds
<1>10. ASSUME NEW a \in Actors, BeginUpdateWorker(a) PROVE StaffInv'
  <2>1. PICK id \in DOMAIN workers :
           actors' = [actors EXCEPT ![a] = [at |-> "reload", id |-> id, isDefault |-> workers[id]]]
    BY <1>10 DEF BeginUpdateWorker
  <2> DEFINE new == [at |-> "reload", id |-> id, isDefault |-> workers[id]]
  <2>2. id \in 1 .. hired /\ id \in Nat /\ workers[id] \in BOOLEAN BY <1>2 DEF StaffTypes
  <2>3. new \in [at : Steps, id : Nat, isDefault : BOOLEAN] BY <2>2 DEF Steps
  <2>4. new.at = "reload" /\ new.id = id /\ new.isDefault = workers[id] OBVIOUS
  <2>5. actors' = [actors EXCEPT ![a] = new] BY <2>1
  <2> HIDE DEF new
  <2>6. actors'[a] = new BY <1>2, <2>5 DEF StaffTypes
  <2>7. actors[a].at = "idle" /\ UNCHANGED <<workers, hired, booked, raced>>
    BY <1>10 DEF BeginUpdateWorker
  <2>8. Defaults' = Defaults BY <2>7 DEF Defaults
  <2>9. Defaults # {} /\ (workers[id] => id \in Defaults)
    BY <1>2, <2>7 DEF Handling, Defaults
  <2>10. Handling(a)' BY <2>2, <2>4, <2>6, <2>7, <2>8, <2>9 DEF Handling
  <2> QED BY <1>2, <2>3, <2>4, <2>5, <2>7, <2>10, Moves
<1>11. ASSUME NEW a \in Actors, ReloadWorker(a) PROVE StaffInv'
  <2>1. actors[a].at = "reload" /\ UNCHANGED <<workers, hired, booked, raced>>
    BY <1>11 DEF ReloadWorker
  <2>2. /\ Defaults # {} /\ actors[a].id \in 1 .. hired
        /\ actors[a].isDefault => actors[a].id \in Defaults
    BY <1>2, <2>1 DEF Handling
  <2>3. CASE actors[a].id \in DOMAIN workers BY <1>5, <1>11, <2>1, <2>2, <2>3 DEF ReloadWorker
  <2>4. CASE actors[a].id \notin DOMAIN workers
    <3>1. ~actors[a].isDefault BY <2>2, <2>4 DEF Defaults
    <3> QED BY <1>4, <1>11, <2>1, <2>2, <2>4, <3>1 DEF ReloadWorker, Steps
  <2> QED BY <2>3, <2>4
<1>12. ASSUME NEW a \in Actors, ReinsertWorker(a) PROVE StaffInv'
  <2>1. /\ actors[a].at = "reinsert" /\ actors' = [actors EXCEPT ![a] = Served]
        /\ UNCHANGED <<hired, booked, raced>>
    BY <1>12 DEF ReinsertWorker
  <2>2. Defaults # {} /\ actors[a].id \in 1 .. hired /\ ~actors[a].isDefault
    BY <1>2, <2>1 DEF Handling
  <2>3. CASE actors[a].id \in DOMAIN workers BY <1>5, <1>12, <2>1, <2>2, <2>3 DEF ReinsertWorker
  <2>4. CASE actors[a].id \notin DOMAIN workers
    <3> DEFINE id == actors[a].id
    <3>1. workers' = [i \in DOMAIN workers \union {id} |-> IF i = id THEN FALSE ELSE workers[i]]
      BY <1>3, <1>12, <2>2, <2>4 DEF ReinsertWorker, WithWorker
    <3>2. hired \in Nat /\ id \in 1 .. hired' /\ hired' = hired BY <1>2, <2>1, <2>2 DEF StaffTypes
    <3>3. /\ workers' \in [DOMAIN workers \union {id} -> BOOLEAN] /\ workers'[id] = FALSE
          /\ \A i \in DOMAIN workers : workers'[i] = workers[i]
      BY <1>2, <2>4, <3>1 DEF StaffTypes
    <3>4. /\ actors' \in [Actors -> [at : Steps, id : Nat, isDefault : BOOLEAN]]
          /\ \A b \in Actors : \/ actors'[b] = actors[b] /\ (b = a => actors[a].at = "idle")
                               \/ b = a /\ actors'[b] = Served
      BY <1>1, <1>2, <2>1 DEF StaffTypes
    <3>5. id \notin DOMAIN workers /\ hired' \in Nat /\ hired <= hired' /\ FALSE \in BOOLEAN
      BY <2>4, <3>2
    <3> HIDE DEF id
    <3> QED BY <2>1, <2>2, <3>2, <3>3, <3>4, <3>5, Adds
  <2> QED BY <2>3, <2>4
<1>13. ASSUME NEW a \in Actors, BeginRemoveWorker(a) PROVE StaffInv'
  <2>1. PICK id \in DOMAIN workers :
           ~workers[id] /\ actors' = [actors EXCEPT ![a].at = "count", ![a].id = id]
    BY <1>13 DEF BeginRemoveWorker, Removable
  <2> DEFINE new == [actors[a] EXCEPT !.at = "count", !.id = id]
  <2>2. id \in 1 .. hired /\ id \in Nat BY <1>2 DEF StaffTypes
  <2>3. new \in [at : Steps, id : Nat, isDefault : BOOLEAN] /\ new.at = "count" /\ new.id = id
    BY <1>3, <2>2 DEF Steps
  <2>4. actors' = [actors EXCEPT ![a] = new] BY <1>2, <2>1 DEF StaffTypes
  <2> HIDE DEF new
  <2>5. actors'[a] = new BY <1>2, <2>4 DEF StaffTypes
  <2>6. actors[a].at = "idle" /\ UNCHANGED <<workers, hired, booked, raced>>
    BY <1>13 DEF BeginRemoveWorker
  <2>7. Defaults' = Defaults /\ Defaults # {} /\ id \notin Defaults
    BY <1>2, <2>1, <2>6 DEF Handling, Defaults
  <2>8. Handling(a)' BY <2>2, <2>3, <2>5, <2>6, <2>7 DEF Handling
  <2> QED BY <1>2, <2>3, <2>4, <2>6, <2>8, Moves
<1>14. ASSUME NEW a \in Actors, Count(a) PROVE StaffInv'
  <2>1. actors[a].at = "count" /\ UNCHANGED <<workers, hired, booked, raced>>
    BY <1>14 DEF Count
  <2>2. Defaults # {} /\ actors[a].id \in 1 .. hired /\ actors[a].id \notin Defaults
    BY <1>2, <2>1 DEF Handling
  <2>3. CASE actors[a].id \in booked BY <1>5, <1>14, <2>1, <2>2, <2>3 DEF Count
  <2>4. CASE actors[a].id \notin booked BY <1>4, <1>14, <2>1, <2>2, <2>4 DEF Count, Steps
  <2> QED BY <2>3, <2>4
<1>15. ASSUME NEW a \in Actors, DeleteWorker(a) PROVE StaffInv'
  <2>1. /\ actors[a].at = "delete" /\ actors' = [actors EXCEPT ![a] = Served]
        /\ UNCHANGED <<hired, booked, raced>>
    BY <1>15 DEF DeleteWorker
  <2>2. Defaults # {} /\ actors[a].id \in 1 .. hired /\ actors[a].id \notin Defaults
    BY <1>2, <2>1 DEF Handling
  <2>3. CASE actors[a].id \in booked BY <1>5, <1>15, <2>1, <2>2, <2>3 DEF DeleteWorker
  <2>4. CASE actors[a].id \notin booked
    <3>1. workers' = [id \in DOMAIN workers \ {actors[a].id} |-> workers[id]]
      BY <1>15, <2>4 DEF DeleteWorker
    <3>2. Defaults' = Defaults BY <2>2, <3>1 DEF Defaults
    <3>3. StaffTypes' BY <1>1, <1>2, <2>1, <3>1 DEF StaffTypes, Steps
    <3>4. \A b \in Actors : actors'[b] = IF b = a THEN Served ELSE actors[b]
      BY <1>2, <2>1 DEF StaffTypes
    <3>5. \A b \in Actors : Handling(b)' BY <1>1, <1>2, <2>1, <2>2, <3>2, <3>4 DEF Handling
    <3>6. \A b \in Actors : actors'[b].at = "add" => actors[b].at = "add" BY <1>1, <3>4
    <3>7. OneDefault' BY <2>1, <3>2, <3>6 DEF StaffInv, OneDefault
    <3>8. booked' \subseteq DOMAIN workers' BY <1>2, <2>1, <2>4, <3>1
    <3> QED BY <3>3, <3>5, <3>7, <3>8 DEF StaffInv
  <2> QED BY <2>3, <2>4
<1>16. ASSUME NEW a \in Actors, Die(a) PROVE StaffInv'
  <2>1. actors' = [actors EXCEPT ![a] = Down] /\ UNCHANGED <<workers, hired, booked, raced>>
    BY <1>16 DEF Die
  <2>2. Down \in [at : Steps, id : Nat, isDefault : BOOLEAN] BY <1>1 DEF Steps
  <2>3. actors'[a] = Down BY <1>2, <2>1 DEF StaffTypes
  <2>4. Handling(a)' BY <1>1, <2>3 DEF Handling
  <2> QED BY <1>1, <1>2, <2>1, <2>2, <2>4, Moves
<1>17. CASE Rebook
  <2>1. booked' \subseteq DOMAIN workers' /\ UNCHANGED <<workers, hired, actors, raced>>
    BY <1>2, <1>17 DEF Rebook
  <2>2. Defaults' = Defaults BY <2>1 DEF Defaults
  <2> QED BY <2>1, <2>2 DEF StaffInv, StaffTypes, Handling, OneDefault
<1>18. CASE UNCHANGED staffVars
  <2>1. UNCHANGED <<workers, hired, booked, actors, raced>> BY <1>18 DEF staffVars
  <2>2. Defaults' = Defaults BY <2>1 DEF Defaults
  <2> QED BY <2>1, <2>2 DEF StaffInv, StaffTypes, Handling, OneDefault
<1> QED BY <1>6, <1>7, <1>8, <1>9, <1>10, <1>11, <1>12, <1>13, <1>14, <1>15, <1>16, <1>17, <1>18
        DEF StaffNext

(* Whatever the salon hires, renames and lets go, and whatever process dies, *)
(* a process that serves finds a default worker, one only unless two found  *)
(* none at once; nobody somebody is booked with is let go, and an edit in    *)
(* flight never brings a second default (WorkersService).                   *)
THEOREM StaffSound == StaffSpec => []StaffIsSound
<1>1. StaffInv /\ [StaffNext]_staffVars => StaffInv' BY StaffStep
<1> QED BY <1>1, StaffInitInv, StaffInvImplies, PTL DEF StaffSpec

-----------------------------------------------------------------------------
(* The catalogue. *)

DeskSpec == DeskInit /\ [][DeskNext]_deskVars

\* A service whose pictures the job has begun to replace or to remove.
Touched(n) ==
    job.name = n /\ (job.at \in {"rows", "service"} \/ (job.at = "save" /\ job.drop # {}))

\* What SaveTag will leave hung from the gender.
SavedGenders ==
    {t \in DOMAIN tags :
        IF t = job.name THEN Head(job.left) = Gender
        ELSE tags[t] = Gender /\ (job.name = Gender => t \in job.tags)}

HasGender(genders) ==
    \A n \in told.seeded \ told.untagged : n \in DOMAIN shop /\ shop[n] \intersect genders # {}

Shapes ==
    /\ DOMAIN job = {"kind", "at", "name", "tags", "images", "principal", "drop", "left"}
    /\ DOMAIN told = {"dropped", "halted", "untagged", "seeded", "jobs"}
    /\ Null \notin files

Pictures ==
    \A i \in DOMAIN rows :
        /\ rows[i].of \in DOMAIN shop
        /\ i \notin files => i \in told.dropped /\ (rows[i].of \in told.halted \/ Touched(rows[i].of))

OneEach ==
    \A n \in DOMAIN shop :
        n \in told.halted \/ Touched(n) \/ ImagesOf(n) = {}
        \/ \E i \in ImagesOf(n) : \A k \in ImagesOf(n) : rows[k].principal <=> k = i

Services == \A n \in DOMAIN shop : n \in details /\ (n \in told.untagged \/ shop[n] # {})

\* What an update will write: images of its service or of none, that have their files.
Updating ==
    /\ job.tags # {}
    /\ \/ job.images = {Null} /\ job.drop = {}
       \/ /\ job.images # {Null}
          /\ job.images = {} \/ job.principal \in job.images
          /\ \A i \in job.images : i \in DOMAIN rows => rows[i].of = job.name
          /\ \A i \in job.images : i \notin files => i \in told.dropped /\ job.name \in told.halted
          /\ job.images \intersect job.drop = {}

Jobs ==
    /\ job.at = "idle" => job = Idle
    /\ job.at \in {"rows", "save"} => job.kind = "update"
    /\ job.at = "service" => job.kind = "remove"
    /\ job.at = "files" => job.kind \in {"update", "remove"}
    /\ job.at \in {"files", "rows", "save", "service"} => job.name \in DOMAIN shop
    /\ job.at \in {"files", "rows"} => job.drop \subseteq ImagesOf(job.name)
    /\ job.at \in {"files", "rows"} /\ job.kind = "update" => job.drop # {}
    /\ job.at = "insert" =>
          /\ job.tags # {} /\ job.images \subseteq files /\ job.images \intersect DOMAIN rows = {}
          /\ job.images = {} \/ job.principal \in job.images
    /\ job.kind = "update" => Updating /\ job.at \notin {"tree", "next"}
    /\ job.at = "detail" => job.name \notin DOMAIN shop
    /\ job.at = "tag" => HasGender(SavedGenders)
    /\ job.at = "next" =>
          /\ job.left # <<>> /\ \E S : job.left \in Seq(S)
          /\ \A k \in DOMAIN job.left :
                job.left[k].tags \intersect Genders # {} /\ job.left[k].tags \subseteq DOMAIN tags

DeskInv ==
    /\ Shapes
    /\ Pictures
    /\ OneEach
    /\ Services
    /\ HasGender(Genders)
    /\ Jobs

LEMMA IdleIs ==
    /\ DOMAIN Idle = {"kind", "at", "name", "tags", "images", "principal", "drop", "left"}
    /\ Idle.kind = "none" /\ Idle.at = "idle" /\ Idle.name = Null /\ Idle.tags = {} /\ Idle.images = {}
    /\ Idle.principal = Null /\ Idle.drop = {} /\ Idle.left = <<>>
BY DEF Idle

LEMMA DeskInvImplies == ASSUME DeskInv PROVE CatalogueIsSound
<1>1. ASSUME NEW n PROVE Touched(n) => n = job.name BY DEF Touched
<1>2. ASSUME NEW i \in DOMAIN rows
      PROVE  /\ rows[i].of \in DOMAIN shop
             /\ i \notin files => i \in told.dropped /\ (rows[i].of \in told.halted \/ rows[i].of = job.name)
  BY <1>1 DEF DeskInv, Pictures
<1>3. ASSUME NEW n \in DOMAIN shop, n \notin told.halted, n # job.name, ImagesOf(n) # {}
      PROVE  Cardinality(Principals(n)) = 1
  <2>1. PICK i \in ImagesOf(n) : \A k \in ImagesOf(n) : rows[k].principal <=> k = i
    BY <1>1, <1>3 DEF DeskInv, OneEach
  <2>2. Principals(n) = {i} BY <2>1 DEF Principals
  <2> QED BY <2>2, FS_Singleton
<1>4. \A n \in DOMAIN shop : n \in details /\ (n \notin told.untagged => shop[n] # {})
  BY DEF DeskInv, Services
<1>5. \A n \in (told.seeded \intersect DOMAIN shop) \ told.untagged : shop[n] \intersect Genders # {}
  BY DEF DeskInv, HasGender
<1>6. \A i \in DOMAIN rows :
         /\ rows[i].of \in DOMAIN shop
         /\ i \notin files => i \in told.dropped /\ (rows[i].of \in told.halted \/ rows[i].of = job.name)
  BY <1>2
<1>7. \A n \in DOMAIN shop :
         /\ n \in details
         /\ (n \notin told.halted /\ n # job.name /\ ImagesOf(n) # {}) =>
               Cardinality(Principals(n)) = 1
         /\ n \notin told.untagged => shop[n] # {}
  BY <1>3, <1>4
<1> QED BY <1>5, <1>6, <1>7 DEF CatalogueIsSound

LEMMA DeskInitInv == ASSUME DeskInit PROVE DeskInv
<1>1. /\ shop = <<>> /\ rows = <<>> /\ files = {} /\ job = Idle
      /\ told = [dropped |-> {}, halted |-> {}, untagged |-> {}, seeded |-> {}, jobs |-> 0]
  BY DEF DeskInit
<1>2. job.at = "idle" /\ job.kind = "none"
      /\ DOMAIN job = {"kind", "at", "name", "tags", "images", "principal", "drop", "left"}
  BY <1>1, IdleIs
<1>3. DOMAIN shop = {} /\ DOMAIN rows = {} /\ told.seeded = {} BY <1>1
<1>4. DOMAIN told = {"dropped", "halted", "untagged", "seeded", "jobs"} BY <1>1
<1>5. Shapes BY <1>1, <1>2, <1>4 DEF Shapes
<1>6. Jobs BY <1>1, <1>2 DEF Jobs
<1>7. Pictures /\ OneEach /\ Services /\ HasGender(Genders)
  BY <1>3 DEF Pictures, OneEach, Services, HasGender
<1> QED BY <1>5, <1>6, <1>7 DEF DeskInv

\* A job begins: it may have uploaded images and, if it is about tags, written some.
LEMMA Starts ==
    ASSUME DeskInv, NEW new, job = Idle, job' = new, told' = [told EXCEPT !.jobs = @ + 1],
           DOMAIN new = DOMAIN Idle,
           new.at \notin {"rows", "service"}, new.at = "save" => new.drop = {},
           files \subseteq files', Null \notin files', UNCHANGED <<shop, rows, details>>,
           Jobs', HasGender(Genders)'
    PROVE  DeskInv'
<1>1. job = Idle /\ job' = new /\ told' = [told EXCEPT !.jobs = @ + 1] OBVIOUS
<1>2. DOMAIN told = {"dropped", "halted", "untagged", "seeded", "jobs"} BY DEF DeskInv, Shapes
<1>4. /\ told'.dropped = told.dropped /\ told'.halted = told.halted
      /\ told'.untagged = told.untagged /\ told'.seeded = told.seeded
  BY <1>1, <1>2
<1>5. Shapes' BY <1>1, <1>2, IdleIs DEF Shapes
<1>6. job.at = "idle" BY <1>1 DEF Idle
<1>7. \A n : ~Touched(n) /\ ~Touched(n)' BY <1>1, <1>6 DEF Touched
<1>8. Pictures' BY <1>4, <1>7 DEF DeskInv, Pictures
<1>9. OneEach' BY <1>4, <1>7 DEF DeskInv, OneEach, ImagesOf
<1>10. Services' BY <1>4 DEF DeskInv, Services
<1> QED BY <1>5, <1>8, <1>9, <1>10 DEF DeskInv

\* A job that ends, and one that goes on.
LEMMA Ends ==
    ASSUME Done
    PROVE  /\ DOMAIN job' = {"kind", "at", "name", "tags", "images", "principal", "drop", "left"}
           /\ Jobs' /\ \A n : ~Touched(n)'
<1>1. job' = Idle BY DEF Done
<1>2. job'.at = "idle" /\ job'.kind = "none" BY <1>1, IdleIs
<1>3. Jobs' BY <1>1, <1>2 DEF Jobs
<1>4. \A n : ~Touched(n)' BY <1>2 DEF Touched
<1> QED BY <1>1, <1>3, <1>4, IdleIs

LEMMA Goes ==
    ASSUME Shapes, NEW at, Goto(at)
    PROVE  /\ job'.at = at
           /\ job'.kind = job.kind /\ job'.name = job.name /\ job'.tags = job.tags /\ job'.images = job.images
           /\ job'.principal = job.principal /\ job'.drop = job.drop /\ job'.left = job.left
           /\ DOMAIN job' = DOMAIN job
BY DEF Shapes, Goto

\* What WriteImages makes of the rows, if it takes no other service's image.
LEMMA Written ==
    ASSUME NEW name, NEW images, NEW principal, rows' = WriteImages(name, images, principal),
           \A i \in images : i \in DOMAIN rows => rows[i].of = name
    PROVE  /\ \A i \in DOMAIN rows' :
                 \/ i \in images /\ rows'[i].of = name /\ (rows'[i].principal <=> i = principal)
                 \/ i \notin images /\ i \in DOMAIN rows /\ rows[i].of # name /\ rows'[i] = rows[i]
           /\ ImagesOf(name)' = images
           /\ \A n : n # name => /\ ImagesOf(n)' = ImagesOf(n)
                               /\ \A i \in ImagesOf(n) : rows'[i] = rows[i]
<1>1. /\ DOMAIN rows' = {k \in DOMAIN rows : rows[k].of # name} \union images
      /\ \A i \in DOMAIN rows' : rows'[i] = IF i \in images THEN [of |-> name, principal |-> i = principal]
                                             ELSE rows[i]
  BY DEF WriteImages
<1>2. \A i \in images : rows'[i].of = name /\ (rows'[i].principal <=> i = principal)
  <2> SUFFICES ASSUME NEW i \in images
               PROVE  rows'[i].of = name /\ (rows'[i].principal <=> i = principal)
    OBVIOUS
  <2>1. rows'[i] = [of |-> name, principal |-> i = principal] BY <1>1
  <2>2. rows'[i].of = name /\ rows'[i].principal = (i = principal) BY ONLY <2>1
  <2> QED BY <2>2
<1>3. \A i \in DOMAIN rows' \ images : i \in DOMAIN rows /\ rows[i].of # name /\ rows'[i] = rows[i] BY <1>1
<1>4. images \subseteq DOMAIN rows' /\ \A i \in DOMAIN rows : rows[i].of # name => i \in DOMAIN rows'
  BY <1>1
<1>5. ImagesOf(name)' = images BY <1>2, <1>3, <1>4 DEF ImagesOf
<1>6. ASSUME NEW n, n # name
      PROVE  ImagesOf(n)' = ImagesOf(n) /\ \A i \in ImagesOf(n) : rows'[i] = rows[i]
  <2>1. ASSUME NEW i PROVE i \in ImagesOf(n) => i \in ImagesOf(n)' /\ rows'[i] = rows[i]
    BY <1>3, <1>4, <1>6 DEF ImagesOf
  <2>2. ASSUME NEW i PROVE i \in ImagesOf(n)' => i \in ImagesOf(n)
    BY <1>2, <1>3, <1>4, <1>6 DEF ImagesOf
  <2> QED BY <2>1, <2>2
<1> QED BY <1>2, <1>3, <1>5, <1>6

LEMMA ListedAreImages == ASSUME DeskAssumption, NEW images \in Listings PROVE Null \notin Listed(images)
<1> DEFINE Pics == [image : Images, principal : BOOLEAN]
<1>1. images \in Seq(Pics) /\ Null \notin Images BY DEF DeskAssumption
<1>2. \A k \in DOMAIN images : images[k] \in Pics
  <2> HIDE DEF Pics
  <2> QED BY <1>1
<1>3. \A k \in DOMAIN images : images[k].image \in Images BY <1>2
<1> QED BY <1>1, <1>3 DEF Listed

LEMMA Chosen ==
    ASSUME NEW kept, NEW images, NEW principal \in selectPrincipalImage(kept, images)
    PROVE  kept \union Listed(images) = {} \/ principal \in kept \union Listed(images)
BY DEF selectPrincipalImage

LEMMA CreateStarts == ASSUME DeskAssumption, DeskInv, BeginCreate PROVE DeskInv'
<1>0. PICK name \in Names, ids \in SUBSET Tags \ {{}}, images \in Listings :
        /\ Listed(images) \intersect DOMAIN rows = {} /\ findByIds(ids) # {}
        /\ \E principal \in selectPrincipalImage({}, images) :
              Begin([Idle EXCEPT !.kind = "create", !.at = "insert", !.name = name, !.tags = findByIds(ids),
                                 !.images = Listed(images), !.principal = principal])
        /\ files' = files \union Listed(images)
        /\ UNCHANGED <<tags, shop, rows, details>>
  BY DEF BeginCreate
<1>1. PICK principal \in selectPrincipalImage({}, images) :
         Begin([Idle EXCEPT !.kind = "create", !.at = "insert", !.name = name, !.tags = findByIds(ids),
                            !.images = Listed(images), !.principal = principal])
  BY <1>0
<1> DEFINE new == [Idle EXCEPT !.kind = "create", !.at = "insert", !.name = name, !.tags = findByIds(ids),
                               !.images = Listed(images), !.principal = principal]
<1>3. /\ new.kind = "create" /\ new.at = "insert" /\ new.tags = findByIds(ids) /\ new.images = Listed(images)
      /\ new.principal = principal /\ DOMAIN new = DOMAIN Idle
  BY IdleIs
<1>2. Begin(new) BY <1>1
<1> HIDE DEF new
<1>4. job = Idle /\ job' = new /\ told' = [told EXCEPT !.jobs = @ + 1] BY <1>2 DEF Begin
<1>5. Null \notin files'
  BY <1>0, ListedAreImages DEF DeskInv, Shapes
<1>6. Listed(images) = {} \/ principal \in Listed(images) BY Chosen
<1>7. Jobs' BY <1>0, <1>3, <1>4, <1>6 DEF Jobs
<1>8. HasGender(Genders)'
  <2>1. told'.untagged = told.untagged /\ told'.seeded = told.seeded BY <1>4 DEF DeskInv, Shapes
  <2> QED BY <1>0, <2>1 DEF DeskInv, HasGender, Genders
<1> QED BY <1>0, <1>3, <1>4, <1>5, <1>7, <1>8, Starts

LEMMA UpdateStarts == ASSUME DeskAssumption, DeskInv, BeginUpdate PROVE DeskInv'
<1>1. PICK name \in DOMAIN shop, ids \in SUBSET Tags \union {NotSent} :
        LET new == [Idle EXCEPT !.kind = "update", !.name = name,
                                !.tags = IF ids = NotSent THEN NotSent ELSE findByIds(ids)]
        IN  /\ ids # NotSent => findByIds(ids) # {}
            /\ \/ Begin([new EXCEPT !.at = "save", !.images = NotSent]) /\ UNCHANGED files
               \/ \E images \in Listings :
                     LET listed == Listed(images)
                         drop == ImagesOf(name) \ listed
                         uploaded == listed \ ImagesOf(name)
                     IN  /\ uploaded \intersect DOMAIN rows = {}
                         /\ \E principal \in selectPrincipalImage(ImagesOf(name) \intersect listed, images) :
                               Begin([new EXCEPT !.at = IF drop # {} THEN "files" ELSE "save", !.images = listed,
                                                 !.principal = principal, !.drop = drop])
                         /\ files' = files \union uploaded
            /\ UNCHANGED <<tags, shop, rows, details>>
  BY DEF BeginUpdate
<1> DEFINE sent == IF ids = NotSent THEN NotSent ELSE findByIds(ids)
           begun == [Idle EXCEPT !.kind = "update", !.name = name, !.tags = sent]
<1>2. sent # {} /\ UNCHANGED <<tags, shop, rows, details>> BY <1>1 DEF NotSent
<1>3. DOMAIN begun = DOMAIN Idle /\ begun.kind = "update" /\ begun.name = name /\ begun.tags = sent
      /\ begun.drop = {}
  BY IdleIs
<1>4. \/ Begin([begun EXCEPT !.at = "save", !.images = NotSent]) /\ UNCHANGED files
      \/ \E images \in Listings :
            /\ (Listed(images) \ ImagesOf(name)) \intersect DOMAIN rows = {}
            /\ \E principal \in selectPrincipalImage(ImagesOf(name) \intersect Listed(images), images) :
                  Begin([begun EXCEPT !.at = IF ImagesOf(name) \ Listed(images) # {} THEN "files" ELSE "save",
                                      !.images = Listed(images), !.principal = principal,
                                      !.drop = ImagesOf(name) \ Listed(images)])
            /\ files' = files \union (Listed(images) \ ImagesOf(name))
  BY <1>1
<1> HIDE DEF sent, begun
<1>5. ASSUME NEW new, Begin(new), DOMAIN new = DOMAIN Idle,
             new.kind = "update", new.name = name, new.tags = sent,
             new.at \in {"files", "save"}, new.at = "files" <=> new.drop # {}, new.drop \subseteq ImagesOf(name),
             files \subseteq files', Null \notin files',
             \/ new.images = {Null} /\ new.drop = {}
             \/ /\ new.images # {Null} /\ (new.images = {} \/ new.principal \in new.images)
                /\ \A i \in new.images : i \in DOMAIN rows => rows[i].of = name
                /\ \A i \in new.images : i \notin files' => i \in told.dropped /\ name \in told.halted
                /\ new.images \intersect new.drop = {}
      PROVE  DeskInv'
  <2>1. job = Idle /\ job' = new /\ told' = [told EXCEPT !.jobs = @ + 1] BY <1>5 DEF Begin
  <2>2. told'.dropped = told.dropped /\ told'.halted = told.halted /\ told'.untagged = told.untagged
        /\ told'.seeded = told.seeded
    BY <2>1 DEF DeskInv, Shapes
  <2>3. Updating' BY <1>2, <1>5, <2>1, <2>2 DEF Updating
  <2>4. ImagesOf(name)' = ImagesOf(name) BY <1>2 DEF ImagesOf
  <2>5. Jobs' BY <1>2, <1>5, <2>1, <2>3, <2>4 DEF Jobs
  <2>6. HasGender(Genders)' BY <1>2, <2>2 DEF DeskInv, HasGender, Genders
  <2> QED BY <1>2, <1>5, <2>1, <2>5, <2>6, Starts
<1>6. CASE Begin([begun EXCEPT !.at = "save", !.images = NotSent]) /\ UNCHANGED files
  <2> DEFINE new == [begun EXCEPT !.at = "save", !.images = NotSent]
  <2>1. DOMAIN new = DOMAIN Idle /\ new.kind = "update" /\ new.name = name /\ new.tags = sent
        /\ new.at = "save" /\ new.images = {Null} /\ new.drop = {}
    BY <1>3, IdleIs DEF NotSent
  <2>2. Begin(new) BY <1>6
  <2>3. files \subseteq files' /\ Null \notin files' BY <1>6 DEF DeskInv, Shapes
  <2> HIDE DEF new
  <2> QED BY <1>5, <2>1, <2>2, <2>3
<1>7. ASSUME NEW images \in Listings, (Listed(images) \ ImagesOf(name)) \intersect DOMAIN rows = {},
             NEW principal \in selectPrincipalImage(ImagesOf(name) \intersect Listed(images), images),
             Begin([begun EXCEPT !.at = IF ImagesOf(name) \ Listed(images) # {} THEN "files" ELSE "save",
                                 !.images = Listed(images), !.principal = principal,
                                 !.drop = ImagesOf(name) \ Listed(images)]),
             files' = files \union (Listed(images) \ ImagesOf(name))
      PROVE  DeskInv'
  <2> DEFINE listed == Listed(images)
             drop == ImagesOf(name) \ listed
             new == [begun EXCEPT !.at = IF drop # {} THEN "files" ELSE "save",
                                  !.images = listed, !.principal = principal, !.drop = drop]
  <2>1. listed = {} \/ principal \in listed BY Chosen
  <2>2. Null \notin listed BY ListedAreImages
  <2>3. (listed \ ImagesOf(name)) \intersect DOMAIN rows = {} /\ files' = files \union (listed \ ImagesOf(name))
    BY <1>7
  <2>4. drop \subseteq ImagesOf(name) /\ listed \intersect drop = {} OBVIOUS
  <2>5. Begin(new) BY <1>7
  <2> HIDE DEF listed, drop
  <2>6. /\ DOMAIN new = DOMAIN Idle /\ new.kind = "update" /\ new.name = name /\ new.tags = sent
        /\ new.at = (IF drop # {} THEN "files" ELSE "save")
        /\ new.images = listed /\ new.principal = principal /\ new.drop = drop
    BY <1>3, IdleIs
  <2> HIDE DEF new
  <2>7. job.at = "idle" BY <2>5, IdleIs DEF Begin
  <2>8. \A i \in DOMAIN rows : i \notin files => i \in told.dropped /\ rows[i].of \in told.halted
    BY <2>7 DEF DeskInv, Pictures, Touched
  <2>9. \A i \in listed : i \in DOMAIN rows => rows[i].of = name BY <2>3 DEF ImagesOf
  <2>10. \A i \in listed : i \notin files' => i \in told.dropped /\ name \in told.halted
    BY <2>3, <2>8 DEF ImagesOf
  <2>11. files \subseteq files' /\ Null \notin files' /\ listed # {Null}
    BY <2>2, <2>3 DEF DeskInv, Shapes
  <2> QED BY <1>5, <2>1, <2>4, <2>5, <2>6, <2>9, <2>10, <2>11
<1> QED BY <1>4, <1>6, <1>7

LEMMA RemoveStarts == ASSUME DeskInv, BeginRemove PROVE DeskInv'
<1>1. PICK name \in DOMAIN shop :
        /\ Begin([Idle EXCEPT !.kind = "remove", !.at = "files", !.name = name, !.drop = ImagesOf(name)])
        /\ UNCHANGED <<tags, shop, rows, files, details>>
  BY DEF BeginRemove
<1> DEFINE new == [Idle EXCEPT !.kind = "remove", !.at = "files", !.name = name, !.drop = ImagesOf(name)]
<1>2. /\ new.kind = "remove" /\ new.at = "files" /\ new.name = name /\ new.drop = ImagesOf(name)
      /\ DOMAIN new = DOMAIN Idle
  BY IdleIs
<1>3. Begin(new) BY <1>1
<1> HIDE DEF new
<1>4. job = Idle /\ job' = new /\ told' = [told EXCEPT !.jobs = @ + 1] BY <1>3 DEF Begin
<1>5. ImagesOf(name)' = ImagesOf(name) BY <1>1 DEF ImagesOf
<1>6. Jobs' BY <1>1, <1>2, <1>4, <1>5 DEF Jobs
<1>7. HasGender(Genders)'
  <2>1. told'.untagged = told.untagged /\ told'.seeded = told.seeded BY <1>4 DEF DeskInv, Shapes
  <2> QED BY <1>1, <2>1 DEF DeskInv, HasGender, Genders
<1>8. Null \notin files' /\ files \subseteq files' BY <1>1 DEF DeskInv, Shapes
<1> QED BY <1>1, <1>2, <1>4, <1>6, <1>7, <1>8, Starts

\* A job about tags, or the script's: what it has in hand, and the genders there are now.
LEMMA OtherStarts ==
    ASSUME DeskInv, NEW new, Begin(new), DOMAIN new = DOMAIN Idle, new.kind # "update",
           new.at \in {"idle", "tag", "tree", "next"}, new.at = "idle" => new = Idle,
           UNCHANGED <<shop, rows, files, details>>,
           HasGender(Genders) => HasGender(Genders)',
           new.at = "tag" => HasGender(SavedGenders)',
           new.at = "next" =>
               /\ new.left # <<>> /\ \E S : new.left \in Seq(S)
               /\ \A k \in DOMAIN new.left :
                     new.left[k].tags \intersect Genders' # {} /\ new.left[k].tags \subseteq DOMAIN tags'
    PROVE  DeskInv'
<1>1. job = Idle /\ job' = new /\ told' = [told EXCEPT !.jobs = @ + 1] BY DEF Begin
<1>2. Jobs' BY <1>1 DEF Jobs
<1>3. Null \notin files' /\ files \subseteq files' /\ HasGender(Genders)' BY DEF DeskInv, Shapes
<1> QED BY <1>1, <1>2, <1>3, Starts

LEMMA SameTold ==
    ASSUME DeskInv, NEW new, Begin(new)
    PROVE  told'.untagged = told.untagged /\ told'.seeded = told.seeded /\ job' = new
BY DEF DeskInv, Shapes, Begin

LEMMA TagCreated == ASSUME DeskAssumption, DeskInv, CreateTag PROVE DeskInv'
<1>1. PICK tag \in Tags \ DOMAIN tags, children \in SUBSET DOMAIN tags :
        /\ Begin(Idle)
        /\ tags' = Put(IF \A t \in children : tags[t] = Null THEN Adopted(tag, children) ELSE tags, tag, Null)
        /\ UNCHANGED <<shop, rows, files, details>>
  BY DEF CreateTag
<1>2. Null # Gender BY DEF DeskAssumption
<1>3. ASSUME NEW t \in Genders PROVE t \in Genders'
  <2>1. t \in DOMAIN tags /\ tags[t] = Gender /\ t # tag BY DEF Genders
  <2>2. CASE \A c \in children : tags[c] = Null
    <3>1. t \notin children BY <1>2, <2>1, <2>2
    <3>2. DOMAIN Adopted(tag, children) = DOMAIN tags /\ Adopted(tag, children)[t] = Gender
      BY <2>1, <3>1 DEF Adopted
    <3>3. tags' = Put(Adopted(tag, children), tag, Null) BY <1>1, <2>2
    <3>4. t \in DOMAIN tags' /\ tags'[t] = Gender BY <2>1, <3>2, <3>3 DEF Put
    <3> QED BY <3>4 DEF Genders
  <2>3. CASE ~\A c \in children : tags[c] = Null
    <3>1. tags' = Put(tags, tag, Null) BY <1>1, <2>3
    <3>2. t \in DOMAIN tags' /\ tags'[t] = Gender BY <2>1, <3>1 DEF Put
    <3> QED BY <3>2 DEF Genders
  <2> QED BY <2>2, <2>3
<1>4. HasGender(Genders) => HasGender(Genders)' BY <1>1, <1>3, SameTold DEF HasGender
<1> QED BY <1>1, <1>4, IdleIs, OtherStarts

\* Reparenting hangs no gender from another tag, and what is written back is what it was.
LEMMA TagReparented == ASSUME DeskAssumption, DeskInv, BeginUpdateTag PROVE DeskInv'
<1>1. PICK tag \in DOMAIN tags, ids \in SUBSET DOMAIN tags :
        LET children == IF ids = {} THEN DOMAIN tags ELSE ids
        IN  /\ \A t \in children : tags[t] \in {Null, tag}
            /\ Begin([Idle EXCEPT !.kind = "tag", !.at = "tag", !.name = tag, !.left = <<tags[tag]>>,
                                  !.tags = {t \in DOMAIN tags : tags[t] = tag}])
            /\ tags' = Adopted(tag, children)
            /\ UNCHANGED <<shop, rows, files, details>>
  BY DEF BeginUpdateTag
<1> DEFINE children == IF ids = {} THEN DOMAIN tags ELSE ids
           new == [Idle EXCEPT !.kind = "tag", !.at = "tag", !.name = tag, !.left = <<tags[tag]>>,
                               !.tags = {t \in DOMAIN tags : tags[t] = tag}]
<1>2. /\ DOMAIN new = DOMAIN Idle /\ new.kind = "tag" /\ new.at = "tag" /\ new.name = tag
      /\ new.left = <<tags[tag]>> /\ new.tags = {t \in DOMAIN tags : tags[t] = tag}
  BY IdleIs
<1>3. Begin(new) /\ tags' = Adopted(tag, children) /\ UNCHANGED <<shop, rows, files, details>>
      /\ \A t \in children : tags[t] \in {Null, tag}
  BY <1>1
<1> HIDE DEF new, children
<1>4. Null # Gender BY DEF DeskAssumption
<1>5. DOMAIN tags' = DOMAIN tags
      /\ \A t \in DOMAIN tags : tags'[t] = IF t \in children THEN tag ELSE tags[t]
  BY <1>3 DEF Adopted
<1>6. \A t \in Genders : t \in DOMAIN tags /\ tags[t] = Gender /\ tags'[t] = Gender
  BY <1>3, <1>4, <1>5 DEF Genders
<1>7. HasGender(Genders) => HasGender(Genders)'
  <2>1. Genders \subseteq Genders' BY <1>5, <1>6 DEF Genders
  <2> QED BY <1>3, <2>1, SameTold DEF HasGender
<1>8. HasGender(SavedGenders)'
  <2>1. job' = new /\ told'.untagged = told.untagged /\ told'.seeded = told.seeded BY <1>3, SameTold
  <2>2. \A t \in Genders : IF t = job'.name THEN Head(job'.left) = Gender
                           ELSE tags'[t] = Gender /\ (job'.name = Gender => t \in job'.tags)
    BY <1>2, <1>6, <2>1
  <2>3. Genders \subseteq SavedGenders' BY <1>5, <1>6, <2>2 DEF SavedGenders
  <2> QED BY <1>3, <2>1, <2>3 DEF DeskInv, HasGender
<1> QED BY <1>2, <1>3, <1>7, <1>8, OtherStarts

LEMMA SeedStarts == ASSUME DeskInv, BeginSeedTags PROVE DeskInv'
<1> DEFINE new == [Idle EXCEPT !.kind = "tree", !.at = "tree", !.left = Tree]
<1>1. DOMAIN new = DOMAIN Idle /\ new.kind = "tree" /\ new.at = "tree" BY IdleIs
<1>2. Begin(new) /\ UNCHANGED <<tags, shop, rows, files, details>> BY DEF BeginSeedTags
<1> HIDE DEF new
<1>3. HasGender(Genders) => HasGender(Genders)' BY <1>2, SameTold DEF HasGender, Genders
<1> QED BY <1>1, <1>2, <1>3, OtherStarts

LEMMA ScriptStarts == ASSUME DeskAssumption, DeskInv, BeginRunInsert PROVE DeskInv'
<1> DEFINE new == [Idle EXCEPT !.kind = "insert", !.at = "next", !.left = Resolved]
<1>1. DOMAIN new = DOMAIN Idle /\ new.kind = "insert" /\ new.at = "next" /\ new.left = Resolved BY IdleIs
<1>2. Begin(new) /\ UNCHANGED <<tags, shop, rows, files, details>> /\ Insertable(Resolved) /\ Resolved # <<>>
  BY DEF BeginRunInsert
<1> HIDE DEF new
<1>3. HasGender(Genders) => HasGender(Genders)' BY <1>2, SameTold DEF HasGender, Genders
<1>4. \E S : new.left \in Seq(S) BY <1>1 DEF DeskAssumption
<1>5. Genders' = Genders /\ DOMAIN tags' = DOMAIN tags BY <1>2 DEF Genders
<1>6. \A k \in DOMAIN new.left :
        new.left[k].tags \intersect Genders' # {} /\ new.left[k].tags \subseteq DOMAIN tags'
  BY <1>1, <1>2, <1>5 DEF Insertable
<1> QED BY <1>1, <1>2, <1>3, <1>4, <1>6, OtherStarts

-----------------------------------------------------------------------------
\* What a job does of a service.
LEMMA InsertKeeps == ASSUME DeskInv, Insert PROVE DeskInv'
<1>0. PICK name : name = job.name OBVIOUS
<1>1. /\ job.at = "insert" /\ name \notin DOMAIN shop /\ shop' = Put(shop, name, job.tags)
      /\ rows' = WriteImages(name, job.images, job.principal) /\ details' = details \union {name}
      /\ Done /\ UNCHANGED <<tags, files, told>>
  BY <1>0 DEF Insert
<1>2. /\ job.tags # {} /\ job.images \subseteq files /\ job.images \intersect DOMAIN rows = {}
      /\ job.images = {} \/ job.principal \in job.images
  BY <1>0, <1>1 DEF DeskInv, Jobs
<1>3. \A n : ~Touched(n) /\ ~Touched(n)' BY <1>1, Ends DEF Touched
<1>4. DOMAIN shop' = DOMAIN shop \union {name} /\ shop'[name] = job.tags
      /\ \A n \in DOMAIN shop : shop'[n] = shop[n]
  BY <1>1 DEF Put
<1>5. /\ \A i \in DOMAIN rows' :
            \/ i \in job.images /\ rows'[i].of = name /\ (rows'[i].principal <=> i = job.principal)
            \/ i \notin job.images /\ i \in DOMAIN rows /\ rows[i].of # name /\ rows'[i] = rows[i]
      /\ ImagesOf(name)' = job.images
      /\ \A n : n # name => ImagesOf(n)' = ImagesOf(n) /\ \A i \in ImagesOf(n) : rows'[i] = rows[i]
  BY <1>1, <1>2, Written
<1>6. Shapes' BY <1>1, Ends DEF DeskInv, Shapes
<1>7. Pictures' BY <1>1, <1>2, <1>3, <1>4, <1>5 DEF DeskInv, Pictures
<1>8. OneEach'
  <2> SUFFICES ASSUME NEW n \in DOMAIN shop', ImagesOf(n)' # {}
               PROVE  n \in told'.halted \/ \E i \in ImagesOf(n)' : \A k \in ImagesOf(n)' : rows'[k].principal <=> k = i
    BY <1>3 DEF OneEach
  <2>1. CASE n = name
    <3>1. ImagesOf(n)' = job.images /\ \A k \in job.images : rows'[k].principal <=> k = job.principal
      BY <1>5, <2>1 DEF ImagesOf
    <3> QED BY <1>2, <3>1
  <2>2. CASE n # name BY <1>1, <1>3, <1>4, <1>5, <2>2 DEF DeskInv, OneEach
  <2> QED BY <2>1, <2>2
<1>9. Services' BY <1>1, <1>2, <1>4 DEF DeskInv, Services
<1>10. HasGender(Genders)' BY <1>1, <1>4 DEF DeskInv, HasGender, Genders
<1> QED BY <1>1, <1>6, <1>7, <1>8, <1>9, <1>10, Ends DEF DeskInv

LEMMA AssetsKeep == ASSUME DeskInv, DeleteAssets PROVE DeskInv'
<1>1. /\ job.at = "files" /\ files' = files \ job.drop
      /\ Goto(IF job.kind = "remove" THEN "service" ELSE "rows")
      /\ told' = [told EXCEPT !.dropped = @ \union job.drop]
      /\ UNCHANGED <<tags, shop, rows, details>>
  BY DEF DeleteAssets
<1>2. /\ job'.at = (IF job.kind = "remove" THEN "service" ELSE "rows")
      /\ job'.kind = job.kind /\ job'.name = job.name /\ job'.tags = job.tags /\ job'.images = job.images
      /\ job'.principal = job.principal /\ job'.drop = job.drop /\ DOMAIN job' = DOMAIN job
  BY <1>1, Goes DEF DeskInv
<1>3. /\ told'.dropped = told.dropped \union job.drop /\ told'.halted = told.halted
      /\ told'.untagged = told.untagged /\ told'.seeded = told.seeded /\ DOMAIN told' = DOMAIN told
  BY <1>1 DEF DeskInv, Shapes
<1>4. \A n : ~Touched(n) /\ (Touched(n)' <=> n = job.name)
  <2>1. job'.at \in {"service", "rows"} BY <1>2
  <2> QED BY <1>1, <1>2, <2>1 DEF Touched
<1>5. /\ job.kind \in {"update", "remove"} /\ job.name \in DOMAIN shop /\ job.drop \subseteq ImagesOf(job.name)
      /\ job.kind = "update" => job.drop # {} /\ Updating
  BY <1>1 DEF DeskInv, Jobs
<1>6. \A n : ImagesOf(n)' = ImagesOf(n) BY <1>1 DEF ImagesOf
<1>7. Shapes' BY <1>1, <1>2, <1>3 DEF DeskInv, Shapes
<1>8. Pictures' BY <1>1, <1>3, <1>4, <1>5 DEF DeskInv, Pictures, ImagesOf
<1>9. OneEach' BY <1>1, <1>3, <1>4, <1>6 DEF DeskInv, OneEach
<1>10. Services' /\ HasGender(Genders)' BY <1>1, <1>3 DEF DeskInv, Services, HasGender, Genders
<1>11. job.kind = "update" => Updating' BY <1>1, <1>2, <1>3, <1>5 DEF Updating
<1>12. Jobs' BY <1>1, <1>2, <1>5, <1>6, <1>11 DEF Jobs
<1> QED BY <1>7, <1>8, <1>9, <1>10, <1>12 DEF DeskInv

LEMMA RowsKeep == ASSUME DeskInv, DeleteRows PROVE DeskInv'
<1>1. /\ job.at = "rows" /\ rows' = Drop(rows, job.drop) /\ Goto("save")
      /\ UNCHANGED <<tags, shop, files, details, told>>
  BY DEF DeleteRows
<1>2. /\ job'.at = "save" /\ job'.kind = job.kind /\ job'.name = job.name /\ job'.tags = job.tags
      /\ job'.images = job.images /\ job'.principal = job.principal /\ job'.drop = job.drop
      /\ DOMAIN job' = DOMAIN job
  BY <1>1, Goes DEF DeskInv
<1>3. /\ job.kind = "update" /\ job.name \in DOMAIN shop /\ job.drop \subseteq ImagesOf(job.name)
      /\ job.drop # {} /\ Updating
  BY <1>1 DEF DeskInv, Jobs
<1>4. \A n : (Touched(n) <=> n = job.name) /\ (Touched(n)' <=> n = job.name)
  BY <1>1, <1>2, <1>3 DEF Touched
<1>5. DOMAIN rows' = DOMAIN rows \ job.drop /\ \A i \in DOMAIN rows' : rows'[i] = rows[i]
  BY <1>1 DEF Drop
<1>6. ASSUME NEW n, n # job.name PROVE ImagesOf(n)' = ImagesOf(n)
  <2>1. ASSUME NEW i PROVE i \in ImagesOf(n) <=> i \in ImagesOf(n)' BY <1>3, <1>5, <1>6 DEF ImagesOf
  <2> QED BY <2>1
<1>7. Shapes' BY <1>1, <1>2 DEF DeskInv, Shapes
<1>8. Pictures' BY <1>1, <1>4, <1>5 DEF DeskInv, Pictures
<1>9. OneEach'
  <2> SUFFICES ASSUME NEW n \in DOMAIN shop', n \notin told'.halted, ~Touched(n)', ImagesOf(n)' # {}
               PROVE  \E i \in ImagesOf(n)' : \A k \in ImagesOf(n)' : rows'[k].principal <=> k = i
    BY DEF OneEach
  <2>1. n # job.name /\ ~Touched(n) /\ ImagesOf(n)' = ImagesOf(n) BY <1>4, <1>6
  <2>2. PICK i \in ImagesOf(n) : \A k \in ImagesOf(n) : rows[k].principal <=> k = i
    BY <1>1, <2>1 DEF DeskInv, OneEach
  <2>3. \A k \in ImagesOf(n)' : rows'[k] = rows[k] BY <1>5 DEF ImagesOf
  <2> QED BY <2>1, <2>2, <2>3
<1>10. Services' /\ HasGender(Genders)' BY <1>1 DEF DeskInv, Services, HasGender, Genders
<1>11. Updating' BY <1>1, <1>2, <1>3, <1>5 DEF Updating
<1>12. Jobs' BY <1>1, <1>2, <1>3, <1>11 DEF Jobs
<1> QED BY <1>7, <1>8, <1>9, <1>10, <1>12 DEF DeskInv

LEMMA SaveKeeps == ASSUME DeskInv, Save PROVE DeskInv'
<1>0. PICK name : name = job.name OBVIOUS
<1>1. /\ job.at = "save"
      /\ shop' = IF job.tags = NotSent THEN shop ELSE Put(shop, name, job.tags)
      /\ rows' = IF job.images = NotSent THEN rows ELSE WriteImages(name, job.images, job.principal)
      /\ told' = [told EXCEPT !.halted = IF job.images \subseteq files THEN @ \ {name} ELSE @,
                              !.untagged = IF job.tags = NotSent THEN @ ELSE @ \ {name},
                              !.seeded = IF job.tags = NotSent THEN @ ELSE @ \ {name}]
      /\ Done /\ UNCHANGED <<tags, files, details>>
  BY <1>0 DEF Save
<1>2. job.kind = "update" /\ name \in DOMAIN shop /\ Updating BY <1>0, <1>1 DEF DeskInv, Jobs
<1>3. /\ told'.dropped = told.dropped
      /\ told'.halted = (IF job.images \subseteq files THEN told.halted \ {name} ELSE told.halted)
      /\ told'.untagged = (IF job.tags = NotSent THEN told.untagged ELSE told.untagged \ {name})
      /\ told'.seeded = (IF job.tags = NotSent THEN told.seeded ELSE told.seeded \ {name})
      /\ DOMAIN told' = DOMAIN told
  BY <1>1 DEF DeskInv, Shapes
<1>4. \A n : n # name => ~Touched(n) BY <1>0 DEF Touched
<1>5. \A n : ~Touched(n)' BY <1>1, Ends
<1>6. /\ DOMAIN shop' = DOMAIN shop /\ (job.tags = NotSent => shop' = shop)
      /\ \A n \in DOMAIN shop : n # name => shop'[n] = shop[n]
      /\ job.tags # NotSent => shop'[name] = job.tags
  BY <1>1, <1>2 DEF Put
<1>7. Shapes' BY <1>1, <1>3, Ends DEF DeskInv, Shapes
<1>8. Pictures' /\ OneEach'
  <2>1. CASE job.images = {Null}
    <3>1. rows' = rows /\ told'.halted = told.halted /\ ~Touched(name)
      BY <1>0, <1>1, <1>2, <1>3, <2>1 DEF NotSent, DeskInv, Shapes, Updating, Touched
    <3>2. \A n : ~Touched(n) /\ ImagesOf(n)' = ImagesOf(n) BY <1>4, <3>1 DEF ImagesOf
    <3> QED BY <1>1, <1>3, <1>5, <1>6, <3>1, <3>2 DEF DeskInv, Pictures, OneEach
  <2>2. CASE job.images # {Null}
    <3>1. /\ job.images = {} \/ job.principal \in job.images
          /\ \A i \in job.images : i \in DOMAIN rows => rows[i].of = name
          /\ \A i \in job.images : i \notin files => i \in told.dropped /\ name \in told.halted
      BY <1>0, <1>2, <2>2 DEF Updating
    <3>2. rows' = WriteImages(name, job.images, job.principal) BY <1>1, <2>2 DEF NotSent
    <3>3. /\ \A i \in DOMAIN rows' :
                \/ i \in job.images /\ rows'[i].of = name /\ (rows'[i].principal <=> i = job.principal)
                \/ i \notin job.images /\ i \in DOMAIN rows /\ rows[i].of # name /\ rows'[i] = rows[i]
          /\ ImagesOf(name)' = job.images
          /\ \A n : n # name => ImagesOf(n)' = ImagesOf(n) /\ \A i \in ImagesOf(n) : rows'[i] = rows[i]
      BY <3>1, <3>2, Written
    <3>4. Pictures'
      <4> SUFFICES ASSUME NEW i \in DOMAIN rows'
                   PROVE  rows'[i].of \in DOMAIN shop'
                          /\ (i \notin files' => i \in told'.dropped /\ rows'[i].of \in told'.halted)
        BY DEF Pictures
      <4>1. CASE i \in job.images
        <5>1. rows'[i].of = name /\ (i \notin files => ~(job.images \subseteq files)) BY <3>3, <4>1
        <5> QED BY <1>1, <1>2, <1>3, <1>6, <3>1, <4>1, <5>1
      <4>2. CASE i \notin job.images
        <5>1. i \in DOMAIN rows /\ rows[i].of # name /\ rows'[i] = rows[i] BY <3>3, <4>2
        <5> QED BY <1>1, <1>3, <1>4, <1>6, <5>1 DEF DeskInv, Pictures
      <4> QED BY <4>1, <4>2
    <3>5. OneEach'
      <4> SUFFICES ASSUME NEW n \in DOMAIN shop', n \notin told'.halted, ImagesOf(n)' # {}
                   PROVE  \E i \in ImagesOf(n)' : \A k \in ImagesOf(n)' : rows'[k].principal <=> k = i
        BY DEF OneEach
      <4>1. CASE n = name
        <5>1. ImagesOf(n)' = job.images /\ \A k \in job.images : rows'[k].principal <=> k = job.principal
          BY <3>3, <4>1 DEF ImagesOf
        <5> QED BY <3>1, <5>1
      <4>2. CASE n # name BY <1>3, <1>4, <1>6, <3>3, <4>2 DEF DeskInv, OneEach
      <4> QED BY <4>1, <4>2
    <3> QED BY <3>4, <3>5
  <2> QED BY <2>1, <2>2
<1>9. Services'
  <2>1. job.tags # {} BY <1>2 DEF Updating
  <2> SUFFICES ASSUME NEW n \in DOMAIN shop' PROVE n \in details' /\ (n \in told'.untagged \/ shop'[n] # {})
    BY DEF Services
  <2>2. n \in details /\ details' = details /\ (n \in told.untagged \/ shop[n] # {})
    BY <1>1, <1>6 DEF DeskInv, Services
  <2>3. CASE job.tags = NotSent BY <1>3, <1>6, <2>2, <2>3
  <2>4. CASE job.tags # NotSent
    <3>1. CASE n = name BY <1>6, <2>1, <2>2, <2>4, <3>1
    <3>2. CASE n # name BY <1>3, <1>6, <2>2, <2>4, <3>2
    <3> QED BY <3>1, <3>2
  <2> QED BY <2>3, <2>4
<1>10. HasGender(Genders)' BY <1>1, <1>3, <1>6 DEF DeskInv, HasGender, Genders
<1> QED BY <1>1, <1>7, <1>8, <1>9, <1>10, Ends DEF DeskInv

LEMMA ServiceGoes == ASSUME DeskInv, DeleteService PROVE DeskInv'
<1>0. PICK name : name = job.name OBVIOUS
<1>1. /\ job.at = "service" /\ shop' = Drop(shop, {name}) /\ rows' = Drop(rows, ImagesOf(name))
      /\ Goto("detail")
      /\ told' = [told EXCEPT !.halted = @ \ {name}, !.untagged = @ \ {name}, !.seeded = @ \ {name}]
      /\ UNCHANGED <<tags, files, details>>
  BY <1>0 DEF DeleteService
<1>2. job'.at = "detail" /\ job'.kind = "remove" /\ job'.name = name /\ DOMAIN job' = DOMAIN job
  BY <1>0, <1>1, Goes DEF DeskInv, Jobs
<1>3. \A n : ~Touched(n)' /\ (Touched(n) => n = name) BY <1>0, <1>2 DEF Touched
<1>4. /\ told'.dropped = told.dropped /\ told'.halted = told.halted \ {name}
      /\ told'.untagged = told.untagged \ {name} /\ told'.seeded = told.seeded \ {name}
      /\ DOMAIN told' = DOMAIN told
  BY <1>1 DEF DeskInv, Shapes
<1>5. DOMAIN shop' = DOMAIN shop \ {name} /\ \A n \in DOMAIN shop' : shop'[n] = shop[n] BY <1>1 DEF Drop
<1>6. DOMAIN rows' = {i \in DOMAIN rows : rows[i].of # name} /\ \A i \in DOMAIN rows' : rows'[i] = rows[i]
  BY <1>1 DEF Drop, ImagesOf
<1>7. Shapes' BY <1>1, <1>2, <1>4 DEF DeskInv, Shapes
<1>8. Pictures' BY <1>1, <1>3, <1>4, <1>5, <1>6 DEF DeskInv, Pictures
<1>9. OneEach'
  <2> SUFFICES ASSUME NEW n \in DOMAIN shop', n \notin told'.halted, ImagesOf(n)' # {}
               PROVE  \E i \in ImagesOf(n)' : \A k \in ImagesOf(n)' : rows'[k].principal <=> k = i
    BY DEF OneEach
  <2>1. n \in DOMAIN shop /\ n # name /\ n \notin told.halted /\ ~Touched(n) BY <1>3, <1>4, <1>5
  <2>2. ImagesOf(n)' = ImagesOf(n)
    <3>1. ASSUME NEW i PROVE i \in ImagesOf(n) <=> i \in ImagesOf(n)' BY <1>6, <2>1 DEF ImagesOf
    <3> QED BY <3>1
  <2>3. \A k \in ImagesOf(n)' : rows'[k] = rows[k] BY <1>6 DEF ImagesOf
  <2>4. PICK i \in ImagesOf(n) : \A k \in ImagesOf(n) : rows[k].principal <=> k = i
    BY <2>1, <2>2 DEF DeskInv, OneEach
  <2> QED BY <2>2, <2>3, <2>4
<1>10. Services' BY <1>1, <1>4, <1>5 DEF DeskInv, Services
<1>11. HasGender(Genders)' BY <1>1, <1>4, <1>5 DEF DeskInv, HasGender, Genders
<1>12. Jobs' BY <1>0, <1>2, <1>5 DEF Jobs
<1> QED BY <1>7, <1>8, <1>9, <1>10, <1>11, <1>12 DEF DeskInv

LEMMA DetailGoes == ASSUME DeskInv, DeleteDetail PROVE DeskInv'
<1>1. /\ job.at = "detail" /\ details' = details \ {job.name} /\ Done
      /\ UNCHANGED <<tags, shop, rows, files, told>>
  BY DEF DeleteDetail
<1>2. job.name \notin DOMAIN shop BY <1>1 DEF DeskInv, Jobs
<1>3. \A n : ~Touched(n) /\ ~Touched(n)' /\ ImagesOf(n)' = ImagesOf(n) BY <1>1, Ends DEF Touched, ImagesOf
<1>4. Shapes' BY <1>1, Ends DEF DeskInv, Shapes
<1>5. Pictures' /\ OneEach' BY <1>1, <1>3 DEF DeskInv, Pictures, OneEach
<1>6. Services' /\ HasGender(Genders)' BY <1>1, <1>2 DEF DeskInv, Services, HasGender, Genders
<1> QED BY <1>1, <1>4, <1>5, <1>6, Ends DEF DeskInv

-----------------------------------------------------------------------------
\* What is done to the tags, by the script, and by a job that stops.
LEMMA TagsOnly ==
    ASSUME DeskInv, DOMAIN job' = DOMAIN job, DOMAIN told' = DOMAIN told,
           told'.dropped = told.dropped, told'.halted = told.halted, UNCHANGED <<rows, files>>,
           \A n : ~Touched(n) /\ ~Touched(n)', Services', HasGender(Genders)', Jobs',
           DOMAIN shop \subseteq DOMAIN shop'
    PROVE  DeskInv'
<1>1. Shapes' BY DEF DeskInv, Shapes
<1>2. \A n : ImagesOf(n)' = ImagesOf(n) BY DEF ImagesOf
<1>3. Pictures' BY DEF DeskInv, Pictures
<1>4. OneEach'
  <2> SUFFICES ASSUME NEW n \in DOMAIN shop', n \notin told'.halted, ImagesOf(n)' # {}
               PROVE  \E i \in ImagesOf(n)' : \A k \in ImagesOf(n)' : rows'[k].principal <=> k = i
    BY DEF OneEach
  <2>1. n \in DOMAIN shop
    <3>1. PICK i \in ImagesOf(n) : TRUE BY <1>2
    <3> QED BY <3>1 DEF DeskInv, Pictures, ImagesOf
  <2> QED BY <1>2, <2>1 DEF DeskInv, OneEach
<1> QED BY <1>1, <1>3, <1>4 DEF DeskInv

LEMMA TagSaved == ASSUME DeskAssumption, DeskInv, SaveTag PROVE DeskInv'
<1>1. /\ job.at = "tag"
      /\ tags' = [t \in DOMAIN tags |->
                     IF t = job.name THEN Head(job.left)
                     ELSE IF tags[t] = job.name /\ t \notin job.tags THEN Null ELSE tags[t]]
      /\ Done /\ UNCHANGED <<shop, rows, files, details, told>>
  BY DEF SaveTag
<1>2. HasGender(SavedGenders) BY <1>1 DEF DeskInv, Jobs
<1>3. SavedGenders \subseteq Genders'
  <2> SUFFICES ASSUME NEW t \in SavedGenders PROVE t \in Genders' OBVIOUS
  <2>1. /\ t \in DOMAIN tags /\ (t = job.name => Head(job.left) = Gender)
        /\ t # job.name => tags[t] = Gender /\ (job.name = Gender => t \in job.tags)
    BY DEF SavedGenders
  <2>2. tags'[t] = Gender /\ t \in DOMAIN tags' BY <1>1, <2>1
  <2> QED BY <2>2 DEF Genders
<1>4. HasGender(Genders)' BY <1>1, <1>2, <1>3 DEF HasGender
<1>5. \A n : ~Touched(n) /\ ~Touched(n)' BY <1>1, Ends DEF Touched
<1>6. Services' BY <1>1 DEF DeskInv, Services
<1>7. DOMAIN job' = DOMAIN job BY <1>1, Ends DEF DeskInv, Shapes
<1> QED BY <1>1, <1>4, <1>5, <1>6, <1>7, Ends, TagsOnly

LEMMA TagRemoved == ASSUME DeskInv, RemoveTag PROVE DeskInv'
<1>1. PICK tag \in DOMAIN tags :
        /\ \A t \in DOMAIN tags \ {tag} : tags[t] # tag
        /\ job = Idle /\ tags' = Drop(tags, {tag})
        /\ shop' = [n \in DOMAIN shop |-> shop[n] \ {tag}]
        /\ told' = [told EXCEPT !.jobs = @ + 1, !.untagged = @ \union {n \in DOMAIN shop : tag \in shop[n]}]
        /\ UNCHANGED <<rows, files, details, job>>
  BY DEF RemoveTag
<1>2. /\ told'.dropped = told.dropped /\ told'.halted = told.halted /\ told'.seeded = told.seeded
      /\ told'.untagged = told.untagged \union {n \in DOMAIN shop : tag \in shop[n]} /\ DOMAIN told' = DOMAIN told
  BY <1>1 DEF DeskInv, Shapes
<1>3. DOMAIN shop' = DOMAIN shop
      /\ \A n \in DOMAIN shop : n \in told'.untagged \/ (n \notin told.untagged /\ shop'[n] = shop[n] /\ tag \notin shop[n])
  BY <1>1, <1>2
<1>4. \A n : ~Touched(n) /\ ~Touched(n)' BY <1>1, IdleIs DEF Touched
<1>5. Services' BY <1>1, <1>3 DEF DeskInv, Services
<1>6. Genders \ {tag} \subseteq Genders' BY <1>1 DEF Genders, Drop
<1>7. HasGender(Genders)'
  <2> SUFFICES ASSUME NEW n \in told'.seeded \ told'.untagged
               PROVE  n \in DOMAIN shop' /\ shop'[n] \intersect Genders' # {}
    BY DEF HasGender
  <2>1. n \in DOMAIN shop /\ shop[n] \intersect Genders # {} BY <1>2 DEF DeskInv, HasGender
  <2>2. shop'[n] = shop[n] /\ tag \notin shop[n] BY <1>3, <2>1
  <2> QED BY <1>3, <1>6, <2>1, <2>2
<1>8. Jobs' BY <1>1, IdleIs DEF Jobs
<1> QED BY <1>1, <1>2, <1>3, <1>4, <1>5, <1>7, <1>8, TagsOnly

LEMMA Continues ==
    ASSUME Shapes, NEW left, job' = IF Len(job.left) = 1 THEN Idle ELSE [job EXCEPT !.left = left]
    PROVE  /\ DOMAIN job' = DOMAIN job
           /\ job' = Idle \/ /\ Len(job.left) # 1 /\ job'.at = job.at /\ job'.kind = job.kind
                             /\ job'.name = job.name /\ job'.left = left
<1>1. CASE Len(job.left) = 1 BY <1>1, IdleIs DEF Shapes
<1>2. CASE Len(job.left) # 1 BY <1>2 DEF Shapes
<1> QED BY <1>1, <1>2

LEMMA TagSeeded == ASSUME DeskAssumption, DeskInv, SeedTag PROVE DeskInv'
<1> DEFINE node == Head(job.left)
<1>1. /\ job.at = "tree"
      /\ node.tag \in DOMAIN tags => (node.parent = Null \/ tags[node.tag] \in {Null, node.parent})
      /\ tags' = IF node.tag \in DOMAIN tags /\ node.parent = Null THEN tags ELSE Put(tags, node.tag, node.parent)
      /\ job' = IF Len(job.left) = 1 THEN Idle ELSE [job EXCEPT !.left = Tail(job.left)]
      /\ UNCHANGED <<shop, rows, files, details, told>>
  BY DEF SeedTag
<1>2. PICK tag, parent : tag = node.tag /\ parent = node.parent OBVIOUS
<1>3. /\ tag \in DOMAIN tags => (parent = Null \/ tags[tag] \in {Null, parent})
      /\ tags' = IF tag \in DOMAIN tags /\ parent = Null THEN tags ELSE Put(tags, tag, parent)
  BY <1>1, <1>2
<1> HIDE DEF node
<1>4. Null # Gender BY DEF DeskAssumption
<1>5. \A t \in Genders : t \in Genders' BY <1>3, <1>4 DEF Genders, Put
<1>6. HasGender(Genders)' BY <1>1, <1>5 DEF DeskInv, HasGender
<1>7. DOMAIN job' = DOMAIN job /\ (job' = Idle \/ (job'.at = "tree" /\ job'.kind = job.kind))
  BY <1>1, Continues DEF DeskInv
<1>8. job'.at \in {"idle", "tree"} /\ (job'.at = "idle" => job' = Idle) /\ (job' = Idle => job'.kind = "none")
  BY <1>7, IdleIs
<1>9. \A n : ~Touched(n) /\ ~Touched(n)' BY <1>1, <1>8 DEF Touched
<1>10. job'.kind # "update" BY <1>1, <1>7, <1>8 DEF DeskInv, Jobs
<1>11. Jobs' BY <1>8, <1>10 DEF Jobs
<1>12. Services' BY <1>1 DEF DeskInv, Services
<1> QED BY <1>1, <1>6, <1>7, <1>9, <1>11, <1>12, TagsOnly

LEMMA LeftOver ==
    ASSUME NEW S, NEW left \in Seq(S), left # <<>>, Len(left) # 1
    PROVE  /\ Tail(left) \in Seq(S) /\ Tail(left) # <<>>
           /\ \A k \in DOMAIN Tail(left) : k + 1 \in DOMAIN left /\ Tail(left)[k] = left[k + 1]
<1>1. Len(left) \in Nat \ {0} BY EmptySeq
<1>2. Tail(left) \in Seq(S) /\ Len(Tail(left)) = Len(left) - 1 BY <1>1
<1>3. Tail(left) # <<>>
  <2>1. Len(Tail(left)) # 0 BY <1>1, <1>2
  <2>2. Len(<<>>) = 0 BY EmptySeq
  <2> QED BY ONLY <2>1, <2>2
<1>4. \A k \in DOMAIN Tail(left) : k + 1 \in DOMAIN left /\ Tail(left)[k] = left[k + 1] BY <1>1, <1>2
<1> QED BY <1>2, <1>3, <1>4

LEMMA ScriptInserts == ASSUME DeskInv, RunInsert PROVE DeskInv'
<1>1. PICK service : service = Head(job.left) OBVIOUS
<1> DEFINE isNew == service.name \notin DOMAIN shop
<1>2. /\ job.at = "next"
      /\ shop' = IF isNew THEN Put(shop, service.name, service.tags \intersect DOMAIN tags) ELSE shop
      /\ details' = IF isNew THEN details \union {service.name} ELSE details
      /\ told' = IF isNew THEN [told EXCEPT !.seeded = @ \union {service.name}] ELSE told
      /\ job' = IF Len(job.left) = 1 THEN Idle ELSE [job EXCEPT !.left = Tail(job.left)]
      /\ UNCHANGED <<tags, rows, files>>
  BY <1>1 DEF RunInsert
<1>3. /\ job.left # <<>> /\ \E S : job.left \in Seq(S)
      /\ \A k \in DOMAIN job.left :
            job.left[k].tags \intersect Genders # {} /\ job.left[k].tags \subseteq DOMAIN tags
      /\ job.kind # "update"
  BY <1>2 DEF DeskInv, Jobs
<1>4. PICK S : job.left \in Seq(S) BY <1>3
<1>5. service.tags \intersect Genders # {} /\ service.tags \subseteq DOMAIN tags
  <2>1. 1 \in DOMAIN job.left /\ Head(job.left) = job.left[1] BY <1>3, <1>4
  <2> QED BY <1>1, <1>3, <2>1
<1>6. /\ told'.dropped = told.dropped /\ told'.halted = told.halted /\ told'.untagged = told.untagged
      /\ told'.seeded = (IF isNew THEN told.seeded \union {service.name} ELSE told.seeded)
      /\ DOMAIN told' = DOMAIN told
  BY <1>2 DEF DeskInv, Shapes
<1>7. /\ DOMAIN shop \subseteq DOMAIN shop'
      /\ \A n \in DOMAIN shop : shop'[n] = shop[n]
      /\ \A n \in DOMAIN shop' \ DOMAIN shop : isNew /\ n = service.name
      /\ isNew => service.name \in DOMAIN shop' /\ shop'[service.name] = service.tags
  BY <1>2, <1>5 DEF Put
<1>8. DOMAIN job' = DOMAIN job
      /\ (job' = Idle \/ (Len(job.left) # 1 /\ job'.at = job.at /\ job'.kind = job.kind /\ job'.left = Tail(job.left)))
  BY <1>2, Continues DEF DeskInv
<1> HIDE DEF isNew
<1>9. \A n : ~Touched(n) /\ ~Touched(n)' BY <1>2, <1>8, IdleIs DEF Touched
<1>10. Services' BY <1>2, <1>5, <1>6, <1>7 DEF DeskInv, Services, isNew
<1>11. Genders' = Genders BY <1>2 DEF Genders
<1>12. HasGender(Genders)'
  <2> SUFFICES ASSUME NEW n \in told'.seeded \ told'.untagged
               PROVE  n \in DOMAIN shop' /\ shop'[n] \intersect Genders # {}
    BY <1>11 DEF HasGender
  <2>1. CASE n \in told.seeded BY <1>6, <1>7, <2>1 DEF DeskInv, HasGender
  <2>2. CASE n \notin told.seeded BY <1>5, <1>6, <1>7, <2>2
  <2> QED BY <2>1, <2>2
<1>13. Jobs'
  <2>1. CASE job' = Idle BY <2>1, IdleIs DEF Jobs
  <2>2. CASE Len(job.left) # 1 /\ job'.at = job.at /\ job'.kind = job.kind /\ job'.left = Tail(job.left)
    <3>1. /\ Tail(job.left) \in Seq(S) /\ Tail(job.left) # <<>>
          /\ \A k \in DOMAIN Tail(job.left) :
                k + 1 \in DOMAIN job.left /\ Tail(job.left)[k] = job.left[k + 1]
      BY <1>3, <1>4, <2>2, LeftOver
    <3>3. \A k \in DOMAIN job'.left :
             job'.left[k].tags \intersect Genders' # {} /\ job'.left[k].tags \subseteq DOMAIN tags'
      BY <1>2, <1>3, <1>11, <2>2, <3>1
    <3> QED BY <1>2, <1>3, <2>2, <3>1, <3>3 DEF Jobs
  <2> QED BY <1>8, <2>1, <2>2
<1> QED BY <1>2, <1>6, <1>7, <1>8, <1>9, <1>10, <1>12, <1>13, TagsOnly

\* What stopped half way is told from then on, until its pictures are written again.
LEMMA StopKeeps == ASSUME DeskInv, Stop PROVE DeskInv'
<1>1. PICK name : name = job.name OBVIOUS
<1>2. /\ told' = IF job.kind \in {"update", "remove"} /\ job.at \notin {"files", "detail"}
                THEN [told EXCEPT !.halted = @ \union {name}] ELSE told
      /\ Done /\ UNCHANGED <<tags, shop, rows, files, details>>
  BY <1>1 DEF Stop
<1>3. /\ told'.dropped = told.dropped /\ told'.untagged = told.untagged /\ told'.seeded = told.seeded
      /\ told.halted \subseteq told'.halted /\ DOMAIN told' = DOMAIN told
      /\ (job.kind \in {"update", "remove"} /\ job.at \notin {"files", "detail"}) => name \in told'.halted
  BY <1>2 DEF DeskInv, Shapes
<1>4. \A n : Touched(n) => n \in told'.halted BY <1>1, <1>3 DEF Touched, DeskInv, Jobs
<1>5. \A n : ~Touched(n)' /\ ImagesOf(n)' = ImagesOf(n) BY <1>2, Ends DEF ImagesOf
<1>6. Shapes' BY <1>2, <1>3, Ends DEF DeskInv, Shapes
<1>7. Pictures' BY <1>2, <1>3, <1>4 DEF DeskInv, Pictures
<1>8. OneEach' BY <1>2, <1>3, <1>4, <1>5 DEF DeskInv, OneEach
<1>9. Services' /\ HasGender(Genders)' BY <1>2, <1>3 DEF DeskInv, Services, HasGender, Genders
<1> QED BY <1>2, <1>6, <1>7, <1>8, <1>9, Ends DEF DeskInv

LEMMA DeskStep == ASSUME DeskAssumption, DeskInv, [DeskNext]_deskVars PROVE DeskInv'
<1>1. CASE BeginCreate BY <1>1, CreateStarts
<1>2. CASE Insert BY <1>2, InsertKeeps
<1>3. CASE BeginUpdate BY <1>3, UpdateStarts
<1>4. CASE DeleteAssets BY <1>4, AssetsKeep
<1>5. CASE DeleteRows BY <1>5, RowsKeep
<1>6. CASE Save BY <1>6, SaveKeeps
<1>7. CASE BeginRemove BY <1>7, RemoveStarts
<1>8. CASE DeleteService BY <1>8, ServiceGoes
<1>9. CASE DeleteDetail BY <1>9, DetailGoes
<1>10. CASE CreateTag BY <1>10, TagCreated
<1>11. CASE BeginUpdateTag BY <1>11, TagReparented
<1>12. CASE SaveTag BY <1>12, TagSaved
<1>13. CASE RemoveTag BY <1>13, TagRemoved
<1>14. CASE BeginSeedTags BY <1>14, SeedStarts
<1>15. CASE SeedTag BY <1>15, TagSeeded
<1>16. CASE BeginRunInsert BY <1>16, ScriptStarts
<1>17. CASE RunInsert BY <1>17, ScriptInserts
<1>18. CASE Stop BY <1>18, StopKeeps
<1>19. CASE UNCHANGED deskVars
  <2>1. UNCHANGED <<tags, shop, rows, files, details, job, told>> BY <1>19 DEF deskVars
  <2> QED BY <2>1 DEF DeskInv, Shapes, Pictures, OneEach, Services, HasGender, Jobs, Updating, Touched,
                      ImagesOf, Genders, SavedGenders
<1> QED BY <1>1, <1>2, <1>3, <1>4, <1>5, <1>6, <1>7, <1>8, <1>9, <1>10, <1>11, <1>12, <1>13, <1>14, <1>15,
           <1>16, <1>17, <1>18, <1>19 DEF DeskNext

(* However the jobs on the catalogue fail or stop between two statements,   *)
(* only what they were asked to undo is left undone: pictures without file, *)
(* services without a principal, a detail or a gender (ServiceService,      *)
(* ImagesService, TagsService, insert-resolved.ts).                         *)
THEOREM CatalogueSound == ASSUME DeskAssumption PROVE DeskSpec => []CatalogueIsSound
<1>1. DeskInit => DeskInv BY DeskInitInv
<1>2. DeskInv /\ [DeskNext]_deskVars => DeskInv' BY DeskStep
<1>3. DeskInv => CatalogueIsSound BY DeskInvImplies
<1> QED BY <1>1, <1>2, <1>3, PTL DEF DeskSpec
=============================================================================
