---------------------------- MODULE CatalogueDesk ----------------------------
(***************************************************************************)
(* The catalogue as it is written: ServiceService, ImagesService,          *)
(* TagsService, the script that inserts resolved services                  *)
(* (insert-resolved.ts) and the seeding of tags.  None of them runs in a   *)
(* transaction: a request is a job of several statements, the images' files *)
(* are in Cloudinary, and any statement may fail, or the process stop, with *)
(* the earlier ones done.  One job runs at a time: there is one owner.     *)
(*                                                                         *)
(* A service is its name; its other columns are left out.  An image is     *)
(* named by its public id, and its file is uploaded by the portal before    *)
(* the request that lists it.                                              *)
(***************************************************************************)
EXTENDS Integers, Sequences, FiniteSets

CONSTANTS Names, Images, Tags,
          Gender,        \* the tag "Género"
          Null,          \* no parent, no service
          Resolved,      \* what the script inserts: [name, tags]
          Tree,          \* what the seed of tags holds, parents first: [tag, parent]
          Listings,      \* the lists of images a request may bring: [image, principal]
          MaxJobs        \* jobs there may ever be (bound)

\* Assumed of the constants by the module that gives them values.
DeskAssumption ==
    /\ Gender \in Tags /\ Null \notin Names \union Tags \union Images
    /\ Resolved \in Seq([name : {Resolved[k].name : k \in DOMAIN Resolved}, tags : SUBSET Tags])
    /\ Listings \subseteq Seq([image : Images, principal : BOOLEAN])
    /\ MaxJobs \in Nat

VARIABLES tags,          \* the rows of tag: each one's parent
          shop,          \* the rows of service: the tags of each one
          rows,          \* the rows of image_manager: [of, principal]
          files,         \* the files there are in Cloudinary
          details,       \* the services whose row of detail there is
          job,           \* the job that runs
          told           \* history: [dropped, halted, untagged, seeded, jobs]

deskVars == <<tags, shop, rows, files, details, job, told>>

Idle == [kind |-> "none", at |-> "idle", name |-> Null, tags |-> {}, images |-> {}, principal |-> Null,
         drop |-> {}, left |-> <<>>]
NotSent == {Null}       \* an update that brings no tags, or no images

Put(f, key, value) == [k \in DOMAIN f \union {key} |-> IF k = key THEN value ELSE f[k]]
Drop(f, keys) == [k \in DOMAIN f \ keys |-> f[k]]
ImagesOf(name) == {i \in DOMAIN rows : rows[i].of = name}
Principals(name) == {i \in ImagesOf(name) : rows[i].principal}
Listed(images) == {images[k].image : k \in DOMAIN images}
Genders == {t \in DOMAIN tags : tags[t] = Gender}

Begin(new) ==
    /\ job = Idle /\ told.jobs < MaxJobs       \* bound
    /\ job' = new
    /\ told' = [told EXCEPT !.jobs = @ + 1]

Goto(at) == job' = [job EXCEPT !.at = at]
Done == job' = Idle

\* Which may become the principal: the first image marked, or the first one. Those a
\* service keeps come first, in any order, as find() gives them in none.
selectPrincipalImage(kept, images) ==
    LET new == {k \in DOMAIN images : images[k].image \notin kept}
        First(S) == {images[k].image : k \in {j \in S : \A l \in S : j <= l}}
        choices == <<{i \in kept : rows[i].principal}, First({k \in new : images[k].principal}), kept, First(new)>>
        all == kept \union Listed(images)
    IN  IF all = {} THEN {Null}
        ELSE {i \in all : \E k \in 1 .. 4 : i \in choices[k] /\ \A j \in 1 .. (k - 1) : choices[j] = {}}

\* An answer of findByIds that is not an error: unknown tags are ignored.
findByIds(ids) == ids \intersect DOMAIN tags

WriteImages(name, images, principal) ==
    [i \in {k \in DOMAIN rows : rows[k].of # name} \union images |->
        IF i \in images THEN [of |-> name, principal |-> i = principal] ELSE rows[i]]

-----------------------------------------------------------------------------
(* Services. *)

BeginCreate ==
    \E name \in Names, ids \in SUBSET Tags \ {{}}, images \in Listings :
        /\ Listed(images) \intersect DOMAIN rows = {}
        /\ findByIds(ids) # {}
        /\ \E principal \in selectPrincipalImage({}, images) :
              Begin([Idle EXCEPT !.kind = "create", !.at = "insert", !.name = name, !.tags = findByIds(ids),
                                 !.images = Listed(images), !.principal = principal])
        /\ files' = files \union Listed(images)
        /\ UNCHANGED <<tags, shop, rows, details>>

Insert ==
    /\ job.at = "insert" /\ job.name \notin DOMAIN shop       \* else 23505: Stop
    /\ shop' = Put(shop, job.name, job.tags)
    /\ rows' = WriteImages(job.name, job.images, job.principal)
    /\ details' = details \union {job.name}
    /\ Done
    /\ UNCHANGED <<tags, files, told>>

\* imagenesActualizadas up to the rows: of what it has, a service keeps what is listed.
BeginUpdate ==
    \E name \in DOMAIN shop, ids \in SUBSET Tags \union {NotSent} :
        /\ ids # NotSent => findByIds(ids) # {}
        /\ LET new == [Idle EXCEPT !.kind = "update", !.name = name,
                                   !.tags = IF ids = NotSent THEN NotSent ELSE findByIds(ids)]
           IN  \/ /\ Begin([new EXCEPT !.at = "save", !.images = NotSent])
                  /\ UNCHANGED files
               \/ \E images \in Listings :
                     LET listed == Listed(images)
                         drop == ImagesOf(name) \ listed
                         uploaded == listed \ ImagesOf(name)
                     IN  /\ uploaded \intersect DOMAIN rows = {}
                         /\ \E principal \in selectPrincipalImage(ImagesOf(name) \intersect listed, images) :
                               Begin([new EXCEPT !.at = IF drop # {} THEN "files" ELSE "save", !.images = listed,
                                                 !.principal = principal, !.drop = drop])
                         /\ files' = files \union uploaded
        /\ UNCHANGED <<tags, shop, rows, details>>

\* removeByExternalId: the files, then the rows.
DeleteAssets ==
    /\ job.at = "files"
    /\ files' = files \ job.drop
    /\ Goto(IF job.kind = "remove" THEN "service" ELSE "rows")
    /\ told' = [told EXCEPT !.dropped = @ \union job.drop]
    /\ UNCHANGED <<tags, shop, rows, details>>

DeleteRows ==
    /\ job.at = "rows"
    /\ rows' = Drop(rows, job.drop)
    /\ Goto("save")
    /\ UNCHANGED <<tags, shop, files, details, told>>

Save ==
    /\ job.at = "save"
    /\ shop' = IF job.tags = NotSent THEN shop ELSE Put(shop, job.name, job.tags)
    /\ rows' = IF job.images = NotSent THEN rows ELSE WriteImages(job.name, job.images, job.principal)
    /\ told' = [told EXCEPT !.halted = IF job.images \subseteq files THEN @ \ {job.name} ELSE @,
                            !.untagged = IF job.tags = NotSent THEN @ ELSE @ \ {job.name},
                            !.seeded = IF job.tags = NotSent THEN @ ELSE @ \ {job.name}]
    /\ Done
    /\ UNCHANGED <<tags, files, details>>

BeginRemove ==
    \E name \in DOMAIN shop :
        /\ Begin([Idle EXCEPT !.kind = "remove", !.at = "files", !.name = name, !.drop = ImagesOf(name)])
        /\ UNCHANGED <<tags, shop, rows, files, details>>

\* The rows of its images go with it (ON DELETE CASCADE).
DeleteService ==
    /\ job.at = "service"
    /\ shop' = Drop(shop, {job.name})
    /\ rows' = Drop(rows, ImagesOf(job.name))
    /\ Goto("detail")
    /\ told' = [told EXCEPT !.halted = @ \ {job.name}, !.untagged = @ \ {job.name}, !.seeded = @ \ {job.name}]
    /\ UNCHANGED <<tags, files, details>>

DeleteDetail ==
    /\ job.at = "detail"
    /\ details' = details \ {job.name}
    /\ Done
    /\ UNCHANGED <<tags, shop, rows, files, told>>

-----------------------------------------------------------------------------
(* Tags. *)

Adopted(parent, children) == [t \in DOMAIN tags |-> IF t \in children THEN parent ELSE tags[t]]

\* The tag is saved before its children are looked at.
CreateTag ==
    \E tag \in Tags \ DOMAIN tags, children \in SUBSET DOMAIN tags :
        /\ Begin(Idle)
        /\ tags' = Put(IF \A t \in children : tags[t] = Null THEN Adopted(tag, children) ELSE tags, tag, Null)
        /\ UNCHANGED <<shop, rows, files, details>>

\* The children found are hung from the tag; an empty list finds every tag.
BeginUpdateTag ==
    \E tag \in DOMAIN tags, ids \in SUBSET DOMAIN tags :
        LET children == IF ids = {} THEN DOMAIN tags ELSE ids
        IN  /\ \A t \in children : tags[t] \in {Null, tag}
            /\ Begin([Idle EXCEPT !.kind = "tag", !.at = "tag", !.name = tag, !.left = <<tags[tag]>>,
                                  !.tags = {t \in DOMAIN tags : tags[t] = tag}])
            /\ tags' = Adopted(tag, children)
            /\ UNCHANGED <<shop, rows, files, details>>

\* TypeORM writes the tag with the parent and the children it was read with: the new ones go.
SaveTag ==
    /\ job.at = "tag"
    /\ tags' = [t \in DOMAIN tags |->
                   IF t = job.name THEN Head(job.left)
                   ELSE IF tags[t] = job.name /\ t \notin job.tags THEN Null ELSE tags[t]]
    /\ Done
    /\ UNCHANGED <<shop, rows, files, details, told>>

\* Its links to services go with it; a tag with children is refused by the foreign key.
RemoveTag ==
    \E tag \in DOMAIN tags :
        /\ \A t \in DOMAIN tags \ {tag} : tags[t] # tag
        /\ job = Idle /\ told.jobs < MaxJobs
        /\ tags' = Drop(tags, {tag})
        /\ shop' = [n \in DOMAIN shop |-> shop[n] \ {tag}]
        /\ told' = [told EXCEPT !.jobs = @ + 1, !.untagged = @ \union {n \in DOMAIN shop : tag \in shop[n]}]
        /\ UNCHANGED <<rows, files, details, job>>

BeginSeedTags ==
    /\ Tree # <<>>        \* else it does nothing
    /\ Begin([Idle EXCEPT !.kind = "tree", !.at = "tree", !.left = Tree])
    /\ UNCHANGED <<tags, shop, rows, files, details>>

\* seedTagRecursive, one node: found by its name, hung from its parent if it has none.
SeedTag ==
    /\ job.at = "tree"
    /\ LET node == Head(job.left)
           there == node.tag \in DOMAIN tags
       IN  /\ there => (node.parent = Null \/ tags[node.tag] \in {Null, node.parent})      \* else it throws: Stop
           /\ tags' = IF there /\ node.parent = Null THEN tags ELSE Put(tags, node.tag, node.parent)
    /\ job' = IF Len(job.left) = 1 THEN Idle ELSE [job EXCEPT !.left = Tail(@)]
    /\ UNCHANGED <<shop, rows, files, details, told>>

-----------------------------------------------------------------------------
(* The script. *)

\* MUTANT of Insertable: each service is looked at by itself, when its turn comes.
InsertableOneByOne(services) == Gender \in DOMAIN tags
Insertable(services) ==
    /\ Gender \in DOMAIN tags
    /\ \A k \in DOMAIN services : services[k].tags \intersect Genders # {} /\ services[k].tags \subseteq DOMAIN tags

BeginRunInsert ==
    /\ Insertable(Resolved) /\ Resolved # <<>>      \* else it does nothing
    /\ Begin([Idle EXCEPT !.kind = "insert", !.at = "next", !.left = Resolved])
    /\ UNCHANGED <<tags, shop, rows, files, details>>

\* One service: skipped if its name is there. The placeholder image has no file of its own.
RunInsert ==
    /\ job.at = "next"
    /\ LET service == Head(job.left)
           new == service.name \notin DOMAIN shop
       IN  /\ shop' = IF new THEN Put(shop, service.name, service.tags \intersect DOMAIN tags) ELSE shop
           /\ details' = IF new THEN details \union {service.name} ELSE details
           /\ told' = IF new THEN [told EXCEPT !.seeded = @ \union {service.name}] ELSE told
    /\ job' = IF Len(job.left) = 1 THEN Idle ELSE [job EXCEPT !.left = Tail(@)]
    /\ UNCHANGED <<tags, rows, files>>

\* A statement fails or the process stops: what was done stays done.
Stop ==
    /\ job # Idle
    /\ told' = IF job.kind \in {"update", "remove"} /\ job.at \notin {"files", "detail"}
               THEN [told EXCEPT !.halted = @ \union {job.name}] ELSE told
    /\ Done
    /\ UNCHANGED <<tags, shop, rows, files, details>>

DeskInit ==
    /\ tags = [t \in {Gender} |-> Null]
    /\ shop = <<>> /\ rows = <<>> /\ files = {} /\ details = {}
    /\ job = Idle
    /\ told = [dropped |-> {}, halted |-> {}, untagged |-> {}, seeded |-> {}, jobs |-> 0]

DeskNext ==
    \/ BeginCreate \/ Insert \/ BeginUpdate \/ DeleteAssets \/ DeleteRows \/ Save
    \/ BeginRemove \/ DeleteService \/ DeleteDetail
    \/ CreateTag \/ BeginUpdateTag \/ SaveTag \/ RemoveTag \/ BeginSeedTags \/ SeedTag
    \/ BeginRunInsert \/ RunInsert \/ Stop

(***************************************************************************)
(* What a job that stops half way leaves undone is only what it was asked   *)
(* to undo.  A picture without its file is one a request dropped, of a      *)
(* service whose update or removal stopped; any other service with pictures *)
(* shows exactly one as its principal; every service has its detail and a   *)
(* tag, and one the script inserted a gender, however often it stopped and  *)
(* ran again, unless a tag of it was removed since they were last written.  *)
(***************************************************************************)
CatalogueIsSound ==
    /\ \A i \in DOMAIN rows :
          /\ rows[i].of \in DOMAIN shop
          /\ i \notin files =>
                /\ i \in told.dropped
                /\ rows[i].of \in told.halted \/ rows[i].of = job.name
    /\ \A n \in DOMAIN shop :
          /\ n \in details
          /\ (n \notin told.halted /\ n # job.name /\ ImagesOf(n) # {}) =>
                Cardinality(Principals(n)) = 1
          /\ n \notin told.untagged => shop[n] # {}
    /\ \A n \in (told.seeded \intersect DOMAIN shop) \ told.untagged : shop[n] \intersect Genders # {}
=============================================================================
