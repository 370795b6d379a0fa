-------------------------------- MODULE Catalog --------------------------------
(* The documents of the site and the labels they hang on: content with its
   categories, tags and content type, insights with their categories, services
   with their group, and the submissions sent in for a product or a service.
   The services that keep them are seven copies of one pattern that differ in what
   they check before they write and in what the foreign key does when a label goes
   away.  A behaviour shows one of the pairs, its `kind`; support tickets, the eighth,
   have no labels.

   Nothing holds what was checked until it is written: a request looks for the row
   and for the slug, then for the labels, and then writes in one transaction.  *)
EXTENDS Naturals, FiniteSets

CONSTANTS
    Doc, Label,    \* ids of rows
    Name,          \* titles of documents, names and codes of labels
    SlugOf,        \* the slug a name is turned into; names may share one
    Kinds,         \* the pairs to look at
    Operations,    \* what is asked for
    Request,       \* each request is made once
    MaxAsked       \* bound: how many fields one update asks to change

None == "none"

ASSUME KindsAssumption ==
    Kinds \subseteq {"category", "tag", "contentType", "insightCategory",
                     "serviceGroup", "product", "service", "ticket"}
\* The endpoints, most of them for administrators; whoever likes sends in a submission.
LabelOperations == {"createLabel", "updateLabel", "updateLabelStatus", "removeLabel"}
DocOperations   == {"createDoc", "updateDoc", "updateDocStatus", "removeDoc"}

ASSUME OperationsAssumption == Operations \subseteq LabelOperations \cup DocOperations
ASSUME NameAssumption == Name # {} /\ None \notin Name \cup Doc \cup Label \cup Request /\ MaxAsked \in Nat

VARIABLES
    kind,      \* the kind of label
    labels,    \* their rows
    docs,      \* rows of the documents that carry them, and the links between the two
    req,       \* what a request was asked for and what it has read
    at,        \* the step it is about to take
    met        \* the requests that were in flight together with it (history)

vars == <<kind, labels, docs, req, at, met>>

----------------------------------------------------------------------------
(* What the pairs differ in. *)

DocKind == CASE kind \in {"category", "tag", "contentType"} -> "content"
             [] kind = "insightCategory"                    -> "insight"
             [] kind = "serviceGroup"                       -> "service"
             [] kind = "ticket"                             -> "ticket"
             [] OTHER                                       -> "submission"

Slugged  == DocKind \in {"content", "insight"}
SlugOfName(n) == IF kind = "contentType" THEN n ELSE SlugOf[n]

\* A category or a tag in use is not removed, as far as its service sees.
Guarded  == kind \in {"category", "tag", "insightCategory"}

OnDelete == CASE Guarded              -> "Cascade"
              [] kind = "contentType" -> "Restrict"
              [] OTHER                -> "SetNull"

\* How many labels of the kind a document has.
MayHang(L) ==
    CASE kind = "contentType" -> \E l \in L : L = {l}
      [] kind = "ticket"      -> L = {}
      [] OnDelete = "Cascade" -> TRUE
      [] OTHER                -> \A k, l \in L : k = l

Status == {"DRAFT", "PUBLISHED"}

\* Only service groups and products have a status that matters here.
States == IF Slugged THEN {"DRAFT"} ELSE Status

\* The row of a label, and that of a document; of a ticket also the status that its
\* activities tell.
LabelRow == [here : BOOLEAN, name : Name, slug : Name \cup {SlugOf[n] : n \in Name}, status : Status]
DocRow   == [here : BOOLEAN, deleted : BOOLEAN, title : Name, slug : {SlugOf[n] : n \in Name},
             status : Status, told : Status, links : SUBSET Label]

Call   == [op : Operations \cup {None}, doc : Doc \cup {None}, label : Label \cup {None},
           asks : SUBSET {"title", "links", "status"}, title : Name, links : SUBSET Label,
           status : Status, changes : BOOLEAN, slug : Name \cup {SlugOf[n] : n \in Name}]

\* What everything is called at first, and all there is to say of a name nobody compares.
Plain  == CHOOSE n \in Name : TRUE
Titles == IF Slugged THEN Name ELSE {Plain}

NoCall == [op |-> None, doc |-> None, label |-> None, asks |-> {}, title |-> Plain, links |-> {},
           status |-> "DRAFT", changes |-> FALSE, slug |-> SlugOf[Plain]]

InFlight == {o \in Request : at[o] \notin {"new", "done", "failed"}}

Here == {l \in Label : labels[l].here}

\* A label and a document are there; the document may carry the label.
Init ==
    /\ kind \in Kinds
    /\ \E l \in Label : \E s \in States :
          labels = [k \in Label |-> [here |-> k = l /\ kind # "ticket", name |-> Plain, slug |-> SlugOfName(Plain), status |-> s]]
    /\ \E d \in Doc : \E s \in Status : \E L \in SUBSET Here :
          /\ MayHang(L)
          /\ docs = [k \in Doc |-> [here |-> k = d, deleted |-> FALSE, title |-> Plain, slug |-> SlugOf[Plain],
                                    status |-> s, told |-> IF kind = "ticket" THEN s ELSE "DRAFT",
                                    links |-> IF k = d THEN L ELSE {}]]
    /\ req = [o \in Request |-> NoCall]
    /\ at = [o \in Request |-> "new"]
    /\ met = [o \in Request |-> {}]

----------------------------------------------------------------------------
\* Request o comes, asks for what q says and has made its first reads.
Arrive(o, q, step) ==
    /\ at[o] = "new" /\ q.op \in Operations
    /\ at' = [at EXCEPT ![o] = step]
    /\ req' = [req EXCEPT ![o] = q]
    /\ met' = [p \in Request |-> CASE p = o        -> InFlight
                                   [] p \in InFlight -> met[p] \cup {o}
                                   [] OTHER        -> met[p]]
    /\ UNCHANGED <<kind, labels, docs>>

Goes(o, step) == at' = [at EXCEPT ![o] = step] /\ UNCHANGED <<kind, met>>

\* Answered: of a request all that is kept is what it was.
Answer(o, step) ==
    /\ Goes(o, step)
    /\ req' = [req EXCEPT ![o] = [NoCall EXCEPT !.op = req[o].op, !.doc = req[o].doc, !.label = req[o].label]]

\* A label that is not found, a violated constraint, a lost server.
Fail(o) == o \in InFlight /\ Answer(o, "failed") /\ UNCHANGED <<labels, docs>>

----------------------------------------------------------------------------
(* Labels. *)

SlugHeld(s, others) == \E l \in others : labels[l].here /\ labels[l].slug = s

FreshLabel == {l \in Label : ~labels[l].here /\ \A o \in Request : req[o].label # l}

CreatesLabel(o, n, s, slug) ==
    \E l \in FreshLabel :
        Arrive(o, [NoCall EXCEPT !.op = "createLabel", !.label = l, !.title = n, !.status = s, !.slug = slug],
               "insertLabel")

\* A category or a tag: the slug must be free.
CreateCategory(o) ==
    /\ Guarded
    /\ \E n \in Name : \E s \in States :
          ~SlugHeld(SlugOf[n], Label) /\ CreatesLabel(o, n, s, SlugOf[n])

\* The code of a content type is what the request says.
CreateContentType(o) ==
    /\ kind = "contentType"
    /\ \E n \in Name : \E s \in States : ~SlugHeld(n, Label) /\ CreatesLabel(o, n, s, n)

\* A service group, a product or a service; its place on the shelf is modelled in Shelf.
CreateOffer(o) ==
    /\ ~Slugged /\ kind # "ticket"
    /\ \E s \in Status : CreatesLabel(o, Plain, s, SlugOf[Plain])

InsertedLabel(q) == [here |-> TRUE, name |-> q.title, slug |-> q.slug, status |-> q.status]

InsertLabel(o) ==
    /\ at[o] = "insertLabel"
    /\ Slugged => ~SlugHeld(req[o].slug, Label)
    /\ labels' = [labels EXCEPT ![req[o].label] = InsertedLabel(req[o])]
    /\ Answer(o, "done")
    /\ UNCHANGED docs

\* A new name must have a free slug: for categories and tags also the label's own counts
\* as taken; the code of a content type is not looked for.
MayRename(l, n) ==
    CASE kind \in {"category", "tag"} -> ~SlugHeld(SlugOfName(n), Label)
      [] kind = "insightCategory"     -> ~SlugHeld(SlugOfName(n), Label \ {l})
      [] OTHER                        -> TRUE

\* An update may ask to change the title, and of a group, a product or a service the status too.
UpdateLabel(o) ==
    \E l \in Here : \E n \in Titles : \E s \in States : \E asks \in SUBSET {"title", "status"} :
        /\ IF "status" \in asks THEN ~Slugged ELSE s = labels[l].status
        /\ IF "title" \in asks THEN n # labels[l].name => MayRename(l, n) ELSE n = labels[l].name
        /\ Arrive(o, [NoCall EXCEPT !.op = "updateLabel", !.label = l, !.asks = asks, !.title = n, !.status = s,
                                    !.slug = IF n = labels[l].name THEN labels[l].slug ELSE SlugOfName(n)],
                  "writeLabel")

UpdateLabelStatus(o) ==
    /\ ~Slugged
    /\ \E l \in Here : \E s \in Status :
          Arrive(o, [NoCall EXCEPT !.op = "updateLabelStatus", !.label = l, !.asks = {"status"}, !.status = s],
                 "writeLabel")

RemovesLabel(o, l) == Arrive(o, [NoCall EXCEPT !.op = "removeLabel", !.label = l], "deleteLabel")

\* Mutant: nobody looks whether the label is in use.
RemoveCategoryUnchecked(o) == Guarded /\ \E l \in Here : RemovesLabel(o, l)

\* Whether a category or tag is in use is read together with it, soft-deleted documents included.
RemoveCategory(o) ==
    /\ Guarded
    /\ \E l \in Here : (\A d \in Doc : l \notin docs[d].links) /\ RemovesLabel(o, l)

\* The rest is removed without a look; the foreign key refuses for a content type in use.
RemoveUnguarded(o) == ~Guarded /\ \E l \in Here : RemovesLabel(o, l)

\* Mutant: an update that says nothing of the status publishes.
WrittenPublished(r, q) ==
    [here   |-> TRUE,
     name   |-> IF "title" \in q.asks THEN q.title ELSE r.name,
     slug   |-> IF "title" \in q.asks THEN q.slug ELSE r.slug,
     status |-> IF "status" \in q.asks THEN q.status ELSE "PUBLISHED"]

Written(r, q) ==
    [here   |-> TRUE,
     name   |-> IF "title" \in q.asks THEN q.title ELSE r.name,
     slug   |-> IF "title" \in q.asks THEN q.slug ELSE r.slug,
     status |-> IF "status" \in q.asks THEN q.status ELSE r.status]

WriteLabel(o) ==
    /\ at[o] = "writeLabel"
    /\ LET q == req[o]
           l == q.label
           r == Written(labels[l], q)
       IN  /\ labels[l].here
           /\ Slugged => ~SlugHeld(r.slug, Label \ {l})
           /\ labels' = [labels EXCEPT ![l] = r]
    /\ Answer(o, "done")
    /\ UNCHANGED docs

\* What the foreign key does to the documents of label l.
Unlinked(l) == [d \in Doc |-> [docs[d] EXCEPT !.links = @ \ {l}]]

DeleteLabel(o) ==
    /\ at[o] = "deleteLabel"
    /\ LET l == req[o].label
       IN  /\ labels[l].here
           /\ OnDelete = "Restrict" => \A d \in Doc : l \notin docs[d].links
           /\ labels' = [labels EXCEPT ![l].here = FALSE]
           /\ docs' = Unlinked(l)
    /\ Answer(o, "done")

----------------------------------------------------------------------------
(* Documents. *)

\* Slugs of soft-deleted documents stay taken.
TitleHeld(s, others) == \E d \in others : docs[d].here /\ docs[d].slug = s

FreshDoc == {d \in Doc : ~docs[d].here /\ \A o \in Request : req[o].doc # d}

\* The documents that their service still finds.
Found == {d \in Doc : docs[d].here /\ ~docs[d].deleted}

\* The labels asked for are looked up next.
CreatesDoc(o, n, L, s) ==
    /\ MayHang(L)
    /\ \E d \in FreshDoc :
          Arrive(o, [NoCall EXCEPT !.op = "createDoc", !.doc = d, !.title = n, !.slug = SlugOf[n],
                                   !.links = L, !.status = s], "validate")

CreateContent(o) ==
    /\ DocKind = "content"
    /\ \E n \in Name : \E L \in SUBSET Label : \E s \in Status :
          ~TitleHeld(SlugOf[n], Doc) /\ CreatesDoc(o, n, L, s)

CreateInsight(o) ==
    /\ DocKind = "insight"
    /\ \E n \in Name : \E L \in SUBSET Label : \E s \in Status :
          ~TitleHeld(SlugOf[n], Doc) /\ CreatesDoc(o, n, L, s)

CreateService(o) ==
    DocKind = "service" /\ \E L \in SUBSET Label : \E s \in Status : CreatesDoc(o, Plain, L, s)

\* Of a submission the sender does not say the status.
CreateSubmission(o) ==
    DocKind = "submission" /\ \E L \in SUBSET Label : CreatesDoc(o, Plain, L, "DRAFT")

\* A ticket is created at once, with an activity that tells so.
CreateTicket(o) ==
    /\ DocKind = "ticket"
    /\ \E d \in FreshDoc : Arrive(o, [NoCall EXCEPT !.op = "createDoc", !.doc = d], "insertDoc")

\* An update keeps what it does not ask to change, as it was read.
Updates(o, d, asks, n, slug, L, s, step) ==
    /\ Cardinality(asks) <= MaxAsked
    /\ IF "links" \in asks THEN MayHang(L) ELSE L = {}
    /\ "title" \notin asks => n = docs[d].title
    /\ "status" \notin asks => s = docs[d].status
    /\ Arrive(o, [NoCall EXCEPT !.op = "updateDoc", !.doc = d, !.asks = asks, !.title = n,
                                !.slug = slug, !.links = L, !.status = s], step)

\* Content or an insight: a new title brings a new slug, which must be free.
UpdateContent(o) ==
    /\ Slugged
    /\ \E d \in Found : \E asks \in SUBSET {"title", "links", "status"} :
       \E n \in Name : \E L \in SUBSET Label : \E s \in Status :
          LET row  == docs[d]
              slug == IF "title" \in asks /\ n # row.title THEN SlugOf[n] ELSE row.slug
          IN  /\ slug # row.slug => ~TitleHeld(slug, Doc \ {d})
              /\ Updates(o, d, asks, n, slug, L, s, "validate")

UpdateService(o) ==
    /\ DocKind = "service"
    /\ \E d \in Found : \E asks \in SUBSET {"links", "status"} : \E L \in SUBSET Label : \E s \in Status :
          Updates(o, d, asks, Plain, docs[d].slug, L, s, "validate")

UpdateSubmission(o) ==
    /\ DocKind = "submission"
    /\ \E d \in Found : \E asks \in SUBSET {"status"} : \E s \in Status :
          Updates(o, d, asks, Plain, docs[d].slug, {}, s, "writeDoc")

UpdateTicket(o) ==
    /\ DocKind = "ticket"
    /\ \E d \in Found : \E asks \in SUBSET {"status"} : \E s \in Status :
          LET q == [NoCall EXCEPT !.op = "updateDoc", !.doc = d, !.asks = asks, !.status = s,
                                  !.changes = s # docs[d].status]
          IN  /\ Cardinality(asks) <= MaxAsked
              /\ "status" \notin asks => s = docs[d].status
              /\ Arrive(o, q, "writeDoc")

\* The labels asked for are counted.
Validate(o) ==
    /\ at[o] = "validate"
    /\ req[o].links \subseteq Here
    /\ Goes(o, IF req[o].op = "createDoc" THEN "insertDoc" ELSE "writeDoc")
    /\ UNCHANGED <<labels, docs, req>>

Inserted(q) == [here |-> TRUE, deleted |-> FALSE, title |-> q.title, slug |-> q.slug,
                status |-> q.status, told |-> "DRAFT", links |-> q.links]

\* The foreign keys and the unique slug are checked by the database.
InsertDoc(o) ==
    /\ at[o] = "insertDoc"
    /\ req[o].links \subseteq Here
    /\ Slugged => ~TitleHeld(req[o].slug, Doc)
    /\ docs' = [docs EXCEPT ![req[o].doc] = Inserted(req[o])]
    /\ Answer(o, "done")
    /\ UNCHANGED labels

UpdateDocStatus(o) ==
    /\ DocKind \notin {"submission", "ticket"}
    /\ \E d \in Found : \E s \in Status :
          Arrive(o, [NoCall EXCEPT !.op = "updateDocStatus", !.doc = d, !.asks = {"status"}, !.status = s],
                 "writeDoc")

\* Mutant: an update leaves the slug as it was read, also with a new title.
EditedKeepingSlug(r, q) ==
    [here    |-> TRUE,
     deleted |-> r.deleted,
     told    |-> r.told,
     title   |-> IF "title" \in q.asks THEN q.title ELSE r.title,
     slug    |-> r.slug,
     status  |-> IF "status" \in q.asks THEN q.status ELSE r.status,
     links   |-> IF "links" \in q.asks THEN q.links ELSE r.links]

\* Mutant: the labels that are given come on top of those there are.
EditedAdding(r, q) ==
    [here    |-> TRUE,
     deleted |-> r.deleted,
     told    |-> r.told,
     title   |-> IF "title" \in q.asks THEN q.title ELSE r.title,
     slug    |-> q.slug,
     status  |-> IF "status" \in q.asks THEN q.status ELSE r.status,
     links   |-> r.links \cup q.links]

\* What an update of content or of an insight leaves: the slug is written, asked for or not.
Edited(r, q) ==
    [here    |-> TRUE,
     deleted |-> r.deleted,
     told    |-> r.told,
     title   |-> IF "title" \in q.asks THEN q.title ELSE r.title,
     slug    |-> q.slug,
     status  |-> IF "status" \in q.asks THEN q.status ELSE r.status,
     links   |-> IF "links" \in q.asks THEN q.links ELSE r.links]

\* Of a service only what is asked for.
EditedService(r, q) ==
    [r EXCEPT !.status = IF "status" \in q.asks THEN q.status ELSE @,
              !.links  = IF "links" \in q.asks THEN q.links ELSE @]

\* A submission gets the status that was read if none is asked for.
EditedSubmission(r, q) == [r EXCEPT !.status = q.status]

\* So does a ticket; a change of status is told in the same transaction, as seen from
\* the status that was read.
EditedTicket(r, q) ==
    [r EXCEPT !.status = q.status, !.told = IF q.changes THEN q.status ELSE @]

Row(q) ==
    LET r == docs[q.doc]
    IN  IF q.op = "updateDocStatus" THEN [r EXCEPT !.status = q.status]
        ELSE CASE Slugged                -> Edited(r, q)
               [] DocKind = "service"    -> EditedService(r, q)
               [] DocKind = "submission" -> EditedSubmission(r, q)
               [] DocKind = "ticket"     -> EditedTicket(r, q)

WriteDoc(o) ==
    /\ at[o] = "writeDoc"
    /\ LET d == req[o].doc
           r == Row(req[o])
       IN  /\ docs[d].here
           /\ req[o].links \subseteq Here
           /\ Slugged => ~TitleHeld(r.slug, Doc \ {d})
           /\ docs' = [docs EXCEPT ![d] = r]
    /\ Answer(o, "done")
    /\ UNCHANGED labels

RemoveDoc(o) ==
    DocKind # "ticket" /\ \E d \in Found : Arrive(o, [NoCall EXCEPT !.op = "removeDoc", !.doc = d], "deleteDoc")

\* Content and insights are only marked; their links stay.
SoftDelete(o) ==
    /\ at[o] = "deleteDoc" /\ Slugged
    /\ docs[req[o].doc].here
    /\ docs' = [docs EXCEPT ![req[o].doc].deleted = TRUE]
    /\ Answer(o, "done")
    /\ UNCHANGED labels

HardDelete(o) ==
    /\ at[o] = "deleteDoc" /\ ~Slugged
    /\ docs[req[o].doc].here
    /\ docs' = [docs EXCEPT ![req[o].doc].here = FALSE, ![req[o].doc].links = {}]
    /\ Answer(o, "done")
    /\ UNCHANGED labels

----------------------------------------------------------------------------
\* What visitors are shown: of services only those without a group or in a public one.
Public(d) ==
    /\ docs[d].here /\ ~docs[d].deleted /\ docs[d].status = "PUBLISHED"
    /\ DocKind = "service" => \A l \in docs[d].links : labels[l].status = "PUBLISHED"

Terminating == InFlight = {} /\ UNCHANGED vars

Next ==
    \/ \E o \in Request :
          \/ CreateCategory(o) \/ CreateContentType(o) \/ CreateOffer(o)
          \/ UpdateLabel(o) \/ UpdateLabelStatus(o) \/ RemoveCategory(o) \/ RemoveUnguarded(o)
          \/ InsertLabel(o) \/ WriteLabel(o) \/ DeleteLabel(o)
          \/ CreateContent(o) \/ CreateInsight(o) \/ CreateService(o) \/ CreateSubmission(o) \/ CreateTicket(o)
          \/ UpdateContent(o) \/ UpdateService(o) \/ UpdateSubmission(o) \/ UpdateTicket(o)
          \/ UpdateDocStatus(o) \/ RemoveDoc(o)
          \/ Validate(o) \/ InsertDoc(o) \/ WriteDoc(o) \/ SoftDelete(o) \/ HardDelete(o) \/ Fail(o)
    \/ Terminating

Spec == Init /\ [][Next]_vars

----------------------------------------------------------------------------
\* Rows keep their form, and no document hangs on a label that is gone: what the
\* foreign keys do agrees with what the services count before they write.
TypeOK ==
    /\ kind \in Kinds
    /\ labels \in [Label -> LabelRow]
    /\ docs \in [Doc -> DocRow]
    /\ req \in [Request -> Call]
    /\ \A d \in Doc : docs[d].links \subseteq Here
    /\ \A d \in Found : MayHang(docs[d].links)

\* The request that takes this step.
Stepping(o) == at'[o] # at[o]

Overlaps(o, d) == \E x \in met[o] : req[x].doc = d

\* An update changes what nobody asked it to change only when another request for the
\* same document overlapped it: the slug it writes back, or the status.  The activities of
\* a ticket then tell its status as well.
OnlyOverlapUndoes ==
    [][\A o \in Request : Stepping(o) /\ at[o] = "writeDoc" /\ at'[o] = "done" /\ req[o].op # "createDoc" =>
          LET d == req[o].doc
          IN  \/ Overlaps(o, d)
              \/ /\ "title" \notin req[o].asks => docs'[d].slug = docs[d].slug
                 /\ "status" \notin req[o].asks => docs'[d].status = docs[d].status
                 /\ docs'[d].slug = SlugOf[docs'[d].title] \/ docs[d].slug # SlugOf[docs[d].title]
                 /\ kind = "ticket" /\ docs[d].told = docs[d].status => docs'[d].told = docs'[d].status]_vars

\* A document that has not been updated loses a category or a tag only to a removal that
\* overlapped the request that gave it: one that found it unused.
OnlyOverlapDropsLinks ==
    [][Guarded =>
          \A d \in Doc : \A o \in Request :
             Stepping(o) /\ at[o] = "deleteLabel" /\ req[o].label \in docs[d].links \ docs'[d].links =>
                \E x \in met[o] : req[x].doc = d]_vars

\* A published service hidden by its group comes to light only by what somebody does to the
\* service or the status of the group, or when the group itself is removed.
OnlyRemovalReveals ==
    [][\A d \in Doc : \A o \in Request :
          Stepping(o) /\ Public(d)' /\ ~Public(d) =>
             \/ req[o].doc = d
             \/ /\ req[o].op = "removeLabel" \/ "status" \in req[o].asks
                /\ req[o].label \in docs[d].links]_vars
==============================================================================
