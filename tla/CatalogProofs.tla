----------------------------- MODULE CatalogProofs -----------------------------
(* Proofs about Catalog for any number of documents, labels and requests: the rows and
   links are as they should be, and what it takes to undo or to reveal something.  *)
EXTENDS Catalog, TLAPS

LabelSteps == {"insertLabel", "writeLabel", "deleteLabel"}
DocSteps   == {"validate", "insertDoc", "writeDoc", "deleteDoc"}
Steps      == {"new", "done", "failed"} \cup LabelSteps \cup DocSteps
DocSlug    == {SlugOf[n] : n \in Name}

\* Requests that are in flight have met, and nobody has met one that is still to come.
Together ==
    /\ \A o, x \in InFlight : x # o => x \in met[o]
    /\ \A o \in Request : \A x \in met[o] : at[x] # "new"

\* The label that request o is about to insert is nobody else's.
Reserved(o) ==
    /\ req[o].op = "createLabel" /\ ~labels[req[o].label].here
    /\ \A p \in Request : p # o => req[p].label # req[o].label

\* A category or tag that a removal has found unused was given away, if at all, by others meanwhile.
Unused(o) == \A d \in Doc : req[o].label \in docs[d].links => Overlaps(o, d)

OnLabel(o) ==
    /\ at[o] \in LabelSteps => req[o].label \in Label
    /\ at[o] = "insertLabel" => Reserved(o)
    /\ at[o] = "deleteLabel" => req[o].op = "removeLabel" /\ (Guarded => Unused(o))

\* What an update q has read of its document is still so.
AsRead(q) ==
    LET r == docs[q.doc]
    IN  /\ Slugged => \/ q.slug = r.slug /\ q.title = r.title
                      \/ q.slug = SlugOf[q.title] /\ "title" \in q.asks
        /\ "status" \notin q.asks => q.status = r.status
        /\ DocKind = "ticket" => (q.changes <=> q.status # r.status)

StillSo(o) == AsRead(req[o])

OnDoc(o) ==
    /\ at[o] \in DocSteps => req[o].doc \in Doc /\ req[o].slug \in DocSlug
    /\ at[o] = "validate" => req[o].op \in {"createDoc", "updateDoc"}
    /\ at[o] = "insertDoc" => req[o].op = "createDoc"
    /\ at[o] = "writeDoc" =>
          \/ req[o].op = "updateDoc"
          \/ req[o].op = "updateDocStatus" /\ DocKind \notin {"submission", "ticket"} /\ req[o].asks = {"status"}
    /\ at[o] \in {"validate", "insertDoc"} /\ req[o].op = "createDoc" => MayHang(req[o].links)
    /\ at[o] \in {"validate", "writeDoc"} /\ req[o].op = "updateDoc" =>
          /\ "links" \in req[o].asks => MayHang(req[o].links)
          /\ Overlaps(o, req[o].doc) \/ StillSo(o)

IInv ==
    /\ TypeOK /\ at \in [Request -> Steps] /\ met \in [Request -> SUBSET Request]
    /\ Together
    /\ \A o \in Request : OnLabel(o) /\ OnDoc(o)

----------------------------------------------------------------------------
(* Types. *)
LabelSlug == Name \cup DocSlug

LEMMA TypeParts ==
    ASSUME TypeOK
    PROVE  /\ kind \in Kinds /\ labels \in [Label -> LabelRow] /\ docs \in [Doc -> DocRow] /\ req \in [Request -> Call]
           /\ \A l \in Label : labels[l] \in LabelRow /\ labels[l].here \in BOOLEAN /\ labels[l].name \in Name
                               /\ labels[l].slug \in LabelSlug /\ labels[l].status \in Status
           /\ \A d \in Doc : docs[d] \in DocRow /\ docs[d].title \in Name /\ docs[d].slug \in DocSlug
                             /\ docs[d].status \in Status /\ docs[d].links \in SUBSET Label
                             /\ docs[d].told \in Status
                             /\ docs[d].here \in BOOLEAN /\ docs[d].deleted \in BOOLEAN
                             /\ docs[d].links \subseteq Here
           /\ \A o \in Request : /\ req[o] \in Call /\ req[o].doc \in Doc \cup {None} /\ req[o].label \in Label \cup {None}
                                 /\ req[o].title \in Name /\ req[o].status \in Status /\ req[o].links \in SUBSET Label
                                 /\ req[o].slug \in LabelSlug /\ req[o].changes \in BOOLEAN
                                 /\ req[o].op \in Operations \cup {None}
BY DEF TypeOK, LabelRow, DocRow, Call, LabelSlug, DocSlug

LEMMA Constants ==
    /\ Plain \in Name /\ SlugOf[Plain] \in DocSlug /\ DocSlug \subseteq LabelSlug /\ Name \subseteq LabelSlug
    /\ \A n \in Name : SlugOf[n] \in DocSlug
    /\ None \notin Doc /\ None \notin Label /\ None \notin Request
    /\ "DRAFT" \in Status /\ States \subseteq Status /\ Titles \subseteq Name
    /\ \A n \in Name : SlugOfName(n) \in LabelSlug
<1>1. Plain \in Name  BY NameAssumption DEF Plain
<1> QED  BY <1>1, NameAssumption DEF DocSlug, LabelSlug, Status, States, Titles, SlugOfName

LEMMA NoCallTypes ==
    /\ NoCall \in Call /\ NoCall.op = None /\ NoCall.doc = None /\ NoCall.label = None /\ NoCall.asks = {}
    /\ NoCall.title = Plain /\ NoCall.links = {} /\ NoCall.status = "DRAFT" /\ NoCall.changes = FALSE
    /\ NoCall.slug = SlugOf[Plain]
BY Constants DEF NoCall, Call, DocSlug, LabelSlug

LEMMA DocKinds ==
    ASSUME kind \in Kinds
    PROVE  /\ DocKind \in {"content", "insight", "service", "ticket", "submission"}
           /\ Slugged <=> DocKind \in {"content", "insight"}
           /\ kind = "ticket" <=> DocKind = "ticket"
           /\ Guarded => OnDelete = "Cascade" /\ DocKind \in {"content", "insight"} /\ kind # "contentType"
           /\ OnDelete = "Restrict" <=> kind = "contentType"
BY KindsAssumption DEF DocKind, Slugged, Guarded, OnDelete

LEMMA KindStays ==
    ASSUME kind' = kind
    PROVE  /\ DocKind' = DocKind /\ (Slugged' <=> Slugged) /\ (Guarded' <=> Guarded) /\ OnDelete' = OnDelete
           /\ \A L : MayHang(L)' <=> MayHang(L)
BY DEF DocKind, Slugged, Guarded, OnDelete, MayHang

\* Fewer labels are as good, but for the type of content.
LEMMA HangingLess ==
    ASSUME NEW L, NEW M, M \subseteq L, MayHang(L), kind # "contentType"
    PROVE  MayHang(M)
BY DEF MayHang

LEMMA HangingNone ==
    ASSUME kind # "contentType"
    PROVE  MayHang({})
BY DEF MayHang

----------------------------------------------------------------------------
(* How requests move. *)
LEMMA StepKinds ==
    /\ \A s \in LabelSteps \cup DocSteps : s \notin {"new", "done", "failed"} /\ s \in Steps
    /\ LabelSteps \cap DocSteps = {} /\ "done" \in Steps /\ "failed" \in Steps /\ "new" \in Steps
    /\ "done" \notin LabelSteps \cup DocSteps /\ "failed" \notin LabelSteps \cup DocSteps
    /\ "new" \notin LabelSteps \cup DocSteps
    /\ Steps = {"new", "done", "failed"} \cup LabelSteps \cup DocSteps
BY DEF LabelSteps, DocSteps, Steps

LEMMA Flying ==
    ASSUME at \in [Request -> Steps]
    PROVE  \A o \in Request : o \in InFlight <=> at[o] \in LabelSteps \cup DocSteps
BY StepKinds DEF InFlight

\* The types, but for the requests.
TypedTables ==
    /\ kind \in Kinds /\ labels \in [Label -> LabelRow] /\ docs \in [Doc -> DocRow]
    /\ \A d \in Doc : docs[d].links \subseteq Here
    /\ \A d \in Found : MayHang(docs[d].links)

LEMMA ArriveFrame ==
    ASSUME IInv, NEW o \in Request, NEW q \in Call, NEW step \in LabelSteps \cup DocSteps, Arrive(o, q, step)
    PROVE  /\ at[o] = "new" /\ at' \in [Request -> Steps] /\ req' \in [Request -> Call]
           /\ met' \in [Request -> SUBSET Request]
           /\ at'[o] = step /\ req'[o] = q
           /\ \A p \in Request : p # o => at'[p] = at[p] /\ req'[p] = req[p] /\ met[p] \subseteq met'[p]
           /\ Together'
           /\ kind' = kind /\ labels' = labels /\ docs' = docs
           /\ \A p \in Request, d \in Doc : p # o /\ Overlaps(p, d) => Overlaps(p, d)'
<1>1. /\ at[o] = "new" /\ at' = [at EXCEPT ![o] = step] /\ req' = [req EXCEPT ![o] = q]
      /\ met' = [p \in Request |-> CASE p = o -> InFlight [] p \in InFlight -> met[p] \cup {o} [] OTHER -> met[p]]
      /\ kind' = kind /\ labels' = labels /\ docs' = docs
  BY DEF Arrive
<1>2. at \in [Request -> Steps] /\ met \in [Request -> SUBSET Request] /\ req \in [Request -> Call] /\ Together
  BY TypeParts DEF IInv
<1>3. at' \in [Request -> Steps] /\ req' \in [Request -> Call]  BY <1>1, <1>2, StepKinds
<1>4. InFlight \subseteq Request /\ o \notin InFlight  BY <1>1 DEF InFlight
<1>5. /\ met' \in [Request -> SUBSET Request] /\ met'[o] = InFlight
      /\ \A p \in Request : p # o => met'[p] = IF p \in InFlight THEN met[p] \cup {o} ELSE met[p]
  BY <1>1, <1>2, <1>4
<1>6. InFlight' = InFlight \cup {o}
  BY <1>1, <1>2, StepKinds DEF InFlight
<1>7. /\ at'[o] = step /\ req'[o] = q
      /\ \A p \in Request : p # o => at'[p] = at[p] /\ req'[p] = req[p] /\ met[p] \subseteq met'[p]
  BY <1>1, <1>2, <1>5
<1>8. Together'
  <2>1. \A p, x \in InFlight' : x # p => x \in met'[p]  BY <1>2, <1>4, <1>5, <1>6 DEF Together
  <2>2. ASSUME NEW p \in Request, NEW x \in met'[p]  PROVE at'[x] # "new"
    <3>1. x \in Request  BY <1>5
    <3>2. CASE x = o  BY <1>7, <3>2, StepKinds
    <3>3. CASE x # o
      <4>1. x \in InFlight \/ x \in met[p]  BY <1>5, <3>3
      <4>2. at[x] # "new"  BY <1>2, <4>1 DEF Together, InFlight
      <4> QED  BY <1>7, <3>1, <3>3, <4>2
    <3> QED  BY <3>2, <3>3
  <2> QED  BY <2>1, <2>2 DEF Together
<1>9. ASSUME NEW p \in Request, NEW d \in Doc, p # o, Overlaps(p, d)  PROVE Overlaps(p, d)'
  <2>1. PICK x \in met[p] : req[x].doc = d  BY <1>9 DEF Overlaps
  <2>2. x \in Request /\ x # o  BY <1>1, <1>2, <2>1 DEF Together
  <2> QED  BY <1>7, <1>9, <2>1, <2>2 DEF Overlaps
<1> QED  BY <1>1, <1>3, <1>5, <1>7, <1>8, <1>9

LEMMA TypesNext ==
    TypedTables' /\ req' \in [Request -> Call] => TypeOK'
BY DEF TypedTables, TypeOK

LEMMA TypesNow ==
    TypeOK => TypedTables
BY DEF TypedTables, TypeOK

\* What the others know of labels and documents that stay as they are.
LEMMA Arrived ==
    ASSUME IInv, NEW o \in Request, NEW q \in Call, NEW step \in LabelSteps \cup DocSteps, Arrive(o, q, step),
           q.label \in Here \cup FreshLabel \cup {None}, OnLabel(o)', OnDoc(o)'
    PROVE  IInv'
<1>1. /\ at[o] = "new" /\ at' \in [Request -> Steps] /\ req' \in [Request -> Call] /\ req'[o] = q
      /\ met' \in [Request -> SUBSET Request] /\ Together'
      /\ \A p \in Request : p # o => at'[p] = at[p] /\ req'[p] = req[p]
      /\ kind' = kind /\ labels' = labels /\ docs' = docs
      /\ \A p \in Request, d \in Doc : p # o /\ Overlaps(p, d) => Overlaps(p, d)'
  BY ArriveFrame
<1>2. TypeOK'
  BY <1>1 DEF IInv, TypeOK, Here, Found, MayHang, OnDelete, Guarded
<1>3. /\ DocKind' = DocKind /\ (Slugged' <=> Slugged) /\ (Guarded' <=> Guarded)
      /\ \A L : MayHang(L)' <=> MayHang(L)
  BY <1>1, KindStays
<1> SUFFICES ASSUME NEW p \in Request, p # o  PROVE OnLabel(p)' /\ OnDoc(p)'
  BY <1>1, <1>2 DEF IInv
<1>4. /\ OnLabel(p) /\ OnDoc(p) /\ at'[p] = at[p] /\ req'[p] = req[p]
      /\ req[p].label \in Label \cup {None} /\ req[p].doc \in Doc \cup {None}
  BY <1>1, TypeParts DEF IInv
<1>5. at[p] = "insertLabel" => Reserved(p)'
  <2> SUFFICES ASSUME at[p] = "insertLabel"  PROVE Reserved(p)'
    OBVIOUS
  <2>1. Reserved(p) /\ req[p].label \in Label  BY <1>4 DEF OnLabel, LabelSteps
  <2>2. q.label # req[p].label  BY <2>1, Constants DEF Reserved, Here, FreshLabel
  <2> QED  BY <1>1, <1>4, <2>1, <2>2 DEF Reserved
<1>6. Unused(p) => Unused(p)'  BY <1>1, <1>4 DEF Unused
<1>7. OnLabel(p)'  BY <1>3, <1>4, <1>5, <1>6 DEF OnLabel
<1>8. StillSo(p) => StillSo(p)'  BY <1>1, <1>3, <1>4, Zenon DEF StillSo, AsRead
<1>9. ASSUME at[p] \in DocSteps, Overlaps(p, req[p].doc)  PROVE Overlaps(p, req[p].doc)'
  <2>1. PICK d \in Doc : d = req[p].doc  BY <1>4, <1>9 DEF OnDoc
  <2>2. d = req'[p].doc /\ Overlaps(p, d)'  BY <1>1, <1>4, <1>9, <2>1
  <2> QED  BY <2>2 DEF Overlaps
<1>10. OnDoc(p)'
  <2>1. at[p] \in {"validate", "writeDoc"} => at[p] \in DocSteps  BY DEF DocSteps
  <2> QED  BY <1>3, <1>4, <1>8, <1>9, <2>1 DEF OnDoc
<1> QED  BY <1>7, <1>10

\* A request is answered after it has changed one document, unlinked or added labels.
LEMMA Answered ==
    ASSUME IInv, NEW o \in InFlight, NEW step \in {"done", "failed"}, Answer(o, step), TypedTables',
           \A l \in Label : l # req[o].label /\ labels'[l].here => labels[l].here,
           \A d \in Doc : d # req[o].doc =>
              /\ docs'[d].title = docs[d].title /\ docs'[d].slug = docs[d].slug
              /\ docs'[d].status = docs[d].status /\ docs'[d].links \subseteq docs[d].links
    PROVE  IInv'
<1>1. /\ at' = [at EXCEPT ![o] = step] /\ kind' = kind /\ met' = met
      /\ req' = [req EXCEPT ![o] = [NoCall EXCEPT !.op = req[o].op, !.doc = req[o].doc, !.label = req[o].label]]
  BY DEF Answer, Goes
<1>2. /\ at \in [Request -> Steps] /\ req \in [Request -> Call] /\ met \in [Request -> SUBSET Request]
      /\ o \in Request /\ Together
  BY TypeParts DEF IInv, InFlight
<1>3. PICK r : r = [NoCall EXCEPT !.op = req[o].op, !.doc = req[o].doc, !.label = req[o].label]  OBVIOUS
<1>4. r \in Call /\ r.op = req[o].op /\ r.doc = req[o].doc /\ r.label = req[o].label
  <2>1. req[o].op \in Operations \cup {None} /\ req[o].doc \in Doc \cup {None} /\ req[o].label \in Label \cup {None}
    BY <1>2, TypeParts DEF IInv
  <2> QED  BY <1>3, <2>1, NoCallTypes DEF Call
<1>5. /\ at' \in [Request -> Steps] /\ req' \in [Request -> Call] /\ at'[o] = step /\ req'[o] = r
      /\ \A p \in Request : p # o => at'[p] = at[p] /\ req'[p] = req[p]
  BY <1>1, <1>2, <1>3, <1>4, StepKinds
<1>6. TypeOK'  BY <1>5, TypesNext
<1>7. InFlight' = InFlight \ {o}  BY <1>2, <1>5 DEF InFlight
<1>8. Together'  BY <1>1, <1>2, <1>5, <1>7, StepKinds DEF Together
<1>9. OnLabel(o)' /\ OnDoc(o)'  BY <1>5 DEF OnLabel, OnDoc, LabelSteps, DocSteps
<1>10. /\ DocKind' = DocKind /\ (Slugged' <=> Slugged) /\ (Guarded' <=> Guarded)
       /\ \A L : MayHang(L)' <=> MayHang(L)
  BY <1>1, KindStays
<1>11. \A p \in Request : req'[p].doc = req[p].doc /\ req'[p].label = req[p].label /\ req'[p].op = req[p].op
  BY <1>4, <1>5
<1>12. \A p \in Request, d \in Doc : Overlaps(p, d) <=> Overlaps(p, d)'
  BY <1>1, <1>2, <1>11 DEF Overlaps
<1> SUFFICES ASSUME NEW p \in Request, p # o  PROVE OnLabel(p)' /\ OnDoc(p)'
  BY <1>1, <1>2, <1>5, <1>6, <1>8, <1>9 DEF IInv
<1>13. /\ OnLabel(p) /\ OnDoc(p) /\ at'[p] = at[p] /\ req'[p] = req[p]
       /\ req[p].label \in Label \cup {None} /\ req[p].doc \in Doc \cup {None}
  BY <1>5, TypeParts DEF IInv
<1>14. p \in InFlight => o \in met[p]  BY <1>2 DEF Together
<1>15. at[p] = "insertLabel" => Reserved(p)'
  <2> SUFFICES ASSUME at[p] = "insertLabel"  PROVE Reserved(p)'
    OBVIOUS
  <2>1. Reserved(p) /\ req[p].label \in Label  BY <1>13 DEF OnLabel, LabelSteps
  <2>2. ~labels'[req[p].label].here  BY <1>2, <2>1 DEF Reserved
  <2> QED  BY <1>11, <1>13, <2>1, <2>2 DEF Reserved
<1>16. at[p] = "deleteLabel" /\ Unused(p) => Unused(p)'
  <2> SUFFICES ASSUME at[p] = "deleteLabel", Unused(p), NEW d \in Doc, req[p].label \in docs'[d].links
               PROVE  Overlaps(p, d)'
    BY <1>13 DEF Unused
  <2>1. CASE d = req[o].doc
    <3>1. p \in InFlight  BY StepKinds DEF InFlight, LabelSteps
    <3> QED  BY <1>12, <1>14, <2>1, <3>1 DEF Overlaps
  <2>2. CASE d # req[o].doc
    BY <1>12, <2>2 DEF Unused
  <2> QED  BY <2>1, <2>2
<1>17. OnLabel(p)'  BY <1>10, <1>13, <1>15, <1>16 DEF OnLabel
<1>18. ASSUME at[p] \in DocSteps, Overlaps(p, req[p].doc) \/ StillSo(p)
       PROVE  Overlaps(p, req[p].doc)' \/ StillSo(p)'
  <2>1. req[p].doc \in Doc /\ p \in InFlight  BY <1>13, <1>18, StepKinds DEF OnDoc, InFlight
  <2>2. Overlaps(p, req[p].doc)' <=> Overlaps(p, req[p].doc)
    <3>1. PICK d \in Doc : d = req[p].doc  BY <2>1
    <3>2. req'[p].doc = d  BY <1>13, <3>1
    <3> QED  BY <1>12, <3>1, <3>2 DEF Overlaps
  <2>3. CASE req[p].doc = req[o].doc
    BY <1>14, <2>1, <2>2, <2>3 DEF Overlaps
  <2>4. CASE req[p].doc # req[o].doc
    <3>1. /\ docs'[req[p].doc].title = docs[req[p].doc].title /\ docs'[req[p].doc].slug = docs[req[p].doc].slug
          /\ docs'[req[p].doc].status = docs[req[p].doc].status
      BY <2>1, <2>4
    <3>2. StillSo(p) => StillSo(p)'  BY <1>10, <1>13, <3>1, Zenon DEF StillSo, AsRead
    <3> QED  BY <1>18, <2>2, <3>2
  <2> QED  BY <2>3, <2>4
<1>19. OnDoc(p)'
  <2>1. at[p] \in {"validate", "writeDoc"} => at[p] \in DocSteps  BY DEF DocSteps
  <2> QED  BY <1>10, <1>13, <1>18, <2>1 DEF OnDoc
<1> QED  BY <1>17, <1>19

LEMMA ValidateHolds ==
    ASSUME IInv, NEW o \in Request, Validate(o)
    PROVE  IInv'
<1>1. /\ at[o] = "validate" /\ at' = [at EXCEPT ![o] = IF req[o].op = "createDoc" THEN "insertDoc" ELSE "writeDoc"]
      /\ UNCHANGED <<kind, met, labels, docs, req>>
  BY DEF Validate, Goes
<1>2. at \in [Request -> Steps] /\ TypeOK /\ met \in [Request -> SUBSET Request] /\ Together  BY DEF IInv
<1>3. at'[o] = (IF req[o].op = "createDoc" THEN "insertDoc" ELSE "writeDoc") /\ at'[o] \in DocSteps
      /\ \A p \in Request : p # o => at'[p] = at[p]
  BY <1>1, <1>2 DEF DocSteps
<1>4. at' \in [Request -> Steps]  BY <1>1, <1>2, <1>3, StepKinds DEF DocSteps
<1>5. TypeOK'  BY <1>1, <1>2 DEF TypeOK, Here, Found, MayHang, OnDelete, Guarded
<1>6. InFlight' = InFlight /\ at[o] # "new"  BY <1>1, <1>2, <1>3, StepKinds DEF InFlight
<1>7. Together'  BY <1>1, <1>2, <1>3, <1>6, StepKinds DEF Together
<1>8. /\ DocKind' = DocKind /\ (Slugged' <=> Slugged) /\ (Guarded' <=> Guarded)
      /\ \A L : MayHang(L)' <=> MayHang(L)
  BY <1>1, KindStays
<1>9. ASSUME NEW p \in Request
      PROVE  /\ Reserved(p) => Reserved(p)'
             /\ Unused(p) => Unused(p)'
             /\ StillSo(p) => StillSo(p)'
             /\ Overlaps(p, req[p].doc)' <=> Overlaps(p, req[p].doc)
  <2>1. \A d : Overlaps(p, d)' <=> Overlaps(p, d)  BY <1>1 DEF Overlaps
  <2>2. (Reserved(p) => Reserved(p)') /\ (Unused(p) => Unused(p)')  BY <1>1, <2>1 DEF Reserved, Unused
  <2>3. StillSo(p) => StillSo(p)'  BY <1>1, <1>8, Zenon DEF StillSo, AsRead
  <2>4. Overlaps(p, req[p].doc)' <=> Overlaps(p, req[p].doc)  BY <1>1 DEF Overlaps
  <2> QED  BY <2>2, <2>3, <2>4
<1>10. ASSUME NEW p \in Request  PROVE OnLabel(p)' /\ OnDoc(p)'
  <2>1. OnLabel(p) /\ OnDoc(p)  BY DEF IInv
  <2>2. CASE p # o
    BY <1>1, <1>3, <1>8, <1>9, <2>1, <2>2 DEF OnLabel, OnDoc
  <2>3. CASE p = o
    <3>1. OnLabel(o)'  BY <1>3, <2>1, <2>3 DEF OnLabel, LabelSteps
    <3>2. req[o].op \in {"createDoc", "updateDoc"}  BY <1>1, <2>1, <2>3 DEF OnDoc
    <3>3. OnDoc(o)'
      BY <1>1, <1>3, <1>8, <1>9, <2>1, <2>3, <3>2 DEF OnDoc, DocSteps
    <3> QED  BY <2>3, <3>1, <3>3
  <2> QED  BY <2>2, <2>3
<1> QED  BY <1>1, <1>2, <1>4, <1>5, <1>7, <1>10 DEF IInv

----------------------------------------------------------------------------
(* The arrivals. *)
LEMMA LabelArrives ==
    ASSUME IInv, NEW o \in Request, NEW q \in Call, NEW step \in LabelSteps, Arrive(o, q, step),
           \/ step = "insertLabel" /\ q.op = "createLabel" /\ q.label \in FreshLabel
           \/ step = "writeLabel" /\ q.label \in Here
           \/ /\ step = "deleteLabel" /\ q.label \in Here /\ q.op = "removeLabel"
              /\ Guarded => \A d \in Doc : q.label \notin docs[d].links
    PROVE  IInv'
<1>1. /\ at'[o] = step /\ req'[o] = q /\ kind' = kind /\ labels' = labels /\ docs' = docs
      /\ \A p \in Request : p # o => req'[p] = req[p]
  BY ArriveFrame
<1>2. Guarded' <=> Guarded  BY <1>1, KindStays
<1>3. q.label \in Label  BY DEF FreshLabel, Here
<1>4. step = "insertLabel" => Reserved(o)'  BY <1>1 DEF FreshLabel, Reserved
<1>5. step = "deleteLabel" /\ Guarded => Unused(o)'  BY <1>1 DEF Unused
<1>6. OnLabel(o)'  BY <1>1, <1>2, <1>3, <1>4, <1>5 DEF OnLabel
<1>7. OnDoc(o)'  BY <1>1 DEF OnDoc, LabelSteps, DocSteps
<1> QED  BY <1>6, <1>7, Arrived

LEMMA DocArrives ==
    ASSUME IInv, NEW o \in Request, NEW q \in Call, NEW step \in DocSteps, Arrive(o, q, step),
           q.doc \in Doc, q.slug \in DocSlug, q.label = None,
           \/ step \in {"validate", "insertDoc"} /\ q.op = "createDoc" /\ MayHang(q.links)
           \/ /\ step \in {"validate", "writeDoc"} /\ q.op = "updateDoc"
              /\ "links" \in q.asks => MayHang(q.links)
              /\ AsRead(q)
           \/ /\ step = "writeDoc" /\ q.op = "updateDocStatus"
              /\ DocKind \notin {"submission", "ticket"} /\ q.asks = {"status"}
           \/ step = "deleteDoc"
    PROVE  IInv'
<1>1. /\ at'[o] = step /\ req'[o] = q /\ kind' = kind /\ docs' = docs
  BY ArriveFrame
<1>2. DocKind' = DocKind /\ (Slugged' <=> Slugged) /\ \A L : MayHang(L)' <=> MayHang(L)
  BY <1>1, KindStays
<1>3. OnLabel(o)'  BY <1>1 DEF OnLabel, LabelSteps, DocSteps
<1>4. MayHang(q.links) => MayHang(req[o].links)'  BY <1>1, KindStays DEF MayHang, OnDelete, Guarded
<1>5. AsRead(q) => StillSo(o)'  BY <1>1, <1>2, Zenon DEF AsRead, StillSo
<1>6. OnDoc(o)'
  BY <1>1, <1>2, <1>4, <1>5 DEF OnDoc
<1> QED  BY <1>3, <1>6, Arrived

\* Labels.
LEMMA CreatesLabelHolds ==
    ASSUME IInv, NEW o \in Request, NEW n \in Name, NEW s \in Status, NEW slug \in LabelSlug,
           CreatesLabel(o, n, s, slug)
    PROVE  IInv'
<1>1. PICK l \in FreshLabel :
        Arrive(o, [NoCall EXCEPT !.op = "createLabel", !.label = l, !.title = n, !.status = s, !.slug = slug],
               "insertLabel")
  BY DEF CreatesLabel
<1>2. PICK q : q = [NoCall EXCEPT !.op = "createLabel", !.label = l, !.title = n, !.status = s, !.slug = slug]
  OBVIOUS
<1>3. q.op = "createLabel" /\ q.label = l  BY <1>2, NoCallTypes DEF NoCall
<1>4. "createLabel" \in Operations /\ l \in Label
  BY <1>1, <1>2, <1>3, Zenon DEF Arrive, FreshLabel
<1>5. q \in Call  BY <1>2, <1>4, NoCallTypes DEF Call, LabelSlug, DocSlug
<1>6. Arrive(o, q, "insertLabel") /\ "insertLabel" \in LabelSteps  BY <1>1, <1>2 DEF LabelSteps
<1> QED  BY <1>3, <1>5, <1>6, LabelArrives

LEMMA CreateLabels ==
    ASSUME IInv, NEW o \in Request, CreateCategory(o) \/ CreateContentType(o) \/ CreateOffer(o)
    PROVE  IInv'
<1>1. CASE CreateCategory(o)
  BY <1>1, CreatesLabelHolds, Constants DEF CreateCategory
<1>2. CASE CreateContentType(o)
  BY <1>2, CreatesLabelHolds, Constants DEF CreateContentType
<1>3. CASE CreateOffer(o)
  BY <1>3, CreatesLabelHolds, Constants DEF CreateOffer
<1> QED  BY <1>1, <1>2, <1>3

LEMMA UpdateLabelHolds ==
    ASSUME IInv, NEW o \in Request, UpdateLabel(o)
    PROVE  IInv'
<1>1. PICK l \in Here, n \in Titles, s \in States, asks \in SUBSET {"title", "status"} :
        Arrive(o, [NoCall EXCEPT !.op = "updateLabel", !.label = l, !.asks = asks, !.title = n, !.status = s,
                                 !.slug = IF n = labels[l].name THEN labels[l].slug ELSE SlugOfName(n)],
               "writeLabel")
  BY DEF UpdateLabel
<1>2. PICK slug : slug = IF n = labels[l].name THEN labels[l].slug ELSE SlugOfName(n)  OBVIOUS
<1>3. PICK q : q = [NoCall EXCEPT !.op = "updateLabel", !.label = l, !.asks = asks, !.title = n, !.status = s,
                                  !.slug = slug]
  OBVIOUS
<1>4. l \in Label /\ slug \in LabelSlug /\ n \in Name /\ s \in Status
  BY <1>2, TypeParts, Constants DEF Here, IInv
<1>5. q.op = "updateLabel" /\ q.label = l  BY <1>3 DEF NoCall
<1>6. Arrive(o, q, "writeLabel") /\ "writeLabel" \in LabelSteps  BY <1>1, <1>2, <1>3 DEF LabelSteps
<1>7. "updateLabel" \in Operations  BY <1>5, <1>6 DEF Arrive
<1>8. q \in Call  BY <1>3, <1>4, <1>7, NoCallTypes DEF Call, LabelSlug, DocSlug
<1> QED  BY <1>5, <1>6, <1>8, LabelArrives

LEMMA UpdateLabelStatusHolds ==
    ASSUME IInv, NEW o \in Request, UpdateLabelStatus(o)
    PROVE  IInv'
<1>1. PICK l \in Here, s \in Status :
        Arrive(o, [NoCall EXCEPT !.op = "updateLabelStatus", !.label = l, !.asks = {"status"}, !.status = s], "writeLabel")
  BY DEF UpdateLabelStatus
<1>2. PICK q : q = [NoCall EXCEPT !.op = "updateLabelStatus", !.label = l, !.asks = {"status"}, !.status = s]
  OBVIOUS
<1>3. l \in Label /\ q.op = "updateLabelStatus" /\ q.label = l  BY <1>2 DEF NoCall, Here
<1>4. Arrive(o, q, "writeLabel") /\ "writeLabel" \in LabelSteps  BY <1>1, <1>2 DEF LabelSteps
<1>5. "updateLabelStatus" \in Operations  BY <1>3, <1>4 DEF Arrive
<1>6. q \in Call  BY <1>2, <1>3, <1>5, NoCallTypes DEF Call
<1> QED  BY <1>3, <1>4, <1>6, LabelArrives

LEMMA RemoveLabelHolds ==
    ASSUME IInv, NEW o \in Request, RemoveCategory(o) \/ RemoveUnguarded(o)
    PROVE  IInv'
<1>1. PICK l \in Here : RemovesLabel(o, l) /\ (Guarded => \A d \in Doc : l \notin docs[d].links)
  BY DEF RemoveCategory, RemoveUnguarded
<1>2. PICK q : q = [NoCall EXCEPT !.op = "removeLabel", !.label = l]  OBVIOUS
<1>3. l \in Label /\ q.op = "removeLabel" /\ q.label = l  BY <1>2 DEF NoCall, Here
<1>4. Arrive(o, q, "deleteLabel") /\ "deleteLabel" \in LabelSteps  BY <1>1, <1>2 DEF LabelSteps, RemovesLabel
<1>5. "removeLabel" \in Operations  BY <1>3, <1>4 DEF Arrive
<1>6. q \in Call  BY <1>2, <1>3, <1>5, NoCallTypes DEF Call
<1> QED  BY <1>1, <1>3, <1>4, <1>6, LabelArrives

\* Documents.
LEMMA CreatesDocHolds ==
    ASSUME IInv, NEW o \in Request, NEW n \in Name, NEW L \in SUBSET Label, NEW s \in Status, CreatesDoc(o, n, L, s)
    PROVE  IInv'
<1>1. PICK d \in FreshDoc :
        Arrive(o, [NoCall EXCEPT !.op = "createDoc", !.doc = d, !.title = n, !.slug = SlugOf[n],
                                 !.links = L, !.status = s], "validate")
  BY DEF CreatesDoc
<1>2. PICK q : q = [NoCall EXCEPT !.op = "createDoc", !.doc = d, !.title = n, !.slug = SlugOf[n],
                                  !.links = L, !.status = s]
  OBVIOUS
<1>3. d \in Doc /\ q.op = "createDoc" /\ q.doc = d /\ q.slug = SlugOf[n] /\ q.links = L /\ q.label = None
  BY <1>2 DEF NoCall, FreshDoc
<1>4. Arrive(o, q, "validate") /\ "validate" \in DocSteps  BY <1>1, <1>2 DEF DocSteps
<1>5. "createDoc" \in Operations  BY <1>3, <1>4 DEF Arrive
<1>6. q \in Call  BY <1>2, <1>3, <1>5, NoCallTypes, Constants DEF Call, DocSlug
<1>7. MayHang(L)  BY DEF CreatesDoc
<1> QED  BY <1>3, <1>4, <1>6, <1>7, Constants, DocArrives

LEMMA CreateDocs ==
    ASSUME IInv, NEW o \in Request, CreateContent(o) \/ CreateInsight(o) \/ CreateService(o) \/ CreateSubmission(o)
    PROVE  IInv'
<1>1. CASE CreateContent(o)  BY <1>1, CreatesDocHolds DEF CreateContent
<1>2. CASE CreateInsight(o)  BY <1>2, CreatesDocHolds DEF CreateInsight
<1>3. CASE CreateService(o)  BY <1>3, CreatesDocHolds, Constants DEF CreateService
<1>4. CASE CreateSubmission(o)  BY <1>4, CreatesDocHolds, Constants DEF CreateSubmission
<1> QED  BY <1>1, <1>2, <1>3, <1>4

LEMMA CreateTicketHolds ==
    ASSUME IInv, NEW o \in Request, CreateTicket(o)
    PROVE  IInv'
<1>1. PICK d \in FreshDoc : Arrive(o, [NoCall EXCEPT !.op = "createDoc", !.doc = d], "insertDoc")
  BY DEF CreateTicket
<1>2. PICK q : q = [NoCall EXCEPT !.op = "createDoc", !.doc = d]  OBVIOUS
<1>3. d \in Doc /\ q.op = "createDoc" /\ q.doc = d /\ q.slug = SlugOf[Plain] /\ q.links = {} /\ q.label = None
  BY <1>2 DEF NoCall, FreshDoc
<1>4. Arrive(o, q, "insertDoc") /\ "insertDoc" \in DocSteps  BY <1>1, <1>2 DEF DocSteps
<1>5. "createDoc" \in Operations  BY <1>3, <1>4 DEF Arrive
<1>6. q \in Call  BY <1>2, <1>3, <1>5, NoCallTypes DEF Call
<1>7. MayHang({})  BY DocKinds, TypeParts, HangingNone DEF CreateTicket, IInv
<1> QED  BY <1>3, <1>4, <1>6, <1>7, Constants, DocArrives

LEMMA UpdatesHolds ==
    ASSUME IInv, NEW o \in Request, NEW d \in Found, NEW asks \in SUBSET {"title", "links", "status"},
           NEW n \in Name, NEW slug \in DocSlug, NEW L \in SUBSET Label, NEW s \in Status,
           NEW step \in {"validate", "writeDoc"}, Updates(o, d, asks, n, slug, L, s, step), DocKind # "ticket",
           Slugged => \/ slug = docs[d].slug /\ n = docs[d].title
                      \/ slug = SlugOf[n] /\ "title" \in asks
    PROVE  IInv'
<1>1. PICK q : q = [NoCall EXCEPT !.op = "updateDoc", !.doc = d, !.asks = asks, !.title = n,
                                  !.slug = slug, !.links = L, !.status = s]
  OBVIOUS
<1>2. /\ d \in Doc /\ q.op = "updateDoc" /\ q.doc = d /\ q.slug = slug /\ q.links = L /\ q.label = None
      /\ q.asks = asks /\ q.title = n /\ q.status = s
  BY <1>1 DEF NoCall, Found
<1>3. Arrive(o, q, step) /\ step \in DocSteps  BY <1>1 DEF DocSteps, Updates
<1>4. "updateDoc" \in Operations  BY <1>2, <1>3 DEF Arrive
<1>5. q \in Call  BY <1>1, <1>2, <1>4, NoCallTypes DEF Call, DocSlug
<1>6. AsRead(q)  BY <1>2 DEF AsRead, Updates
<1>7. "links" \in asks => MayHang(L)  BY DEF Updates
<1> QED  BY <1>2, <1>3, <1>5, <1>6, <1>7, DocArrives

LEMMA UpdateDocs ==
    ASSUME IInv, NEW o \in Request, UpdateContent(o) \/ UpdateService(o) \/ UpdateSubmission(o)
    PROVE  IInv'
<1> USE DEF IInv
<1>1. CASE UpdateContent(o)
  <2>1. PICK d \in Found, asks \in SUBSET {"title", "links", "status"}, n \in Name, L \in SUBSET Label, s \in Status :
          Updates(o, d, asks, n, IF "title" \in asks /\ n # docs[d].title THEN SlugOf[n] ELSE docs[d].slug, L, s, "validate")
    BY <1>1 DEF UpdateContent
  <2>2. PICK slug : slug = IF "title" \in asks /\ n # docs[d].title THEN SlugOf[n] ELSE docs[d].slug  OBVIOUS
  <2>3. Updates(o, d, asks, n, slug, L, s, "validate")  BY <2>1, <2>2
  <2>4. slug \in DocSlug  BY <2>2, TypeParts, Constants DEF Found
  <2>5. \/ slug = docs[d].slug /\ n = docs[d].title
        \/ slug = SlugOf[n] /\ "title" \in asks
    BY <2>2, <2>3 DEF Updates
  <2>6. DocKind # "ticket"  BY <1>1, TypeParts, DocKinds DEF UpdateContent
  <2> QED  BY <2>3, <2>4, <2>5, <2>6, UpdatesHolds
<1>2. CASE UpdateService(o)
  <2>1. PICK d \in Found, asks \in SUBSET {"links", "status"}, L \in SUBSET Label, s \in Status :
          Updates(o, d, asks, Plain, docs[d].slug, L, s, "validate")
    BY <1>2 DEF UpdateService
  <2>2. docs[d].slug \in DocSlug /\ asks \in SUBSET {"title", "links", "status"}  BY TypeParts DEF Found
  <2>3. DocKind # "ticket" /\ ~Slugged  BY <1>2, TypeParts, DocKinds DEF UpdateService
  <2> QED  BY <2>1, <2>2, <2>3, UpdatesHolds, Constants
<1>3. CASE UpdateSubmission(o)
  <2>1. PICK d \in Found, asks \in SUBSET {"status"}, s \in Status :
          Updates(o, d, asks, Plain, docs[d].slug, {}, s, "writeDoc")
    BY <1>3 DEF UpdateSubmission
  <2>2. docs[d].slug \in DocSlug /\ asks \in SUBSET {"title", "links", "status"}  BY TypeParts DEF Found
  <2>3. DocKind # "ticket" /\ ~Slugged  BY <1>3, TypeParts, DocKinds DEF UpdateSubmission
  <2> QED  BY <2>1, <2>2, <2>3, UpdatesHolds, Constants
<1> QED  BY <1>1, <1>2, <1>3

LEMMA UpdateTicketHolds ==
    ASSUME IInv, NEW o \in Request, UpdateTicket(o)
    PROVE  IInv'
<1>1. PICK d \in Found, asks \in SUBSET {"status"}, s \in Status :
        /\ "status" \notin asks => s = docs[d].status
        /\ Arrive(o, [NoCall EXCEPT !.op = "updateDoc", !.doc = d, !.asks = asks, !.status = s,
                                    !.changes = s # docs[d].status], "writeDoc")
  BY DEF UpdateTicket
<1>2. PICK q : q = [NoCall EXCEPT !.op = "updateDoc", !.doc = d, !.asks = asks, !.status = s,
                                  !.changes = s # docs[d].status]
  OBVIOUS
<1>3. /\ d \in Doc /\ q.op = "updateDoc" /\ q.doc = d /\ q.slug = SlugOf[Plain] /\ q.links = {} /\ q.label = None
      /\ q.asks = asks /\ q.status = s /\ q.changes = (s # docs[d].status)
  BY <1>2 DEF NoCall, Found
<1>4. Arrive(o, q, "writeDoc") /\ "writeDoc" \in DocSteps  BY <1>1, <1>2 DEF DocSteps
<1>5. "updateDoc" \in Operations  BY <1>3, <1>4 DEF Arrive
<1>6. (s # docs[d].status) \in BOOLEAN  OBVIOUS
<1>7. q \in Call  BY <1>2, <1>3, <1>5, <1>6, NoCallTypes DEF Call
<1>8. ~Slugged  BY TypeParts, DocKinds DEF UpdateTicket, IInv
<1>9. AsRead(q)  BY <1>1, <1>3, <1>8, Zenon DEF AsRead
<1>10. "links" \notin q.asks  BY <1>3
<1> QED  BY <1>3, <1>4, <1>7, <1>9, <1>10, Constants, DocArrives

LEMMA UpdateDocStatusHolds ==
    ASSUME IInv, NEW o \in Request, UpdateDocStatus(o)
    PROVE  IInv'
<1>1. PICK d \in Found, s \in Status :
        Arrive(o, [NoCall EXCEPT !.op = "updateDocStatus", !.doc = d, !.asks = {"status"}, !.status = s], "writeDoc")
  BY DEF UpdateDocStatus
<1>2. PICK q : q = [NoCall EXCEPT !.op = "updateDocStatus", !.doc = d, !.asks = {"status"}, !.status = s]
  OBVIOUS
<1>3. /\ d \in Doc /\ q.op = "updateDocStatus" /\ q.doc = d /\ q.slug = SlugOf[Plain] /\ q.label = None
      /\ q.asks = {"status"}
  BY <1>2 DEF NoCall, Found
<1>4. Arrive(o, q, "writeDoc") /\ "writeDoc" \in DocSteps  BY <1>1, <1>2 DEF DocSteps
<1>5. "updateDocStatus" \in Operations  BY <1>3, <1>4 DEF Arrive
<1>6. q \in Call  BY <1>2, <1>3, <1>5, NoCallTypes DEF Call
<1>7. DocKind \notin {"submission", "ticket"}  BY DEF UpdateDocStatus
<1> QED  BY <1>3, <1>4, <1>6, <1>7, Constants, DocArrives

LEMMA RemoveDocHolds ==
    ASSUME IInv, NEW o \in Request, RemoveDoc(o)
    PROVE  IInv'
<1>1. PICK d \in Found : Arrive(o, [NoCall EXCEPT !.op = "removeDoc", !.doc = d], "deleteDoc")
  BY DEF RemoveDoc
<1>2. PICK q : q = [NoCall EXCEPT !.op = "removeDoc", !.doc = d]  OBVIOUS
<1>3. d \in Doc /\ q.op = "removeDoc" /\ q.doc = d /\ q.slug = SlugOf[Plain] /\ q.label = None
  BY <1>2 DEF NoCall, Found
<1>4. Arrive(o, q, "deleteDoc") /\ "deleteDoc" \in DocSteps  BY <1>1, <1>2 DEF DocSteps
<1>5. "removeDoc" \in Operations  BY <1>3, <1>4 DEF Arrive
<1>6. q \in Call  BY <1>2, <1>3, <1>5, NoCallTypes DEF Call
<1> QED  BY <1>3, <1>4, <1>6, Constants, DocArrives

----------------------------------------------------------------------------
(* The writes. *)
LEMMA Busy ==
    ASSUME IInv, NEW o \in Request, at[o] \in LabelSteps \cup DocSteps
    PROVE  o \in InFlight
BY StepKinds DEF InFlight

\* The tables keep their types when one document is written.
LEMMA DocWritten ==
    ASSUME IInv, NEW d \in Doc, NEW r \in DocRow, docs' = [docs EXCEPT ![d] = r], kind' = kind, labels' = labels,
           r.links \subseteq Here, r.here /\ ~r.deleted => MayHang(r.links)
    PROVE  /\ TypedTables'
           /\ docs'[d] = r /\ \A e \in Doc : e # d => docs'[e] = docs[e]
<1>1. TypedTables /\ docs \in [Doc -> DocRow]  BY TypesNow DEF IInv, TypedTables
<1>2. docs' \in [Doc -> DocRow] /\ docs'[d] = r /\ \A e \in Doc : e # d => docs'[e] = docs[e]
  BY <1>1
<1>3. Here' = Here  BY DEF Here
<1>4. \A e \in Doc : docs'[e].links \subseteq Here'  BY <1>1, <1>2, <1>3 DEF TypedTables
<1>5. \A L : MayHang(L)' <=> MayHang(L)  BY KindStays
<1>6. ASSUME NEW e \in Found'  PROVE MayHang(docs'[e].links)
  <2>1. CASE e = d  BY <1>2, <1>6, <2>1 DEF Found
  <2>2. CASE e # d
    <3>1. e \in Found /\ docs'[e] = docs[e]  BY <1>2, <1>6, <2>2 DEF Found
    <3> QED  BY <1>1, <3>1 DEF TypedTables
  <2> QED  BY <2>1, <2>2
<1>7. \A e \in Found' : MayHang(docs[e].links)'
  BY <1>6 DEF MayHang, OnDelete, Guarded
<1> QED  BY <1>1, <1>2, <1>4, <1>7 DEF TypedTables

\* The same of one label, which stays or comes.
LEMMA LabelWritten ==
    ASSUME IInv, NEW l \in Label, NEW r \in LabelRow, r.here, labels' = [labels EXCEPT ![l] = r],
           kind' = kind, docs' = docs
    PROVE  TypedTables' /\ labels'[l] = r /\ \A k \in Label : k # l => labels'[k] = labels[k]
<1>1. TypedTables /\ labels \in [Label -> LabelRow]  BY TypesNow DEF IInv, TypedTables
<1>2. labels' \in [Label -> LabelRow] /\ labels'[l] = r /\ \A k \in Label : k # l => labels'[k] = labels[k]
  BY <1>1
<1>3. Here \subseteq Here'  BY <1>2 DEF Here
<1>4. \A d \in Found' : MayHang(docs[d].links)'
  BY <1>1 DEF TypedTables, Found, MayHang, OnDelete, Guarded
<1> QED  BY <1>1, <1>2, <1>3, <1>4 DEF TypedTables

LEMMA InsertLabelHolds ==
    ASSUME IInv, NEW o \in Request, InsertLabel(o)
    PROVE  IInv'
<1>1. at[o] = "insertLabel" /\ o \in InFlight /\ req[o].label \in Label
  BY Busy DEF InsertLabel, LabelSteps, IInv, OnLabel
<1>2. PICK r : r = InsertedLabel(req[o])  OBVIOUS
<1>3. r \in LabelRow /\ r.here
  BY <1>2, TypeParts DEF IInv, InsertedLabel, LabelRow, LabelSlug, DocSlug
<1>4. /\ labels' = [labels EXCEPT ![req[o].label] = r] /\ docs' = docs /\ kind' = kind /\ Answer(o, "done")
  BY <1>2 DEF InsertLabel, Answer, Goes
<1>5. TypedTables' /\ \A k \in Label : k # req[o].label => labels'[k] = labels[k]
  BY <1>1, <1>3, <1>4, LabelWritten
<1> QED  BY <1>1, <1>4, <1>5, Answered

LEMMA WriteLabelHolds ==
    ASSUME IInv, NEW o \in Request, WriteLabel(o)
    PROVE  IInv'
<1>1. at[o] = "writeLabel" /\ o \in InFlight /\ req[o].label \in Label
  BY Busy DEF WriteLabel, LabelSteps, IInv, OnLabel
<1>2. PICK r : r = Written(labels[req[o].label], req[o])  OBVIOUS
<1>3. r \in LabelRow /\ r.here
  BY <1>1, <1>2, TypeParts DEF IInv, Written, LabelRow, LabelSlug, DocSlug
<1>4. /\ labels' = [labels EXCEPT ![req[o].label] = r] /\ docs' = docs /\ kind' = kind /\ Answer(o, "done")
  BY <1>2 DEF WriteLabel, Answer, Goes
<1>5. TypedTables' /\ \A k \in Label : k # req[o].label => labels'[k] = labels[k]
  BY <1>1, <1>3, <1>4, LabelWritten
<1> QED  BY <1>1, <1>4, <1>5, Answered

\* What the foreign key leaves of each document.
LEMMA UnlinkedDocs ==
    ASSUME IInv, NEW l \in Label, docs' = Unlinked(l)
    PROVE  /\ docs' \in [Doc -> DocRow]
           /\ \A d \in Doc : /\ docs'[d].links = docs[d].links \ {l}
                             /\ docs'[d].title = docs[d].title /\ docs'[d].slug = docs[d].slug
                             /\ docs'[d].status = docs[d].status /\ docs'[d].told = docs[d].told
                             /\ docs'[d].here = docs[d].here /\ docs'[d].deleted = docs[d].deleted
<1>1. \A d \in Doc : docs[d] \in DocRow  BY TypeParts DEF IInv
<1>2. \A d \in Doc : docs'[d] = [docs[d] EXCEPT !.links = @ \ {l}]  BY DEF Unlinked
<1>3. ASSUME NEW d \in Doc
      PROVE  /\ docs'[d] \in DocRow /\ docs'[d].links = docs[d].links \ {l}
             /\ docs'[d].title = docs[d].title /\ docs'[d].slug = docs[d].slug
             /\ docs'[d].status = docs[d].status /\ docs'[d].told = docs[d].told
             /\ docs'[d].here = docs[d].here /\ docs'[d].deleted = docs[d].deleted
  <2>1. PICK r : r = [docs[d] EXCEPT !.links = docs[d].links \ {l}]  OBVIOUS
  <2>2. docs'[d] = r  BY <1>2, <2>1
  <2>3. docs[d] \in DocRow /\ docs[d].links \ {l} \subseteq Label  BY <1>1, TypeParts DEF IInv
  <2>4. /\ r.links = docs[d].links \ {l} /\ r.title = docs[d].title /\ r.slug = docs[d].slug
        /\ r.status = docs[d].status /\ r.told = docs[d].told
        /\ r.here = docs[d].here /\ r.deleted = docs[d].deleted
    BY <2>1, <2>3 DEF DocRow
  <2>5. r \in DocRow  BY <2>1, <2>3 DEF DocRow
  <2> QED  BY <2>2, <2>4, <2>5
<1>4. docs' \in [Doc -> DocRow]  BY <1>3 DEF Unlinked
<1> QED  BY <1>3, <1>4

LEMMA DeleteLabelHolds ==
    ASSUME IInv, NEW o \in Request, DeleteLabel(o)
    PROVE  IInv'
<1>1. at[o] = "deleteLabel" /\ o \in InFlight /\ req[o].label \in Label
  BY Busy DEF DeleteLabel, LabelSteps, IInv, OnLabel
<1>2. PICK l \in Label : l = req[o].label  BY <1>1
<1>3. /\ labels' = [labels EXCEPT ![l].here = FALSE] /\ docs' = Unlinked(l) /\ kind' = kind /\ Answer(o, "done")
      /\ OnDelete = "Restrict" => \A d \in Doc : l \notin docs[d].links
  BY <1>2 DEF DeleteLabel, Answer, Goes
<1>4. TypedTables /\ labels \in [Label -> LabelRow]  BY TypesNow DEF IInv, TypedTables
<1>5. labels[l] \in LabelRow  BY <1>4
<1>6. PICK r : r = [labels[l] EXCEPT !.here = FALSE]  OBVIOUS
<1>7. r \in LabelRow /\ ~r.here  BY <1>5, <1>6 DEF LabelRow
<1>8. labels' \in [Label -> LabelRow] /\ labels'[l] = r /\ \A k \in Label : k # l => labels'[k] = labels[k]
  BY <1>3, <1>4, <1>6, <1>7
<1>9. Here' = Here \ {l}  BY <1>7, <1>8 DEF Here
<1>10. /\ docs' \in [Doc -> DocRow]
       /\ \A d \in Doc : /\ docs'[d].links = docs[d].links \ {l}
                         /\ docs'[d].title = docs[d].title /\ docs'[d].slug = docs[d].slug
                         /\ docs'[d].status = docs[d].status
                         /\ docs'[d].here = docs[d].here /\ docs'[d].deleted = docs[d].deleted
  BY <1>3, UnlinkedDocs
<1>11. \A L : MayHang(L)' <=> MayHang(L)  BY <1>3, KindStays
<1>12. ASSUME NEW d \in Found'  PROVE MayHang(docs'[d].links)
  <2>1. d \in Found /\ d \in Doc  BY <1>10, <1>12 DEF Found
  <2>2. MayHang(docs[d].links)  BY <1>4, <2>1 DEF TypedTables
  <2>3. CASE kind = "contentType"
    <3>1. l \notin docs[d].links  BY <1>3, <2>1, <2>3 DEF OnDelete, Guarded
    <3>2. docs'[d].links = docs[d].links  BY <1>10, <2>1, <3>1
    <3> QED  BY <2>2, <3>2
  <2>4. CASE kind # "contentType"  BY <1>10, <2>1, <2>2, <2>4, HangingLess
  <2> QED  BY <2>3, <2>4
<1>13. \A d \in Found' : MayHang(docs[d].links)'
  BY <1>3, <1>12 DEF MayHang, OnDelete, Guarded
<1>14. TypedTables'
  BY <1>3, <1>4, <1>8, <1>9, <1>10, <1>13 DEF TypedTables
<1> QED  BY <1>1, <1>2, <1>3, <1>8, <1>10, <1>14, Answered

LEMMA InsertDocHolds ==
    ASSUME IInv, NEW o \in Request, InsertDoc(o)
    PROVE  IInv'
<1>1. /\ at[o] = "insertDoc" /\ o \in InFlight /\ req[o].doc \in Doc /\ req[o].slug \in DocSlug
      /\ req[o].op = "createDoc" /\ MayHang(req[o].links)
  BY Busy DEF InsertDoc, DocSteps, IInv, OnDoc
<1>2. PICK r : r = Inserted(req[o])  OBVIOUS
<1>3. r \in DocRow /\ r.links = req[o].links
  BY <1>1, <1>2, TypeParts, Constants DEF IInv, Inserted, DocRow, DocSlug
<1>4. /\ docs' = [docs EXCEPT ![req[o].doc] = r] /\ labels' = labels /\ kind' = kind /\ Answer(o, "done")
      /\ r.links \subseteq Here
  BY <1>2, <1>3 DEF InsertDoc, Answer, Goes
<1>5. TypedTables' /\ \A e \in Doc : e # req[o].doc => docs'[e] = docs[e]
  BY <1>1, <1>3, <1>4, DocWritten
<1> QED  BY <1>1, <1>4, <1>5, Answered

\* What each service leaves of the row r of a document.
LEMMA EditedRow ==
    ASSUME NEW r \in DocRow, NEW q \in Call, q.slug \in DocSlug
    PROVE  LET e == Edited(r, q)
           IN  /\ e \in DocRow /\ e.here /\ e.deleted = r.deleted /\ e.told = r.told /\ e.slug = q.slug
               /\ e.title = IF "title" \in q.asks THEN q.title ELSE r.title
               /\ e.status = IF "status" \in q.asks THEN q.status ELSE r.status
               /\ e.links = IF "links" \in q.asks THEN q.links ELSE r.links
BY DEF Edited, DocRow, Call, DocSlug

LEMMA EditedServiceRow ==
    ASSUME NEW r \in DocRow, NEW q \in Call
    PROVE  LET e == EditedService(r, q)
           IN  /\ e \in DocRow /\ e.here = r.here /\ e.deleted = r.deleted /\ e.told = r.told
               /\ e.title = r.title /\ e.slug = r.slug
               /\ e.status = IF "status" \in q.asks THEN q.status ELSE r.status
               /\ e.links = IF "links" \in q.asks THEN q.links ELSE r.links
<1>1. PICK s \in Status : s = IF "status" \in q.asks THEN q.status ELSE r.status  BY DEF DocRow, Call
<1>2. PICK L \in SUBSET Label : L = IF "links" \in q.asks THEN q.links ELSE r.links  BY DEF DocRow, Call
<1>3. EditedService(r, q) = [r EXCEPT !.status = s, !.links = L]  BY <1>1, <1>2 DEF EditedService, DocRow
<1>4. PICK e : e = [r EXCEPT !.status = s, !.links = L]  OBVIOUS
<1>5. /\ e \in DocRow /\ e.here = r.here /\ e.deleted = r.deleted /\ e.told = r.told
      /\ e.title = r.title /\ e.slug = r.slug /\ e.status = s /\ e.links = L
  BY <1>4 DEF DocRow
<1> QED  BY <1>1, <1>2, <1>3, <1>4, <1>5

LEMMA StatusRow ==
    ASSUME NEW r \in DocRow, NEW s \in Status
    PROVE  LET e == [r EXCEPT !.status = s]
           IN  /\ e \in DocRow /\ e.here = r.here /\ e.deleted = r.deleted /\ e.told = r.told
               /\ e.title = r.title /\ e.slug = r.slug /\ e.status = s /\ e.links = r.links
<1>1. PICK e : e = [r EXCEPT !.status = s]  OBVIOUS
<1> QED  BY <1>1 DEF DocRow

LEMMA EditedTicketRow ==
    ASSUME NEW r \in DocRow, NEW q \in Call
    PROVE  LET e == EditedTicket(r, q)
           IN  /\ e \in DocRow /\ e.here = r.here /\ e.deleted = r.deleted
               /\ e.title = r.title /\ e.slug = r.slug /\ e.status = q.status /\ e.links = r.links
               /\ e.told = IF q.changes THEN q.status ELSE r.told
<1>1. PICK t \in Status : t = IF q.changes THEN q.status ELSE r.told  BY DEF DocRow, Call
<1>2. q.status \in Status  BY DEF Call
<1>3. EditedTicket(r, q) = [r EXCEPT !.status = q.status, !.told = t]  BY <1>1 DEF EditedTicket, DocRow
<1>4. PICK e : e = [r EXCEPT !.status = q.status, !.told = t]  OBVIOUS
<1>5. /\ e \in DocRow /\ e.here = r.here /\ e.deleted = r.deleted /\ e.told = t
      /\ e.title = r.title /\ e.slug = r.slug /\ e.status = q.status /\ e.links = r.links
  BY <1>2, <1>4 DEF DocRow
<1> QED  BY <1>1, <1>3, <1>4, <1>5

\* The row that a request about to write leaves, r being the one that is there.
LEMMA RowParts ==
    ASSUME IInv, NEW o \in Request, at[o] = "writeDoc", docs[req[o].doc].here
    PROVE  LET q == req[o]
               r == docs[q.doc]
               e == Row(q)
           IN  /\ e \in DocRow /\ e.here /\ e.deleted = r.deleted
               /\ \/ e.links = r.links
                  \/ e.links = q.links /\ MayHang(q.links)
               /\ q.op = "updateDocStatus" \/ StillSo(o) =>
                     /\ "title" \notin q.asks => e.slug = r.slug
                     /\ "status" \notin q.asks => e.status = r.status
                     /\ e.slug = SlugOf[e.title] \/ r.slug # SlugOf[r.title]
                     /\ kind = "ticket" /\ r.told = r.status => e.told = e.status
<1>1. PICK q \in Call : q = req[o]  BY TypeParts DEF IInv
<1>2. PICK d \in Doc : d = q.doc  BY <1>1 DEF IInv, OnDoc, DocSteps
<1>3. PICK r \in DocRow : r = docs[d]  BY TypeParts DEF IInv
<1>4. /\ q.slug \in DocSlug
      /\ \/ q.op = "updateDoc"
         \/ q.op = "updateDocStatus" /\ DocKind \notin {"submission", "ticket"} /\ q.asks = {"status"}
      /\ q.op = "updateDoc" => ("links" \in q.asks => MayHang(q.links))
  BY <1>1 DEF IInv, OnDoc, DocSteps
<1>5. r.here /\ kind \in Kinds /\ q.status \in Status /\ q.changes \in BOOLEAN
  BY <1>1, <1>2, <1>3, TypeParts DEF IInv
<1>6. PICK e : e = Row(q)  OBVIOUS
<1>7. kind = "ticket" => DocKind = "ticket"  BY <1>5, DocKinds
<1>8. StillSo(o) =>
         /\ Slugged => \/ q.slug = r.slug /\ q.title = r.title
                       \/ q.slug = SlugOf[q.title] /\ "title" \in q.asks
         /\ "status" \notin q.asks => q.status = r.status
         /\ DocKind = "ticket" => (q.changes <=> q.status # r.status)
  BY <1>1, <1>2, <1>3, Zenon DEF StillSo, AsRead
<1> SUFFICES /\ e \in DocRow /\ e.here /\ e.deleted = r.deleted
             /\ \/ e.links = r.links
                \/ e.links = q.links /\ MayHang(q.links)
             /\ q.op = "updateDocStatus" \/ StillSo(o) =>
                   /\ "title" \notin q.asks => e.slug = r.slug
                   /\ "status" \notin q.asks => e.status = r.status
                   /\ e.slug = SlugOf[e.title] \/ r.slug # SlugOf[r.title]
                   /\ kind = "ticket" /\ r.told = r.status => e.told = e.status
  BY <1>1, <1>2, <1>3, <1>6
<1>9. CASE q.op = "updateDocStatus"
  <2>1. e = [r EXCEPT !.status = q.status]  BY <1>2, <1>3, <1>6, <1>9 DEF Row
  <2>2. /\ e \in DocRow /\ e.here = r.here /\ e.deleted = r.deleted
        /\ e.title = r.title /\ e.slug = r.slug /\ e.links = r.links
    BY <1>5, <2>1, StatusRow
  <2>3. q.asks = {"status"} /\ kind # "ticket"  BY <1>4, <1>7, <1>9
  <2> QED  BY <1>5, <2>2, <2>3
<1>10. CASE q.op = "updateDoc"
  <2>0. q.op # "updateDocStatus"  BY <1>10
  <2>1. DocKind \in {"content", "insight", "service", "ticket", "submission"}
        /\ (Slugged <=> DocKind \in {"content", "insight"}) /\ (kind = "ticket" <=> DocKind = "ticket")
    BY <1>5, DocKinds
  <2>2. CASE Slugged
    <3>1. e = Edited(r, q)  BY <1>2, <1>3, <1>6, <2>0, <2>1, <2>2 DEF Row
    <3>2. /\ e \in DocRow /\ e.here /\ e.deleted = r.deleted /\ e.told = r.told /\ e.slug = q.slug
          /\ e.title = IF "title" \in q.asks THEN q.title ELSE r.title
          /\ e.status = IF "status" \in q.asks THEN q.status ELSE r.status
          /\ e.links = IF "links" \in q.asks THEN q.links ELSE r.links
      BY <1>4, <3>1, EditedRow
    <3>3. kind # "ticket"  BY <2>1, <2>2
    <3>4. e.links = r.links \/ (e.links = q.links /\ MayHang(q.links))
      <4>1. CASE "links" \in q.asks
        <5>1. MayHang(q.links)  BY <1>4, <1>10, <4>1
        <5>2. e.links = q.links  BY <3>2, <4>1
        <5> QED  BY <5>1, <5>2
      <4>2. CASE "links" \notin q.asks  BY <3>2, <4>2
      <4> QED  BY <4>1, <4>2
    <3>5. ASSUME StillSo(o)
          PROVE  /\ "title" \notin q.asks => e.slug = r.slug
                 /\ e.slug = SlugOf[e.title] \/ r.slug # SlugOf[r.title]
      <4>1. \/ q.slug = r.slug /\ q.title = r.title
            \/ q.slug = SlugOf[q.title] /\ "title" \in q.asks
        BY <1>8, <2>2, <3>5
      <4>2. CASE "title" \in q.asks  BY <3>2, <4>1, <4>2
      <4>3. CASE "title" \notin q.asks  BY <3>2, <4>1, <4>3
      <4> QED  BY <4>2, <4>3
    <3> QED  BY <2>0, <3>2, <3>3, <3>4, <3>5
  <2>3. CASE DocKind = "service"
    <3>1. e = EditedService(r, q)  BY <1>2, <1>3, <1>6, <2>0, <2>1, <2>3 DEF Row
    <3>2. /\ e \in DocRow /\ e.here = r.here /\ e.deleted = r.deleted /\ e.title = r.title /\ e.slug = r.slug
          /\ e.status = IF "status" \in q.asks THEN q.status ELSE r.status
          /\ e.links = IF "links" \in q.asks THEN q.links ELSE r.links
      BY <3>1, EditedServiceRow
    <3>3. kind # "ticket"  BY <2>1, <2>3
    <3>4. e.links = r.links \/ (e.links = q.links /\ MayHang(q.links))
      <4>1. CASE "links" \in q.asks
        <5>1. MayHang(q.links)  BY <1>4, <1>10, <4>1
        <5>2. e.links = q.links  BY <3>2, <4>1
        <5> QED  BY <5>1, <5>2
      <4>2. CASE "links" \notin q.asks  BY <3>2, <4>2
      <4> QED  BY <4>1, <4>2
    <3> QED  BY <1>5, <2>0, <3>2, <3>3, <3>4
  <2>4. CASE DocKind = "submission"
    <3>1. e = [r EXCEPT !.status = q.status]
      BY <1>2, <1>3, <1>6, <2>0, <2>1, <2>4 DEF Row, EditedSubmission
    <3>2. /\ e \in DocRow /\ e.here = r.here /\ e.deleted = r.deleted
          /\ e.title = r.title /\ e.slug = r.slug /\ e.links = r.links /\ e.status = q.status
      BY <1>5, <3>1, StatusRow
    <3>3. kind # "ticket"  BY <2>1, <2>4
    <3> QED  BY <1>5, <1>8, <2>0, <3>2, <3>3
  <2>5. CASE DocKind = "ticket"
    <3>1. e = EditedTicket(r, q)  BY <1>2, <1>3, <1>6, <2>0, <2>1, <2>5 DEF Row
    <3>2. /\ e \in DocRow /\ e.here = r.here /\ e.deleted = r.deleted
          /\ e.title = r.title /\ e.slug = r.slug /\ e.status = q.status /\ e.links = r.links
          /\ e.told = IF q.changes THEN q.status ELSE r.told
      BY <3>1, EditedTicketRow
    <3>3. StillSo(o) /\ r.told = r.status => e.told = e.status
      <4>1. CASE q.changes  BY <3>2, <4>1
      <4>2. CASE ~q.changes
        <5>1. e.told = r.told  BY <3>2, <4>2
        <5>2. StillSo(o) => q.status = r.status  BY <1>8, <2>5, <4>2
        <5> QED  BY <3>2, <5>1, <5>2
      <4> QED  BY <4>1, <4>2
    <3> QED  BY <1>5, <1>8, <2>0, <3>2, <3>3
  <2> QED  BY <2>1, <2>2, <2>3, <2>4, <2>5
<1> QED  BY <1>4, <1>9, <1>10

LEMMA WriteDocHolds ==
    ASSUME IInv, NEW o \in Request, WriteDoc(o)
    PROVE  IInv'
<1>1. at[o] = "writeDoc" /\ o \in InFlight /\ req[o].doc \in Doc
  BY Busy DEF WriteDoc, DocSteps, IInv, OnDoc
<1>2. PICK d \in Doc : d = req[o].doc  BY <1>1
<1>3. PICK r : r = Row(req[o])  OBVIOUS
<1>4. /\ docs' = [docs EXCEPT ![d] = r] /\ labels' = labels /\ kind' = kind /\ Answer(o, "done")
      /\ docs[d].here /\ req[o].links \subseteq Here
  BY <1>2, <1>3 DEF WriteDoc, Answer, Goes
<1>5. /\ r \in DocRow /\ r.here /\ r.deleted = docs[d].deleted
      /\ \/ r.links = docs[d].links
         \/ r.links = req[o].links /\ MayHang(req[o].links)
  BY <1>1, <1>2, <1>3, <1>4, RowParts
<1>6. TypedTables /\ docs[d].links \subseteq Here  BY TypesNow DEF IInv, TypedTables
<1>7. r.links \subseteq Here  BY <1>4, <1>5, <1>6
<1>8. r.here /\ ~r.deleted => MayHang(r.links)  BY <1>4, <1>5, <1>6 DEF TypedTables, Found
<1>9. TypedTables' /\ \A e \in Doc : e # d => docs'[e] = docs[e]
  BY <1>4, <1>5, <1>7, <1>8, DocWritten
<1> QED  BY <1>1, <1>2, <1>4, <1>9, Answered

LEMMA DeleteDocHolds ==
    ASSUME IInv, NEW o \in Request, SoftDelete(o) \/ HardDelete(o)
    PROVE  IInv'
<1>1. at[o] = "deleteDoc" /\ o \in InFlight /\ req[o].doc \in Doc
  BY Busy DEF SoftDelete, HardDelete, DocSteps, IInv, OnDoc
<1>2. PICK d \in Doc : d = req[o].doc  BY <1>1
<1>3. docs \in [Doc -> DocRow] /\ docs[d] \in DocRow /\ docs[d].links \subseteq Here  BY TypeParts DEF IInv
<1>4. labels' = labels /\ kind' = kind /\ Answer(o, "done")  BY DEF SoftDelete, HardDelete, Answer, Goes
<1>5. CASE SoftDelete(o)
  <2>1. PICK r : r = [docs[d] EXCEPT !.deleted = TRUE]  OBVIOUS
  <2>2. r \in DocRow /\ r.deleted /\ r.links = docs[d].links  BY <1>3, <2>1 DEF DocRow
  <2>3. docs' = [docs EXCEPT ![d] = r]  BY <1>2, <1>3, <1>5, <2>1 DEF SoftDelete
  <2>4. TypedTables' /\ \A e \in Doc : e # d => docs'[e] = docs[e]
    BY <1>3, <1>4, <2>2, <2>3, DocWritten
  <2> QED  BY <1>1, <1>2, <1>4, <2>4, Answered
<1>6. CASE HardDelete(o)
  <2>1. PICK r : r = [docs[d] EXCEPT !.here = FALSE, !.links = {}]  OBVIOUS
  <2>2. r \in DocRow /\ ~r.here /\ r.links = {}  BY <1>3, <2>1 DEF DocRow
  <2>3. docs' = [docs EXCEPT ![d] = r]
    <3>1. docs' = [docs EXCEPT ![d].here = FALSE, ![d].links = {}]  BY <1>2, <1>6 DEF HardDelete
    <3> QED  BY <1>3, <2>1, <3>1
  <2>4. TypedTables' /\ \A e \in Doc : e # d => docs'[e] = docs[e]
    BY <1>3, <1>4, <2>2, <2>3, DocWritten
  <2> QED  BY <1>1, <1>2, <1>4, <2>4, Answered
<1> QED  BY <1>5, <1>6

LEMMA FailHolds ==
    ASSUME IInv, NEW o \in Request, Fail(o)
    PROVE  IInv'
<1>1. o \in InFlight /\ Answer(o, "failed") /\ labels' = labels /\ docs' = docs /\ kind' = kind
  BY DEF Fail, Answer, Goes
<1>2. TypedTables  BY TypesNow DEF IInv
<1>3. TypedTables'
  BY <1>1, <1>2 DEF TypedTables, Here, Found, MayHang, OnDelete, Guarded
<1> QED  BY <1>1, <1>3, Answered

LEMMA StutterHolds ==
    ASSUME IInv, UNCHANGED vars
    PROVE  IInv'
<1>1. /\ kind' = kind /\ labels' = labels /\ docs' = docs /\ req' = req /\ at' = at /\ met' = met  BY DEF vars
<1>2. /\ DocKind' = DocKind /\ (Slugged' <=> Slugged) /\ (Guarded' <=> Guarded)
      /\ \A L : MayHang(L)' <=> MayHang(L)
  BY <1>1, KindStays
<1>3. TypeOK'  BY <1>1 DEF IInv, TypeOK, Here, Found, MayHang, OnDelete, Guarded
<1>4. Together'  BY <1>1 DEF IInv, Together, InFlight
<1>5. ASSUME NEW o \in Request  PROVE OnLabel(o)' /\ OnDoc(o)'
  <2>1. OnLabel(o) /\ OnDoc(o)  BY DEF IInv
  <2>2. OnLabel(o)'  BY <1>1, <1>2, <2>1 DEF OnLabel, Reserved, Unused, Overlaps
  <2>3. MayHang(req[o].links)' <=> MayHang(req[o].links)
    BY <1>1 DEF MayHang, OnDelete, Guarded
  <2>4. StillSo(o) => StillSo(o)'  BY <1>1, <1>2, Zenon DEF StillSo, AsRead
  <2>5. Overlaps(o, req[o].doc)' <=> Overlaps(o, req[o].doc)  BY <1>1 DEF Overlaps
  <2>6. OnDoc(o)'  BY <1>1, <1>2, <2>1, <2>3, <2>4, <2>5 DEF OnDoc
  <2> QED  BY <2>2, <2>6
<1> QED  BY <1>1, <1>3, <1>4, <1>5 DEF IInv

LEMMA InitHolds ==
    ASSUME Init
    PROVE  IInv
<1>1. PICK l \in Label, s \in States :
        labels = [k \in Label |-> [here |-> k = l /\ kind # "ticket", name |-> Plain, slug |-> SlugOfName(Plain), status |-> s]]
  BY DEF Init
<1>2. PICK d \in Doc, t \in Status, L \in SUBSET Here :
        /\ MayHang(L)
        /\ docs = [k \in Doc |-> [here |-> k = d, deleted |-> FALSE, title |-> Plain, slug |-> SlugOf[Plain],
                                  status |-> t, told |-> IF kind = "ticket" THEN t ELSE "DRAFT",
                                  links |-> IF k = d THEN L ELSE {}]]
  BY DEF Init
<1>3. /\ kind \in Kinds /\ req = [o \in Request |-> NoCall] /\ at = [o \in Request |-> "new"]
      /\ met = [o \in Request |-> {}]
  BY DEF Init
<1>4. Here \subseteq Label  BY DEF Here
<1>5. labels \in [Label -> LabelRow]
  <2>1. \A k \in Label : (k = l /\ kind # "ticket") \in BOOLEAN  OBVIOUS
  <2>2. s \in Status /\ SlugOfName(Plain) \in LabelSlug /\ Plain \in Name  BY Constants
  <2> QED  BY <1>1, <2>1, <2>2 DEF LabelRow, LabelSlug, DocSlug
<1>6. /\ docs \in [Doc -> DocRow]
      /\ \A k \in Doc : docs[k].here = (k = d) /\ docs[k].links = IF k = d THEN L ELSE {}
  <2>1. \A k \in Doc : (k = d) \in BOOLEAN /\ (IF k = d THEN L ELSE {}) \in SUBSET Label  BY <1>4
  <2>2. (IF kind = "ticket" THEN t ELSE "DRAFT") \in Status  BY Constants
  <2>3. Plain \in Name /\ SlugOf[Plain] \in DocSlug  BY Constants
  <2> QED  BY <1>2, <2>1, <2>2, <2>3 DEF DocRow, DocSlug
<1>7. req \in [Request -> Call]  BY <1>3, NoCallTypes
<1>8. \A k \in Doc : docs[k].links \subseteq Here  BY <1>6
<1>9. \A k \in Found : MayHang(docs[k].links)  BY <1>2, <1>6 DEF Found
<1>10. TypeOK  BY <1>3, <1>5, <1>6, <1>7, <1>8, <1>9 DEF TypeOK
<1>11. at \in [Request -> Steps] /\ met \in [Request -> SUBSET Request]  BY <1>3, StepKinds
<1>12. Together  BY <1>3 DEF Together, InFlight
<1>13. \A o \in Request : OnLabel(o) /\ OnDoc(o)  BY <1>3 DEF OnLabel, OnDoc, LabelSteps, DocSteps
<1> QED  BY <1>10, <1>11, <1>12, <1>13 DEF IInv

LEMMA NextHolds ==
    ASSUME IInv, [Next]_vars
    PROVE  IInv'
<1>1. CASE UNCHANGED vars \/ Terminating  BY <1>1, StutterHolds DEF Terminating
<1>2. ASSUME NEW o \in Request, CreateCategory(o) \/ CreateContentType(o) \/ CreateOffer(o)  PROVE IInv'
  BY <1>2, CreateLabels
<1>3. ASSUME NEW o \in Request, UpdateLabel(o)  PROVE IInv'  BY <1>3, UpdateLabelHolds
<1>4. ASSUME NEW o \in Request, UpdateLabelStatus(o)  PROVE IInv'  BY <1>4, UpdateLabelStatusHolds
<1>5. ASSUME NEW o \in Request, RemoveCategory(o) \/ RemoveUnguarded(o)  PROVE IInv'  BY <1>5, RemoveLabelHolds
<1>6. ASSUME NEW o \in Request, InsertLabel(o)  PROVE IInv'  BY <1>6, InsertLabelHolds
<1>7. ASSUME NEW o \in Request, WriteLabel(o)  PROVE IInv'  BY <1>7, WriteLabelHolds
<1>8. ASSUME NEW o \in Request, DeleteLabel(o)  PROVE IInv'  BY <1>8, DeleteLabelHolds
<1>9. ASSUME NEW o \in Request, CreateContent(o) \/ CreateInsight(o) \/ CreateService(o) \/ CreateSubmission(o)  PROVE IInv'
  BY <1>9, CreateDocs
<1>10. ASSUME NEW o \in Request, CreateTicket(o)  PROVE IInv'  BY <1>10, CreateTicketHolds
<1>11. ASSUME NEW o \in Request, UpdateContent(o) \/ UpdateService(o) \/ UpdateSubmission(o)  PROVE IInv'
  BY <1>11, UpdateDocs
<1>12. ASSUME NEW o \in Request, UpdateTicket(o)  PROVE IInv'  BY <1>12, UpdateTicketHolds
<1>13. ASSUME NEW o \in Request, UpdateDocStatus(o)  PROVE IInv'  BY <1>13, UpdateDocStatusHolds
<1>14. ASSUME NEW o \in Request, RemoveDoc(o)  PROVE IInv'  BY <1>14, RemoveDocHolds
<1>15. ASSUME NEW o \in Request, Validate(o)  PROVE IInv'  BY <1>15, ValidateHolds
<1>16. ASSUME NEW o \in Request, InsertDoc(o)  PROVE IInv'  BY <1>16, InsertDocHolds
<1>17. ASSUME NEW o \in Request, WriteDoc(o)  PROVE IInv'  BY <1>17, WriteDocHolds
<1>18. ASSUME NEW o \in Request, SoftDelete(o) \/ HardDelete(o)  PROVE IInv'  BY <1>18, DeleteDocHolds
<1>19. ASSUME NEW o \in Request, Fail(o)  PROVE IInv'  BY <1>19, FailHolds
<1> QED
  BY <1>1, <1>2, <1>3, <1>4, <1>5, <1>6, <1>7, <1>8, <1>9, <1>10, <1>11, <1>12, <1>13, <1>14, <1>15, <1>16, <1>17,
     <1>18, <1>19 DEF Next

\* Whatever overlaps, the invariant holds: of each request in flight it tells what its
\* reads have established and who may have undone it since.
THEOREM Invariance == Spec => []IInv
<1>1. Init => IInv  BY InitHolds
<1>2. IInv /\ [Next]_vars => IInv'  BY NextHolds
<1> QED  BY <1>1, <1>2, PTL DEF Spec

\* Rows keep their form, no document hangs on a label that is gone, and none has more
\* labels than its kind allows, though labels are counted before they are written.
THEOREM TypesHold == Spec => []TypeOK
<1>1. IInv => TypeOK  BY DEF IInv
<1> QED  BY <1>1, Invariance, PTL

----------------------------------------------------------------------------
(* What the steps may do. *)
Arrivals(o) ==
    \/ CreateCategory(o) \/ CreateContentType(o) \/ CreateOffer(o)
    \/ UpdateLabel(o) \/ UpdateLabelStatus(o) \/ RemoveCategory(o) \/ RemoveUnguarded(o)
    \/ CreateContent(o) \/ CreateInsight(o) \/ CreateService(o) \/ CreateSubmission(o) \/ CreateTicket(o)
    \/ UpdateContent(o) \/ UpdateService(o) \/ UpdateSubmission(o) \/ UpdateTicket(o)
    \/ UpdateDocStatus(o) \/ RemoveDoc(o)

Writes(o) ==
    InsertLabel(o) \/ WriteLabel(o) \/ DeleteLabel(o) \/ InsertDoc(o) \/ WriteDoc(o) \/ SoftDelete(o) \/ HardDelete(o)

\* A request that arrives has changed no row and is not done.
LEMMA ArrivesOnly ==
    ASSUME NEW o \in Request, Arrivals(o)
    PROVE  /\ UNCHANGED <<kind, labels, docs>>
           /\ \E step \in LabelSteps \cup DocSteps : at' = [at EXCEPT ![o] = step]
<1> USE DEF LabelSteps, DocSteps
<1>1. CASE CreateCategory(o) \/ CreateContentType(o) \/ CreateOffer(o)
  <2>1. \E n, s, slug : CreatesLabel(o, n, s, slug)
    BY <1>1 DEF CreateCategory, CreateContentType, CreateOffer
  <2> QED  BY <2>1 DEF CreatesLabel, Arrive
<1>2. CASE UpdateLabel(o)  BY <1>2 DEF UpdateLabel, Arrive
<1>3. CASE UpdateLabelStatus(o)  BY <1>3 DEF UpdateLabelStatus, Arrive
<1>4. CASE RemoveCategory(o) \/ RemoveUnguarded(o)
  BY <1>4 DEF RemoveCategory, RemoveUnguarded, RemovesLabel, Arrive
<1>5. CASE CreateContent(o) \/ CreateInsight(o) \/ CreateService(o) \/ CreateSubmission(o)
  <2>1. \E n, L, s : CreatesDoc(o, n, L, s)
    BY <1>5 DEF CreateContent, CreateInsight, CreateService, CreateSubmission
  <2> QED  BY <2>1 DEF CreatesDoc, Arrive
<1>6. CASE CreateTicket(o)  BY <1>6 DEF CreateTicket, Arrive
<1>7. CASE UpdateContent(o)
  <2>1. \E d, asks, n, slug, L, s : Updates(o, d, asks, n, slug, L, s, "validate")
    BY <1>7 DEF UpdateContent
  <2> QED  BY <2>1 DEF Updates, Arrive
<1>8. CASE UpdateService(o)
  <2>1. \E d, asks, n, slug, L, s : Updates(o, d, asks, n, slug, L, s, "validate")
    BY <1>8 DEF UpdateService
  <2> QED  BY <2>1 DEF Updates, Arrive
<1>9. CASE UpdateSubmission(o)
  <2>1. \E d, asks, n, slug, L, s : Updates(o, d, asks, n, slug, L, s, "writeDoc")
    BY <1>9 DEF UpdateSubmission
  <2> QED  BY <2>1 DEF Updates, Arrive
<1>10. CASE UpdateTicket(o)  BY <1>10 DEF UpdateTicket, Arrive
<1>11. CASE UpdateDocStatus(o)  BY <1>11 DEF UpdateDocStatus, Arrive
<1>12. CASE RemoveDoc(o)  BY <1>12 DEF RemoveDoc, Arrive
<1> QED  BY <1>1, <1>2, <1>3, <1>4, <1>5, <1>6, <1>7, <1>8, <1>9, <1>10, <1>11, <1>12 DEF Arrivals

\* A request that steps writes, or leaves the rows as they are.
LEMMA StepOf ==
    ASSUME IInv, Next, NEW o \in Request, Stepping(o)
    PROVE  Writes(o) \/ (UNCHANGED <<kind, labels, docs>> /\ at'[o] # "done")
<1>1. at \in [Request -> Steps]  BY DEF IInv
<1>2. PICK p \in Request : Arrivals(p) \/ Writes(p) \/ Validate(p) \/ Fail(p)
  BY DEF Next, Terminating, vars, Stepping, Arrivals, Writes
<1>3. CASE Arrivals(p)
  <2>1. PICK step \in LabelSteps \cup DocSteps : at' = [at EXCEPT ![p] = step]  BY <1>3, ArrivesOnly
  <2>2. o = p  BY <1>1, <2>1 DEF Stepping
  <2> QED  BY <1>1, <1>3, <2>1, <2>2, ArrivesOnly, StepKinds
<1>4. CASE Writes(p)
  <2>1. at' = [at EXCEPT ![p] = "done"]
    BY <1>4 DEF Writes, InsertLabel, WriteLabel, DeleteLabel, InsertDoc, WriteDoc, SoftDelete, HardDelete, Answer, Goes
  <2>2. o = p  BY <1>1, <2>1 DEF Stepping
  <2> QED  BY <1>4, <2>2
<1>5. CASE Validate(p)
  <2>1. PICK step \in {"insertDoc", "writeDoc"} : at' = [at EXCEPT ![p] = step]  BY <1>5 DEF Validate, Goes
  <2>2. o = p  BY <1>1, <2>1 DEF Stepping
  <2> QED  BY <1>1, <1>5, <2>1, <2>2 DEF Validate, Goes
<1>6. CASE Fail(p)
  <2>1. at' = [at EXCEPT ![p] = "failed"]  BY <1>6 DEF Fail, Answer, Goes
  <2>2. o = p  BY <1>1, <2>1 DEF Stepping
  <2> QED  BY <1>1, <1>6, <2>1, <2>2 DEF Fail, Answer, Goes
<1> QED  BY <1>2, <1>3, <1>4, <1>5, <1>6

LEMMA NobodyStepsStuttering ==
    ASSUME UNCHANGED vars, NEW o \in Request
    PROVE  ~Stepping(o)
BY DEF vars, Stepping

LEMMA WriteKeeps ==
    ASSUME IInv, NEW o \in Request, WriteDoc(o)
    PROVE  LET d == req[o].doc
           IN  \/ Overlaps(o, d)
               \/ /\ "title" \notin req[o].asks => docs'[d].slug = docs[d].slug
                  /\ "status" \notin req[o].asks => docs'[d].status = docs[d].status
                  /\ docs'[d].slug = SlugOf[docs'[d].title] \/ docs[d].slug # SlugOf[docs[d].title]
                  /\ kind = "ticket" /\ docs[d].told = docs[d].status => docs'[d].told = docs'[d].status
<1>1. at[o] = "writeDoc" /\ req[o].doc \in Doc  BY DEF WriteDoc, DocSteps, IInv, OnDoc
<1>2. PICK d \in Doc : d = req[o].doc  BY <1>1
<1>3. PICK r : r = Row(req[o])  OBVIOUS
<1>4. docs \in [Doc -> DocRow] /\ docs' = [docs EXCEPT ![d] = r] /\ docs[d].here
  BY <1>2, <1>3, TypeParts DEF WriteDoc, IInv
<1>5. docs'[d] = r  BY <1>4
<1>6. Overlaps(o, d) \/ req[o].op = "updateDocStatus" \/ StillSo(o)
  <2>1. OnDoc(o)  BY DEF IInv
  <2> QED  BY <1>1, <1>2, <2>1 DEF OnDoc
<1>7. req[o].op = "updateDocStatus" \/ StillSo(o) =>
         /\ "title" \notin req[o].asks => r.slug = docs[d].slug
         /\ "status" \notin req[o].asks => r.status = docs[d].status
         /\ r.slug = SlugOf[r.title] \/ docs[d].slug # SlugOf[docs[d].title]
         /\ kind = "ticket" /\ docs[d].told = docs[d].status => r.told = r.status
  BY <1>1, <1>2, <1>3, <1>4, RowParts
<1> QED  BY <1>2, <1>5, <1>6, <1>7

\* An update takes back what another has done only where the two overlapped: what it read
\* of its document is otherwise still so when it writes.
THEOREM UndoingHolds == Spec => OnlyOverlapUndoes
<1>1. ASSUME IInv, [Next]_vars, NEW o \in Request,
             Stepping(o), at[o] = "writeDoc", at'[o] = "done", req[o].op # "createDoc"
      PROVE  LET d == req[o].doc
             IN  \/ Overlaps(o, d)
                 \/ /\ "title" \notin req[o].asks => docs'[d].slug = docs[d].slug
                    /\ "status" \notin req[o].asks => docs'[d].status = docs[d].status
                    /\ docs'[d].slug = SlugOf[docs'[d].title] \/ docs[d].slug # SlugOf[docs[d].title]
                    /\ kind = "ticket" /\ docs[d].told = docs[d].status => docs'[d].told = docs'[d].status
  <2>1. Next  BY <1>1, NobodyStepsStuttering
  <2>2. Writes(o)  BY <1>1, <2>1, StepOf
  <2>3. WriteDoc(o)
    BY <1>1, <2>2 DEF Writes, InsertLabel, WriteLabel, DeleteLabel, InsertDoc, SoftDelete, HardDelete
  <2> QED  BY <1>1, <2>3, WriteKeeps
<1>2. IInv /\ [Next]_vars =>
        [\A o \in Request : Stepping(o) /\ at[o] = "writeDoc" /\ at'[o] = "done" /\ req[o].op # "createDoc" =>
           LET d == req[o].doc
           IN  \/ Overlaps(o, d)
               \/ /\ "title" \notin req[o].asks => docs'[d].slug = docs[d].slug
                  /\ "status" \notin req[o].asks => docs'[d].status = docs[d].status
                  /\ docs'[d].slug = SlugOf[docs'[d].title] \/ docs[d].slug # SlugOf[docs[d].title]
                  /\ kind = "ticket" /\ docs[d].told = docs[d].status => docs'[d].told = docs'[d].status]_vars
  BY <1>1
<1> QED  BY <1>2, Invariance, PTL DEF Spec, OnlyOverlapUndoes

\* A category or tag that a removal takes from a document was given to it meanwhile.
THEOREM DroppingHolds == Spec => OnlyOverlapDropsLinks
<1>1. ASSUME IInv, [Next]_vars, Guarded, NEW d \in Doc, NEW o \in Request,
             Stepping(o), at[o] = "deleteLabel", req[o].label \in docs[d].links \ docs'[d].links
      PROVE  \E x \in met[o] : req[x].doc = d
  <2>1. OnLabel(o)  BY <1>1 DEF IInv
  <2>2. Unused(o)  BY <1>1, <2>1 DEF OnLabel
  <2> QED  BY <1>1, <2>2 DEF Unused, Overlaps
<1>2. IInv /\ [Next]_vars =>
        [Guarded =>
           \A d \in Doc : \A o \in Request :
             Stepping(o) /\ at[o] = "deleteLabel" /\ req[o].label \in docs[d].links \ docs'[d].links =>
                \E x \in met[o] : req[x].doc = d]_vars
  BY <1>1
<1> QED  BY <1>2, Invariance, PTL DEF Spec, OnlyOverlapDropsLinks

\* A write that makes a document public is one to the document or to the status of a label
\* of it, or removes that label.
LEMMA WriteReveals ==
    ASSUME IInv, NEW o \in Request, Writes(o), NEW d \in Doc, Public(d)', ~Public(d), req[o].doc # d
    PROVE  /\ req[o].op = "removeLabel" \/ "status" \in req[o].asks
           /\ req[o].label \in docs[d].links
<1>1. kind' = kind /\ DocKind' = DocKind
  BY DEF Writes, InsertLabel, WriteLabel, DeleteLabel, InsertDoc, WriteDoc, SoftDelete, HardDelete, Answer, Goes, DocKind
<1>2. docs \in [Doc -> DocRow] /\ labels \in [Label -> LabelRow] /\ docs[d].links \subseteq Here /\ OnLabel(o) /\ OnDoc(o)
  BY TypeParts DEF IInv
<1>3. CASE InsertDoc(o) \/ WriteDoc(o) \/ SoftDelete(o) \/ HardDelete(o)
  <2>1. docs'[d] = docs[d] /\ labels' = labels
    BY <1>2, <1>3 DEF InsertDoc, WriteDoc, SoftDelete, HardDelete
  <2> QED  BY <1>1, <2>1 DEF Public
<1>4. CASE InsertLabel(o) \/ WriteLabel(o) \/ DeleteLabel(o)
  <2>1. req[o].label \in Label
    BY <1>2, <1>4 DEF OnLabel, LabelSteps, InsertLabel, WriteLabel, DeleteLabel
  <2>2. PICK l \in Label : l = req[o].label  BY <2>1
  <2>3. /\ docs'[d].here = docs[d].here /\ docs'[d].deleted = docs[d].deleted /\ docs'[d].status = docs[d].status
        /\ docs'[d].links = docs[d].links \/ (docs'[d].links = docs[d].links \ {l} /\ DeleteLabel(o))
    <3>1. CASE DeleteLabel(o)
      <4>1. docs' = Unlinked(l)  BY <2>2, <3>1 DEF DeleteLabel
      <4> QED  BY <3>1, <4>1, UnlinkedDocs
    <3>2. CASE InsertLabel(o) \/ WriteLabel(o)  BY <3>2 DEF InsertLabel, WriteLabel
    <3> QED  BY <1>4, <3>1, <3>2
  <2>4. \A k \in Label : k # l => labels'[k] = labels[k]
    BY <1>2, <1>4, <2>2 DEF InsertLabel, WriteLabel, DeleteLabel
  <2>5. PICK k \in docs[d].links : labels[k].status # "PUBLISHED" /\ (k # l => k \in docs'[d].links)
    BY <1>1, <2>3 DEF Public
  <2>6. k \in Label /\ labels[k].here  BY <1>2, <2>5 DEF Here
  <2>7. DocKind = "service"  BY <1>1, <2>3 DEF Public
  <2>8. k \in docs'[d].links => labels'[k].status = "PUBLISHED"  BY <1>1, <2>7 DEF Public
  <2>9. k = l  BY <2>4, <2>5, <2>6, <2>8
  <2>10. CASE InsertLabel(o)
    <3>1. ~labels[l].here  BY <1>2, <2>2, <2>10 DEF OnLabel, Reserved, InsertLabel
    <3> QED  BY <2>6, <2>9, <3>1
  <2>11. CASE DeleteLabel(o)
    <3>1. req[o].op = "removeLabel"  BY <1>2, <2>11 DEF OnLabel, DeleteLabel
    <3> QED  BY <2>2, <2>5, <2>9, <3>1
  <2>12. CASE WriteLabel(o)
    <3>1. PICK r : r = Written(labels[l], req[o])  OBVIOUS
    <3>2. labels'[l] = r  BY <1>2, <2>2, <2>12, <3>1 DEF WriteLabel
    <3>3. "status" \notin req[o].asks => r.status = labels[l].status  BY <3>1 DEF Written
    <3>4. docs'[d].links = docs[d].links  BY <2>12 DEF WriteLabel
    <3>5. labels'[l].status # labels[l].status  BY <2>5, <2>8, <2>9, <3>4
    <3> QED  BY <2>2, <2>5, <2>9, <3>2, <3>3, <3>5
  <2> QED  BY <1>4, <2>10, <2>11, <2>12
<1> QED  BY <1>3, <1>4 DEF Writes

\* Nothing else brings a hidden service to light.
THEOREM RevealingHolds == Spec => OnlyRemovalReveals
<1>1. ASSUME IInv, [Next]_vars, NEW d \in Doc, NEW o \in Request, Stepping(o), Public(d)', ~Public(d)
      PROVE  \/ req[o].doc = d
             \/ /\ req[o].op = "removeLabel" \/ "status" \in req[o].asks
                /\ req[o].label \in docs[d].links
  <2>1. Next  BY <1>1, NobodyStepsStuttering
  <2>2. Writes(o) \/ (kind' = kind /\ labels' = labels /\ docs' = docs)  BY <1>1, <2>1, StepOf
  <2>3. CASE kind' = kind /\ labels' = labels /\ docs' = docs  BY <1>1, <2>3 DEF Public, DocKind
  <2>4. CASE Writes(o)  BY <1>1, <2>4, WriteReveals
  <2> QED  BY <2>2, <2>3, <2>4
<1>2. IInv /\ [Next]_vars =>
        [\A d \in Doc : \A o \in Request :
          Stepping(o) /\ Public(d)' /\ ~Public(d) =>
             \/ req[o].doc = d
             \/ /\ req[o].op = "removeLabel" \/ "status" \in req[o].asks
                /\ req[o].label \in docs[d].links]_vars
  BY <1>1
<1> QED  BY <1>2, Invariance, PTL DEF Spec, OnlyRemovalReveals
=============================================================================
