------------------------------ MODULE Catalog ------------------------------
(***************************************************************************)
(* The cached lists of the landing page, on top of Media: the templates of *)
(* src/src/template/template.service.ts and the reviews of                 *)
(* src/src/testimonial/testimonial.service.ts.                             *)
(*                                                                         *)
(* A reader that misses a key reads the table and fills the key; a writer  *)
(* changes the table and then deletes the keys, one after another.         *)
(***************************************************************************)
EXTENDS Media

CONSTANTS
    Purchases,   \* purchases that may be reviewed
    Texts,       \* what a review may say
    Placeholder  \* 'Your review has been deleted by an admin.'

ASSUME CatalogAssumption == Placeholder \notin Texts

VARIABLES
    reviews,     \* the testimonials table, by purchase (purchase_id is unique)
    shelf        \* the keys templates:* and testimonials:all

catalogVars == <<reviews, shelf>>

vars == <<mediaVars, catalogVars, calls, bounds, disturbed>>
-----------------------------------------------------------------------------
NoReview == [text |-> None, removed |-> FALSE]

Reviews == [text : Texts \cup {Placeholder}, removed : BOOLEAN]

\* Ids the table may hand out: a call creates at most one template.
TemplateIds == 1 .. Len(InitTemplates) + MaxCalls

Detail == {<<"id", t>> : t \in TemplateIds}

\* templates:all, templates:active, testimonials:all and templates:id:*.
ShelfKeys == {<<"all", 0>>, <<"active", 0>>, <<"reviews", 0>>} \cup Detail

\* What the database holds for a key; the empty list is cached as well.  The
\* names of reviewers and events, which reviews show too, are left out.
View(key) ==
    CASE key[1] = "all"     -> {<<t, templates[t]>> : t \in DOMAIN templates}
      [] key[1] = "active"  -> {<<t, templates[t]>> : t \in {t \in DOMAIN templates :
                                                               templates[t].active}}
      [] key[1] = "id"      -> {<<t, templates[t]>> : t \in DOMAIN templates \cap {key[2]}}
      [] key[1] = "reviews" -> {<<p, reviews[p].text>> :
                                   p \in {p \in Purchases : reviews[p] # NoReview
                                                            /\ ~reviews[p].removed}}

CatalogInit ==
    /\ Init
    /\ reviews = [p \in Purchases |-> NoReview]
    /\ shelf = [key \in ShelfKeys |-> None]
-----------------------------------------------------------------------------
(* findAll and findOne *)

\* A list that is cached is served from the cache; a template that is not there
\* is refused and nothing is cached.
Look(w, key) ==
    /\ shelf[key] = None
    /\ key \in Detail => View(key) # {}
    /\ Begin(w, [Idle EXCEPT !.op = "look", !.pc = "fillShelf", !.given = key,
                             !.view = View(key)])
    /\ UNCHANGED <<mediaVars, catalogVars>>

FillShelf(w) ==
    /\ At(w, "fillShelf")
    /\ shelf' = [shelf EXCEPT ![calls[w].given] = calls[w].view]
    /\ Return(w)
    /\ UNCHANGED <<mediaVars, reviews>>

\* An hour, or half an hour for the reviews, has passed.
ShelfExpires(key) ==
    /\ TimeOut
    /\ shelf[key] # None
    /\ shelf' = [shelf EXCEPT ![key] = None]
    /\ UNCHANGED <<mediaVars, reviews>>
-----------------------------------------------------------------------------
(* Deleting the keys after create and update of a template *)

DropList(w, pc, name) ==
    /\ At(w, pc)
    /\ shelf' = [shelf EXCEPT ![<<name, 0>>] = None]
    /\ UNCHANGED <<mediaVars, reviews>>

\* mutation: the list of active templates is left in the cache
DropActive_Forgotten(w) ==
    /\ At(w, "dropActive")
    /\ IF calls[w].op = "template" THEN Goto(w, "dropDetail") ELSE Return(w)
    /\ UNCHANGED <<mediaVars, catalogVars>>

DropAll(w) == DropList(w, "dropAll", "all") /\ Goto(w, "dropActive")

DropActive(w) ==
    /\ DropList(w, "dropActive", "active")
    /\ IF calls[w].op = "template" THEN Goto(w, "dropDetail") ELSE Return(w)

DropDetail(w) ==
    /\ At(w, "dropDetail")
    /\ shelf' = [shelf EXCEPT ![<<"id", calls[w].tmpl>>] = None]
    /\ Return(w)
    /\ UNCHANGED <<mediaVars, reviews>>
-----------------------------------------------------------------------------
(* Reviews: createOrUpdate and remove *)

\* The purchase is the reviewer's own; any other is refused.
Review(w, p, text) ==
    /\ Begin(w, [Idle EXCEPT !.op = "review", !.pc = "readReview", !.given = <<p, text>>])
    /\ UNCHANGED <<mediaVars, catalogVars>>

\* mutation: a review that an administrator removed is written again
Writable_Removed(p) == TRUE

Writable(p) == ~reviews[p].removed

ReadReview(w) ==
    /\ At(w, "readReview")
    /\ IF Writable(calls[w].given[1]) THEN Goto(w, "upsert") ELSE Return(w)
    /\ UNCHANGED <<mediaVars, catalogVars>>

Upsert(w) ==
    /\ At(w, "upsert")
    /\ reviews' = [reviews EXCEPT ![calls[w].given[1]].text = calls[w].given[2]]
    /\ Goto(w, "dropReviews")
    /\ UNCHANGED <<mediaVars, shelf>>

RemoveReview(w, p) ==
    /\ reviews[p] # NoReview
    /\ Begin(w, [Idle EXCEPT !.op = "removeReview", !.pc = "remove", !.given = <<p, None>>])
    /\ UNCHANGED <<mediaVars, catalogVars>>

\* mutation: the text is dropped instead of replaced
Remove_NoText(w) ==
    /\ At(w, "remove")
    /\ reviews' = [reviews EXCEPT ![calls[w].given[1]] = [text |-> None, removed |-> TRUE]]
    /\ Goto(w, "dropReviews")
    /\ UNCHANGED <<mediaVars, shelf>>

Remove(w) ==
    /\ At(w, "remove")
    /\ reviews' = [reviews EXCEPT ![calls[w].given[1]] =
                       [text |-> Placeholder, removed |-> TRUE]]
    /\ Goto(w, "dropReviews")
    /\ UNCHANGED <<mediaVars, shelf>>

DropReviews(w) == DropList(w, "dropReviews", "reviews") /\ Return(w)
-----------------------------------------------------------------------------
\* A call dies between two awaits.  What it has written stays.
Fail(w) ==
    /\ ~At(w, "idle")
    /\ failures < MaxFailures
    /\ failures' = failures + 1
    /\ disturbed' = TRUE
    /\ calls' = [calls EXCEPT ![w] = Idle]
    /\ UNCHANGED <<mediaVars, catalogVars, begun, timeouts>>

\* The calls of a free worker; Begin repeats the two guards.
Start(w) ==
    /\ At(w, "idle")
    /\ begun < MaxCalls
    /\ \/ MediaStart(w) /\ UNCHANGED catalogVars
       \/ \E key \in ShelfKeys : Look(w, key)
       \/ \E p \in Purchases, text \in Texts : Review(w, p, text)
       \/ \E p \in Purchases : RemoveReview(w, p)

Step(w) ==
    \/ MediaStep(w) /\ UNCHANGED catalogVars
    \/ FillShelf(w)
    \/ DropAll(w)
    \/ DropActive(w)
    \/ DropDetail(w)
    \/ ReadReview(w)
    \/ Upsert(w)
    \/ Remove(w)
    \/ DropReviews(w)

Next ==
    \/ \E w \in Workers : Start(w) \/ Step(w) \/ Fail(w)
    \/ TimePasses /\ UNCHANGED catalogVars
    \/ \E key \in ShelfKeys : ShelfExpires(key)

Spec == CatalogInit /\ [][Next]_vars
-----------------------------------------------------------------------------
(* Properties *)

\* Every variable has its type (media, template and testimonial services).
TypeOK ==
    /\ MediaTypeOK
    /\ reviews \in [Purchases -> Reviews \cup {NoReview}]
    /\ DOMAIN shelf = ShelfKeys

\* Every writer deletes each key its change shows in: as long as nothing is
\* disturbed, the cached lists and details are what the database holds.  The
\* script is no such writer: it leaves the old previews in the cache.
CatalogFresh ==
    ~disturbed /\ Quiet /\ ~migrated =>
        \A key \in ShelfKeys : shelf[key] \in {None, View(key)}

\* "This review was deleted by an admin and cannot be recreated"
\* (testimonial.service.ts:48): as long as nothing is disturbed, a removed
\* review keeps the text of the administrator.
RemovedStaysRemoved ==
    ~disturbed => \A p \in Purchases : reviews[p].removed => reviews[p].text = Placeholder

\* The avatar that an account refers to is stored; a clean-up is for "orphaned
\* media files" (media.controller.ts:71), and this one is not.
AvatarStored ==
    ~disturbed /\ Quiet => avatar \in {0} \cup deleted \cup objects
=============================================================================
