---------------------------- MODULE Invitations ----------------------------
(***************************************************************************)
(* Published invitations, the answers of their guests and the read-through *)
(* cache in front of both: src/src/invitation/invitation.service.ts and    *)
(* src/src/rsvp/rsvp.service.ts.                                           *)
(*                                                                         *)
(* The page of an invitation is served from the cache key of its slug.  A  *)
(* reader that misses reads the database and then fills the key; a writer  *)
(* changes the database and then deletes the key.  As in PurchaseRequests, *)
(* a call is a sequence of actions, one per query or cache operation.      *)
(***************************************************************************)
EXTENDS Integers, FiniteSets

CONSTANTS
    Purchases,     \* purchases; each has at most one invitation
    Slugs,         \* slugs that owners may choose
    Reserved,      \* slugs that demo links of templates take
    Names,         \* names guests may give
    Answers,       \* bound: the RSVP ids the database may hand out
    Keys,          \* idempotency keys of submitted forms
    Changes,       \* bodies of PUT /invitations/:id
    InitSlug,      \* the slug of each invitation that exists at first, or None
    Workers,       \* bound: calls in progress at the same time
    MaxWrites,     \* bound: number of calls that change something
    MaxFailures,   \* bound: calls that die between two awaits
    None           \* undefined / NULL

ChangeDtos == [slug : Slugs \cup {None}, active : BOOLEAN \cup {None}]

ASSUME InvAssumption ==
    /\ Reserved \subseteq Slugs
    /\ None \notin Slugs /\ None \notin Purchases /\ None \notin Answers
    /\ None \notin Names /\ None \notin BOOLEAN
    /\ Changes \subseteq ChangeDtos
    /\ InitSlug \in [Purchases -> Slugs \cup {None}]
    /\ \A i, j \in Purchases : InitSlug[i] = InitSlug[j] => i = j \/ InitSlug[i] = None
    /\ MaxWrites \in Nat /\ MaxFailures \in Nat
    /\ IsFiniteSet(Workers)

VARIABLES
    invitations,   \* the invitations table, by purchase (purchase_id is unique)
    purchaseSlug,  \* purchases.slug, None while it is the random one of the approval
    answers,       \* the rsvps table
    cache,         \* the keys invitations:slug:*
    locks,         \* the idempotency keys that are set in the cache
    calls,         \* per worker: where its handler stands and what it has read
    writes,        \* number of calls so far that change something
    failures,      \* number of calls that died so far
    disturbed      \* history: calls have overlapped, or one has died

vars == <<invitations, purchaseSlug, answers, cache, locks, calls, writes, failures,
          disturbed>>

tables == <<invitations, purchaseSlug, answers>>

bounds == <<writes, failures>>
-----------------------------------------------------------------------------
(* Rows, cache entries and calls *)

NoInvitation == [slug |-> None, active |-> FALSE]

\* active stands for every column an editor changes.
InvitationRows == [slug : Slugs, active : BOOLEAN]

NoAnswer == [of |-> None, name |-> None, hidden |-> FALSE, deleted |-> FALSE]

AnswerRows == [of : Purchases, name : Names, hidden : BOOLEAN, deleted : BOOLEAN]

Empty == [kind |-> "empty", inv |-> None, active |-> FALSE, book |-> {}]

Entries == [kind : {"empty", "notFound", "found"}, inv : Purchases \cup {None},
            active : BOOLEAN, book : SUBSET Answers]

Steps == {"idle", "fetch", "fill", "checkSlug", "create", "purchaseSlug", "update",
          "toggle", "lock", "readInvitation", "findAnswer", "insert", "answerAgain",
          "hide", "remove", "drop", "dropNew"}

\* slug and newSlug are the keys to delete; to and active what the body asks.
Calls == [pc : Steps, inv : Purchases \cup {None}, slug : Slugs \cup {None},
          newSlug : Slugs \cup {None}, to : Slugs \cup {None},
          active : BOOLEAN \cup {None}, view : Entries, name : Names \cup {None},
          key : Keys \cup {None}, answer : Answers \cup {None}, hidden : BOOLEAN]

Idle == [pc |-> "idle", inv |-> None, slug |-> None, newSlug |-> None, to |-> None,
         active |-> None, view |-> Empty, name |-> None, key |-> None,
         answer |-> None, hidden |-> FALSE]

Init ==
    /\ invitations = [i \in Purchases |->
           IF InitSlug[i] = None THEN NoInvitation
           ELSE [slug |-> InitSlug[i], active |-> TRUE]]
    /\ purchaseSlug = [i \in Purchases |-> None]
    /\ answers = [a \in Answers |-> NoAnswer]
    /\ cache = [s \in Slugs |-> Empty]
    /\ locks = {}
    /\ calls = [w \in Workers |-> Idle]
    /\ writes = 0
    /\ failures = 0
    /\ disturbed = FALSE

Quiet == \A w \in Workers : calls[w].pc = "idle"

At(w, pc) == calls[w].pc = pc

\* A free worker takes a call.
Begin(w, call) ==
    /\ At(w, "idle")
    /\ calls' = [calls EXCEPT ![w] = call]
    /\ disturbed' = (disturbed \/ ~Quiet)

\* The same for a call that changes something.  Bound: MaxWrites.
BeginWrite(w, call) ==
    /\ writes < MaxWrites
    /\ Begin(w, call)
    /\ writes' = writes + 1
    /\ UNCHANGED <<tables, cache, locks, failures>>

Goto(w, pc) == calls' = [calls EXCEPT ![w].pc = pc] /\ UNCHANGED <<bounds, disturbed>>

Return(w) == calls' = [calls EXCEPT ![w] = Idle] /\ UNCHANGED <<bounds, disturbed>>

Exists(i) == invitations[i] # NoInvitation
-----------------------------------------------------------------------------
(* findBySlug *)

InvitationAt(s) == {i \in Purchases : invitations[i].slug = s}

\* The answers that the page shows in its guestbook.
Shown(i) == {a \in Answers : answers[a].of = i /\ ~answers[a].deleted /\ ~answers[a].hidden}

\* What the database holds for slug s.
View(s) ==
    IF InvitationAt(s) = {} THEN [Empty EXCEPT !.kind = "notFound"]
    ELSE LET i == CHOOSE i \in InvitationAt(s) : TRUE IN
         [kind |-> "found", inv |-> i, active |-> invitations[i].active, book |-> Shown(i)]

\* A reader that finds its key filled is served from it and changes nothing.
FindBySlug(w, s) ==
    /\ cache[s] = Empty
    /\ Begin(w, [Idle EXCEPT !.pc = "fetch", !.slug = s])
    /\ UNCHANGED <<tables, cache, locks, bounds>>

Fetch(w) ==
    /\ At(w, "fetch")
    /\ calls' = [calls EXCEPT ![w].pc = "fill", ![w].view = View(calls[w].slug)]
    /\ UNCHANGED <<tables, cache, locks, bounds, disturbed>>

Fill(w) ==
    /\ At(w, "fill")
    /\ cache' = [cache EXCEPT ![calls[w].slug] = calls[w].view]
    /\ Return(w)
    /\ UNCHANGED <<tables, locks>>

\* mutation: the keys are set without a time-out
Expire_Never(s) ==
    /\ cache[s] # Empty /\ cache[s].kind = "empty"
    /\ UNCHANGED vars

\* Ten minutes, or one for NOT_FOUND, have passed.
Expire(s) ==
    /\ cache[s] # Empty
    /\ cache' = [cache EXCEPT ![s] = Empty]
    /\ UNCHANGED <<tables, locks, calls, bounds, disturbed>>
-----------------------------------------------------------------------------
(* create, update and toggleStatus of an invitation *)

Create(w, i, s) ==
    /\ ~Exists(i)
    /\ BeginWrite(w, [Idle EXCEPT !.pc = "checkSlug", !.inv = i, !.to = s])

Renames(i, c) == c.slug # None /\ c.slug # invitations[i].slug

Update(w, i, c) ==
    /\ Exists(i)
    /\ BeginWrite(w, [Idle EXCEPT !.pc = IF Renames(i, c) THEN "checkSlug" ELSE "update",
                                  !.inv = i, !.slug = invitations[i].slug,
                                  !.to = c.slug, !.active = c.active])

ToggleStatus(w, i, b) ==
    /\ Exists(i)
    /\ BeginWrite(w, [Idle EXCEPT !.pc = "toggle", !.inv = i,
                                  !.slug = invitations[i].slug, !.active = b])

\* mutation: the slug is not looked up
SlugAvailable_Unchecked(s) == TRUE

SlugAvailable(s) == InvitationAt(s) = {} /\ s \notin Reserved

\* ensureSlugAvailable; only update has read a slug before.
CheckSlug(w) ==
    /\ At(w, "checkSlug")
    /\ IF ~SlugAvailable(calls[w].to) THEN Return(w)
       ELSE Goto(w, IF calls[w].slug = None THEN "create" ELSE "purchaseSlug")
    /\ UNCHANGED <<tables, cache, locks>>

\* slug and purchase_id are unique: a second insert throws.
CreateWrite(w) ==
    /\ At(w, "create")
    /\ LET i == calls[w].inv
           s == calls[w].to
       IN invitations' = IF Exists(i) \/ InvitationAt(s) # {} THEN invitations
                         ELSE [invitations EXCEPT ![i] = [slug |-> s, active |-> TRUE]]
    /\ Return(w)
    /\ UNCHANGED <<purchaseSlug, answers, cache, locks>>

\* purchases.slug is unique: the update throws if another purchase has it.
WritePurchaseSlug(w) ==
    /\ At(w, "purchaseSlug")
    /\ LET i == calls[w].inv
           s == calls[w].to
       IN IF \E j \in Purchases \ {i} : purchaseSlug[j] = s
          THEN Return(w) /\ UNCHANGED purchaseSlug
          ELSE Goto(w, "update") /\ purchaseSlug' = [purchaseSlug EXCEPT ![i] = s]
    /\ UNCHANGED <<invitations, answers, cache, locks>>

\* mutation: a column the body leaves out is overwritten
Given_Unchecked(new, old) == new

\* Only what the body names is written.
Given(new, old) == IF new = None THEN old ELSE new

\* Files that the new lists leave out are deleted before this update; they are
\* not part of this module.
UpdateWrite(w) ==
    /\ At(w, "update")
    /\ LET i == calls[w].inv
           row == [slug |-> Given(calls[w].to, invitations[i].slug),
                   active |-> Given(calls[w].active, invitations[i].active)]
       IN IF InvitationAt(row.slug) \subseteq {i}
          THEN /\ invitations' = [invitations EXCEPT ![i] = row]
               /\ calls' = [calls EXCEPT ![w].pc = "drop", ![w].newSlug = row.slug]
               /\ UNCHANGED <<bounds, disturbed>>
          ELSE Return(w) /\ UNCHANGED invitations
    /\ UNCHANGED <<purchaseSlug, answers, cache, locks>>

ToggleWrite(w) ==
    /\ At(w, "toggle")
    /\ invitations' = [invitations EXCEPT ![calls[w].inv].active = calls[w].active]
    /\ Goto(w, "drop")
    /\ UNCHANGED <<purchaseSlug, answers, cache, locks>>

\* mutation: the key of the new slug is deleted in place of the old one
Dropped_NewSlug(w) ==
    IF calls[w].newSlug = None THEN calls[w].slug ELSE calls[w].newSlug

\* The key that a writer deletes first: that of the slug it read at the start.
Dropped(w) == calls[w].slug

Drop(w) ==
    /\ At(w, "drop")
    /\ cache' = [cache EXCEPT ![Dropped(w)] = Empty]
    /\ IF calls[w].newSlug \in {None, calls[w].slug} THEN Return(w) ELSE Goto(w, "dropNew")
    /\ UNCHANGED <<tables, locks>>

DropNew(w) ==
    /\ At(w, "dropNew")
    /\ cache' = [cache EXCEPT ![calls[w].newSlug] = Empty]
    /\ Return(w)
    /\ UNCHANGED <<tables, locks>>
-----------------------------------------------------------------------------
(* RSVPs *)

FreshAnswers == {a \in Answers : answers[a] = NoAnswer}

Submitting == {"lock", "readInvitation", "findAnswer", "insert"}

\* Bound: a form is taken only if an unused id is left for its row.
Room == Cardinality({w \in Workers : calls[w].pc \in Submitting}) < Cardinality(FreshAnswers)

\* A guest's form for invitation i; a key that is set refuses it.
Submit(w, i, n, k) ==
    /\ Room
    /\ k \notin locks
    /\ BeginWrite(w, [Idle EXCEPT !.pc = "lock", !.inv = i, !.name = n, !.key = k])

\* The key is set, then the message is looked at: spam is refused.
SetLock(w) ==
    /\ At(w, "lock")
    /\ locks' = locks \cup {calls[w].key}
    /\ Return(w) \/ Goto(w, "readInvitation")
    /\ UNCHANGED <<tables, cache>>

LockExpires(k) ==
    /\ k \in locks
    /\ locks' = locks \ {k}
    /\ UNCHANGED <<tables, cache, calls, bounds, disturbed>>

ReadInvitation(w) ==
    /\ At(w, "readInvitation")
    /\ LET i == calls[w].inv IN
         IF Exists(i)
         THEN /\ calls' = [calls EXCEPT ![w].pc = "findAnswer",
                                        ![w].slug = invitations[i].slug]
              /\ UNCHANGED <<bounds, disturbed>>
         ELSE Return(w)
    /\ UNCHANGED <<tables, cache, locks>>

\* mutation: the guest's earlier answer is not looked for
Earlier_Unchecked(i, n) == {}

Earlier(i, n) ==
    {a \in Answers : answers[a].of = i /\ answers[a].name = n /\ ~answers[a].deleted}

FindAnswer(w) ==
    /\ At(w, "findAnswer")
    /\ LET found == Earlier(calls[w].inv, calls[w].name) IN
         \/ found = {} /\ Goto(w, "insert")
         \/ \E a \in found :
               /\ calls' = [calls EXCEPT ![w].pc = "answerAgain", ![w].answer = a]
               /\ UNCHANGED <<bounds, disturbed>>
    /\ UNCHANGED <<tables, cache, locks>>

\* Ids are opaque: which unused one the row gets makes no difference.
InsertAnswer(w) ==
    /\ At(w, "insert")
    /\ LET a == CHOOSE a \in FreshAnswers : TRUE IN
         answers' = [answers EXCEPT ![a] = [of |-> calls[w].inv, name |-> calls[w].name,
                                            hidden |-> FALSE, deleted |-> FALSE]]
    /\ Goto(w, "drop")
    /\ UNCHANGED <<invitations, purchaseSlug, cache, locks>>

\* The new answer of the same guest is visible again.
AnswerAgain(w) ==
    /\ At(w, "answerAgain")
    /\ answers' = [answers EXCEPT ![calls[w].answer].hidden = FALSE]
    /\ Goto(w, "drop")
    /\ UNCHANGED <<invitations, purchaseSlug, cache, locks>>

\* toggleHide and softDelete read the answer and the slug of its invitation.
Moderate(w, a, pc) ==
    /\ answers[a] # NoAnswer
    /\ BeginWrite(w, [Idle EXCEPT !.pc = pc, !.answer = a,
                                  !.slug = invitations[answers[a].of].slug,
                                  !.hidden = ~answers[a].hidden])

ToggleHide(w) ==
    /\ At(w, "hide")
    /\ answers' = [answers EXCEPT ![calls[w].answer].hidden = calls[w].hidden]
    /\ Goto(w, "drop")
    /\ UNCHANGED <<invitations, purchaseSlug, cache, locks>>

SoftDelete(w) ==
    /\ At(w, "remove")
    /\ answers' = [answers EXCEPT ![calls[w].answer].deleted = TRUE]
    /\ Goto(w, "drop")
    /\ UNCHANGED <<invitations, purchaseSlug, cache, locks>>
-----------------------------------------------------------------------------
\* A call dies between two awaits.  What it has written stays.
Fail(w) ==
    /\ ~At(w, "idle")
    /\ failures < MaxFailures
    /\ failures' = failures + 1
    /\ disturbed' = TRUE
    /\ calls' = [calls EXCEPT ![w] = Idle]
    /\ UNCHANGED <<tables, cache, locks, writes>>

Start(w) ==
    \/ \E s \in Slugs : FindBySlug(w, s)
    \/ \E i \in Purchases, s \in Slugs : Create(w, i, s)
    \/ \E i \in Purchases, c \in Changes : Update(w, i, c)
    \/ \E i \in Purchases, b \in BOOLEAN : ToggleStatus(w, i, b)
    \/ \E i \in Purchases, n \in Names, k \in Keys : Submit(w, i, n, k)
    \/ \E a \in Answers, pc \in {"hide", "remove"} : Moderate(w, a, pc)

\* The steps of a call in progress.
Step(w) ==
    \/ Fetch(w)
    \/ Fill(w)
    \/ CheckSlug(w)
    \/ CreateWrite(w)
    \/ WritePurchaseSlug(w)
    \/ UpdateWrite(w)
    \/ ToggleWrite(w)
    \/ SetLock(w)
    \/ ReadInvitation(w)
    \/ FindAnswer(w)
    \/ InsertAnswer(w)
    \/ AnswerAgain(w)
    \/ ToggleHide(w)
    \/ SoftDelete(w)
    \/ Drop(w)
    \/ DropNew(w)

Next ==
    \/ \E w \in Workers : Start(w) \/ Step(w) \/ Fail(w)
    \/ \E s \in Slugs : Expire(s)
    \/ \E k \in Keys : LockExpires(k)

Spec == Init /\ [][Next]_vars

\* A call in progress goes on, and a cached page times out.
Fairness ==
    /\ \A w \in Workers : WF_vars(Step(w))
    /\ \A s \in Slugs : WF_vars(Expire(s))

FairSpec == Spec /\ Fairness
-----------------------------------------------------------------------------
(* Properties *)

\* Every variable has its type (invitation.service.ts, rsvp.service.ts).
TypeOK ==
    /\ invitations \in [Purchases -> InvitationRows \cup {NoInvitation}]
    /\ purchaseSlug \in [Purchases -> Slugs \cup {None}]
    /\ answers \in [Answers -> AnswerRows \cup {NoAnswer}]
    /\ cache \in [Slugs -> Entries]
    /\ locks \subseteq Keys
    /\ calls \in [Workers -> Calls]
    /\ writes \in Nat /\ failures \in Nat
    /\ disturbed \in BOOLEAN

\* The delete after each write keeps the cached pages up to date: as long as
\* calls neither overlap nor die, a cached page is what the database holds,
\* through edits, renames, answers and their moderation.
FreshUnlessDisturbed ==
    ~disturbed /\ Quiet =>
        \A s \in Slugs : cache[s].kind = "found" => cache[s] = View(s)

\* update writes purchases.slug before the invitation's own slug; as long as
\* calls neither overlap nor die, a purchase that was renamed has the slug of
\* its invitation.
PurchaseSlugAgrees ==
    ~disturbed /\ Quiet =>
        \A i \in Purchases : purchaseSlug[i] \in {None, invitations[i].slug}

LiveAnswers(i, n) ==
    {a \in Answers : answers[a].of = i /\ answers[a].name = n /\ ~answers[a].deleted}

Inserting(i, n) ==
    {w \in Workers : calls[w].pc = "insert" /\ calls[w].inv = i /\ calls[w].name = n}

\* "Check if an RSVP with the same name exists (update if present, otherwise
\* create new)" (rsvp.service.ts:82) is a query and a later insert: a guest has
\* at most one answer per call that can be in progress, with one call at a
\* time exactly one.
AnswersBounded ==
    \A i \in Purchases, n \in Names :
        Cardinality(LiveAnswers(i, n)) + Cardinality(Inserting(i, n))
            <= Cardinality(Workers)

\* "so guestbook updates instantly" (rsvp.service.ts:138): when no call is in
\* progress, the guestbook that is served is the stored one.
GuestbookInstant ==
    Quiet => \A s \in Slugs : cache[s].kind = "found" =>
                 cache[s].book = Shown(cache[s].inv)

\* A reader may fill a key with a page that was changed after it was read, but
\* not for good: after the last edit every cached page, and every cached
\* NOT_FOUND, becomes and stays what the database holds.
EventuallyFresh ==
    <>[](\A s \in Slugs : cache[s] \in {Empty, View(s)})
=============================================================================
