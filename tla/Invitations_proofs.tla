------------------------ MODULE Invitations_proofs ------------------------
(***************************************************************************)
(* Theorems about Invitations, for every number of purchases, slugs,       *)
(* answers and overlapping calls.                                          *)
(***************************************************************************)
EXTENDS Invitations, FiniteSetTheorems, TLAPS

\* The purchases that have an invitation, and the ids of stored answers.
Published == {i \in Purchases : Exists(i)}

Stored == {a \in Answers : answers[a] # NoAnswer}

\* What a call has read by the time it reaches a step, of the invitations in
\* pub and the answers in ans.
Good(k, pub, ans) ==
    /\ k \in Calls
    /\ k.pc \in {"fetch", "fill"} => k.slug \in Slugs
    /\ k.pc \in {"checkSlug", "create", "purchaseSlug"} => k.inv \in Purchases /\ k.to \in Slugs
    /\ k.pc = "checkSlug" => k.slug = None \/ k.inv \in pub
    /\ k.pc \in {"purchaseSlug", "update", "toggle", "findAnswer", "insert", "answerAgain"}
         => k.inv \in pub
    /\ k.pc = "toggle" => k.active \in BOOLEAN
    /\ k.pc \in Submitting => k.inv \in Purchases /\ k.name \in Names
    /\ k.pc = "lock" => k.key \in Keys
    /\ k.pc \in {"answerAgain", "hide", "remove"} => k.answer \in ans

CallsGood == \A w \in Workers : Good(calls[w], Published, Stored)

StoresOK ==
    /\ invitations \in [Purchases -> InvitationRows \cup {NoInvitation}]
    /\ purchaseSlug \in [Purchases -> Slugs \cup {None}]
    /\ answers \in [Answers -> AnswerRows \cup {NoAnswer}]
    /\ \A a \in Stored : answers[a].of \in Published
    /\ cache \in [Slugs -> Entries]
    /\ locks \subseteq Keys
    /\ writes \in Nat /\ failures \in Nat
    /\ disturbed \in BOOLEAN

\* The types, and what the calls in progress rely on: an invitation and an
\* answer stay once they are stored.
TypeInv == StoresOK /\ calls \in [Workers -> Calls] /\ CallsGood
-----------------------------------------------------------------------------
LEMMA TypeInvTypes == TypeInv => TypeOK
  BY DEF TypeInv, TypeOK, StoresOK

LEMMA IdleGood ==
  Idle \in Calls /\ Idle.pc = "idle" /\ \A pub, ans : Good(Idle, pub, ans)
<1>1. Empty \in Entries
  BY DEF Empty, Entries
<1>2. Idle \in Calls
  BY <1>1 DEF Idle, Calls, Steps
<1>. QED BY <1>2 DEF Good, Idle, Submitting

LEMMA InitTypeInv == Init => TypeInv
<1> SUFFICES ASSUME Init PROVE TypeInv
  OBVIOUS
<1>1. invitations \in [Purchases -> InvitationRows \cup {NoInvitation}]
  BY InvAssumption DEF Init, InvitationRows
<1>2. answers \in [Answers -> AnswerRows \cup {NoAnswer}] /\ Stored = {}
  BY DEF Init, Stored
<1>3. cache \in [Slugs -> Entries]
  BY DEF Init, Empty, Entries
<1>4. StoresOK
  BY <1>1, <1>2, <1>3 DEF Init, StoresOK
<1>5. calls \in [Workers -> Calls] /\ CallsGood
  BY IdleGood DEF Init, CallsGood
<1>. QED BY <1>4, <1>5 DEF TypeInv

\* No step removes an invitation or an answer.
Grows == Published \subseteq Published' /\ Stored \subseteq Stored'

LEMMA SameGrows == UNCHANGED <<invitations, answers>> => Grows
  BY DEF Grows, Published, Stored, Exists

LEMMA MoreIsGood ==
  ASSUME NEW k, NEW pub, NEW ans, NEW pub2, NEW ans2, pub \subseteq pub2, ans \subseteq ans2,
         Good(k, pub, ans)
  PROVE  Good(k, pub2, ans2)
  BY DEF Good

\* One call moves: it is enough to look at that call.
LEMMA StepCalls ==
  ASSUME TypeInv, StoresOK', Grows, NEW w \in Workers, NEW k,
         calls' = [calls EXCEPT ![w] = k], Good(k, Published', Stored')
  PROVE  TypeInv'
<1>1. calls \in [Workers -> Calls] /\ k \in Calls
  BY DEF TypeInv, Good
<1>2. calls' \in [Workers -> Calls]
  BY <1>1
<1>3. ASSUME NEW v \in Workers PROVE Good(calls'[v], Published', Stored')
  <2>1. CASE v = w
    BY <1>1, <2>1
  <2>2. CASE v # w
    <3>1. calls'[v] = calls[v] /\ Good(calls[v], Published, Stored)
      BY <1>1, <2>2 DEF TypeInv, CallsGood
    <3>. QED BY <3>1, MoreIsGood DEF Grows
  <2>. QED BY <2>1, <2>2
<1>. QED BY <1>2, <1>3 DEF TypeInv, CallsGood

LEMMA ReturnTypeInv ==
  ASSUME TypeInv, StoresOK', Grows, NEW w \in Workers, Return(w)
  PROVE  TypeInv'
  BY IdleGood, StepCalls DEF Return

\* A call goes on with what it has read.
LEMMA GotoTypeInv ==
  ASSUME TypeInv, StoresOK', Grows, NEW w \in Workers, NEW pc \in Steps, Goto(w, pc),
         Good([calls[w] EXCEPT !.pc = pc], Published', Stored')
  PROVE  TypeInv'
<1>1. PICK k : k = [calls[w] EXCEPT !.pc = pc]
  OBVIOUS
<1>2. calls' = [calls EXCEPT ![w] = k]
  BY <1>1 DEF Goto
<1>. QED BY <1>1, <1>2, StepCalls

LEMMA BeginTypeInv ==
  ASSUME TypeInv, NEW w \in Workers, NEW k, Begin(w, k), Good(k, Published, Stored),
         UNCHANGED <<invitations, purchaseSlug, answers, cache, locks>>,
         writes' \in Nat, failures' \in Nat
  PROVE  TypeInv'
<1>1. Published' = Published /\ Stored' = Stored
  BY DEF Published, Stored, Exists
<1>2. disturbed' \in BOOLEAN
  BY DEF Begin, Quiet
<1>3. StoresOK'
  BY <1>1, <1>2 DEF TypeInv, StoresOK, Exists
<1>. QED BY <1>1, <1>3, StepCalls DEF Begin, Grows

LEMMA BeginWriteTypeInv ==
  ASSUME TypeInv, NEW w \in Workers, NEW k, BeginWrite(w, k), Good(k, Published, Stored)
  PROVE  TypeInv'
<1>1. writes' \in Nat /\ failures' \in Nat
  BY DEF BeginWrite, TypeInv, StoresOK
<1>. QED BY <1>1, BeginTypeInv DEF BeginWrite, tables
-----------------------------------------------------------------------------
LEMMA InvitationFields ==
  ASSUME TypeInv, NEW i \in Purchases
  PROVE  /\ Exists(i) => /\ invitations[i] \in InvitationRows
                         /\ invitations[i].slug \in Slugs /\ invitations[i].active \in BOOLEAN
         /\ ~Exists(i) => invitations[i].slug = None
         /\ Exists(i) <=> invitations[i].slug \in Slugs
  BY InvAssumption DEF TypeInv, StoresOK, Exists, InvitationRows, NoInvitation

LEMMA ViewType == ASSUME TypeInv, NEW s \in Slugs PROVE View(s) \in Entries
<1>1. CASE InvitationAt(s) = {}
  BY <1>1 DEF View, Empty, Entries
<1>2. CASE InvitationAt(s) # {}
  <2>1. PICK i \in Purchases : i = CHOOSE j \in InvitationAt(s) : TRUE
    BY <1>2 DEF InvitationAt
  <2>2. i \in InvitationAt(s)
    BY <1>2, <2>1
  <2>3. invitations[i].active \in BOOLEAN /\ Shown(i) \subseteq Answers
    BY <2>2, InvitationFields DEF InvitationAt, Shown
  <2>4. View(s) = [kind |-> "found", inv |-> i, active |-> invitations[i].active, book |-> Shown(i)]
    BY <1>2, <2>1 DEF View
  <2>. QED BY <2>3, <2>4 DEF Entries
<1>. QED BY <1>1, <1>2

LEMMA ReadTypeInv ==
  ASSUME TypeInv, NEW w \in Workers, (\E s \in Slugs : FindBySlug(w, s)) \/ Fetch(w) \/ Fill(w)
  PROVE  TypeInv'
<1>1. ASSUME NEW s \in Slugs, FindBySlug(w, s) PROVE TypeInv'
  <2>. DEFINE k == [Idle EXCEPT !.pc = "fetch", !.slug = s]
  <2>1. k \in Calls /\ k.pc = "fetch" /\ k.slug = s
    BY IdleGood DEF Idle, Calls, Steps
  <2>2. Begin(w, k) /\ UNCHANGED <<invitations, purchaseSlug, answers, cache, locks>>
        /\ UNCHANGED <<writes, failures>>
    BY <1>1 DEF FindBySlug, tables, bounds
  <2>. HIDE DEF k
  <2>3. Good(k, Published, Stored)
    BY <2>1 DEF Good, Submitting
  <2>4. writes' \in Nat /\ failures' \in Nat
    BY <2>2 DEF TypeInv, StoresOK
  <2>. QED BY <2>2, <2>3, <2>4, BeginTypeInv
<1>2. CASE Fetch(w)
  <2>1. Good(calls[w], Published, Stored) /\ calls[w].pc = "fetch" /\ calls[w].slug \in Slugs
    BY <1>2 DEF Fetch, At, TypeInv, CallsGood, Good
  <2>2. PICK v \in Entries : v = View(calls[w].slug)
    BY <2>1, ViewType
  <2>3. PICK k : k = [calls[w] EXCEPT !.pc = "fill", !.view = v]
    OBVIOUS
  <2>4. calls' = [calls EXCEPT ![w] = k]
    BY <1>2, <2>2, <2>3 DEF Fetch
  <2>5. Good(k, Published, Stored)
    BY <2>1, <2>3 DEF Good, Calls, Steps, Submitting
  <2>6. Grows /\ StoresOK'
    BY <1>2, SameGrows DEF Fetch, tables, bounds, TypeInv, StoresOK, Stored, Published, Exists
  <2>7. Good(k, Published', Stored')
    BY <2>5, <2>6, MoreIsGood DEF Grows
  <2>. QED BY <2>4, <2>6, <2>7, StepCalls
<1>3. CASE Fill(w)
  <2>1. calls[w].slug \in Slugs /\ calls[w].view \in Entries
    BY <1>3 DEF Fill, At, TypeInv, CallsGood, Good, Calls
  <2>2. cache' \in [Slugs -> Entries]
    BY <1>3, <2>1 DEF Fill, TypeInv, StoresOK
  <2>3. Grows /\ StoresOK'
    BY <1>3, <2>2, SameGrows DEF Fill, Return, tables, bounds, TypeInv, StoresOK, Stored, Published,
       Exists
  <2>. QED BY <1>3, <2>3, ReturnTypeInv DEF Fill
<1>. QED BY <1>1, <1>2, <1>3

LEMMA StartTypeInv ==
  ASSUME TypeInv, NEW w \in Workers, Start(w)
  PROVE  TypeInv'
<1>1. ASSUME NEW s \in Slugs, FindBySlug(w, s) PROVE TypeInv'
  BY <1>1, ReadTypeInv
<1>2. ASSUME NEW i \in Purchases, NEW s \in Slugs, Create(w, i, s) PROVE TypeInv'
  <2>. DEFINE k == [Idle EXCEPT !.pc = "checkSlug", !.inv = i, !.to = s]
  <2>1. k \in Calls /\ k.pc = "checkSlug" /\ k.inv = i /\ k.to = s /\ k.slug = None
    BY IdleGood DEF Idle, Calls, Steps
  <2>2. BeginWrite(w, k)
    BY <1>2 DEF Create
  <2>. HIDE DEF k
  <2>3. Good(k, Published, Stored)
    BY <2>1 DEF Good, Submitting
  <2>. QED BY <2>2, <2>3, BeginWriteTypeInv
<1>3. ASSUME NEW i \in Purchases, NEW c \in Changes, Update(w, i, c) PROVE TypeInv'
  <2>1. c.slug \in Slugs \cup {None} /\ c.active \in BOOLEAN \cup {None}
    BY InvAssumption DEF ChangeDtos
  <2>2. PICK slug \in Slugs : slug = invitations[i].slug
    BY <1>3, InvitationFields DEF Update
  <2>3. PICK pc \in {"checkSlug", "update"} : pc = IF Renames(i, c) THEN "checkSlug" ELSE "update"
    OBVIOUS
  <2>4. pc = "checkSlug" => c.slug \in Slugs
    BY <2>1, <2>3 DEF Renames
  <2>. DEFINE k == [Idle EXCEPT !.pc = pc, !.inv = i, !.slug = slug, !.to = c.slug,
                                !.active = c.active]
  <2>5. k \in Calls /\ k.pc = pc /\ k.inv = i /\ k.to = c.slug
    <3>1. pc \in Steps /\ i \in Purchases \cup {None} /\ slug \in Slugs \cup {None}
      BY DEF Steps
    <3>. QED BY ONLY <2>1, <3>1, IdleGood DEF Calls
  <2>6. BeginWrite(w, k)
    BY <1>3, <2>2, <2>3 DEF Update
  <2>7. i \in Published
    BY <1>3 DEF Update, Published
  <2>. HIDE DEF k
  <2>8. Good(k, Published, Stored)
    BY <2>3, <2>4, <2>5, <2>7 DEF Good, Submitting
  <2>. QED BY <2>6, <2>8, BeginWriteTypeInv
<1>4. ASSUME NEW i \in Purchases, NEW b \in BOOLEAN, ToggleStatus(w, i, b) PROVE TypeInv'
  <2>1. PICK slug \in Slugs : slug = invitations[i].slug
    BY <1>4, InvitationFields DEF ToggleStatus
  <2>. DEFINE k == [Idle EXCEPT !.pc = "toggle", !.inv = i, !.slug = slug, !.active = b]
  <2>2. k \in Calls /\ k.pc = "toggle" /\ k.inv = i /\ k.active = b
    BY IdleGood DEF Idle, Calls, Steps
  <2>3. BeginWrite(w, k)
    BY <1>4, <2>1 DEF ToggleStatus
  <2>4. i \in Published
    BY <1>4 DEF ToggleStatus, Published
  <2>. HIDE DEF k
  <2>5. Good(k, Published, Stored)
    BY <2>2, <2>4 DEF Good, Submitting
  <2>. QED BY <2>3, <2>5, BeginWriteTypeInv
<1>5. ASSUME NEW i \in Purchases, NEW n \in Names, NEW y \in Keys, Submit(w, i, n, y) PROVE TypeInv'
  <2>. DEFINE k == [Idle EXCEPT !.pc = "lock", !.inv = i, !.name = n, !.key = y]
  <2>1. k \in Calls /\ k.pc = "lock" /\ k.inv = i /\ k.name = n /\ k.key = y
    BY IdleGood DEF Idle, Calls, Steps
  <2>2. BeginWrite(w, k)
    BY <1>5 DEF Submit
  <2>. HIDE DEF k
  <2>3. Good(k, Published, Stored)
    BY <2>1 DEF Good, Submitting
  <2>. QED BY <2>2, <2>3, BeginWriteTypeInv
<1>6. ASSUME NEW a \in Answers, NEW pc \in {"hide", "remove"}, Moderate(w, a, pc) PROVE TypeInv'
  <2>1. a \in Stored /\ answers[a].of \in Published
    BY <1>6 DEF Moderate, Stored, TypeInv, StoresOK
  <2>2. PICK slug \in Slugs : slug = invitations[answers[a].of].slug
    BY <2>1, InvitationFields DEF Published
  <2>3. PICK h \in BOOLEAN : h = ~answers[a].hidden
    OBVIOUS
  <2>. DEFINE k == [Idle EXCEPT !.pc = pc, !.answer = a, !.slug = slug, !.hidden = h]
  <2>4. k \in Calls /\ k.pc = pc /\ k.answer = a
    <3>1. pc \in Steps /\ a \in Answers \cup {None} /\ slug \in Slugs \cup {None}
      BY DEF Steps
    <3>. DEFINE k0 == [Idle EXCEPT !.pc = pc, !.answer = a, !.slug = slug]
    <3>2. k0 \in Calls /\ k0.pc = pc /\ k0.answer = a
      BY ONLY <3>1, IdleGood DEF Calls
    <3>3. k = [k0 EXCEPT !.hidden = h]
      BY ONLY IdleGood DEF Calls
    <3>. HIDE DEF k0, k
    <3>. QED BY ONLY <3>2, <3>3, h \in BOOLEAN DEF Calls
  <2>5. BeginWrite(w, k)
    BY <1>6, <2>2, <2>3 DEF Moderate
  <2>. HIDE DEF k
  <2>6. Good(k, Published, Stored)
    BY <2>1, <2>4 DEF Good, Submitting
  <2>. QED BY <2>5, <2>6, BeginWriteTypeInv
<1>. QED BY <1>1, <1>2, <1>3, <1>4, <1>5, <1>6 DEF Start

LEMMA RowWritten ==
  ASSUME TypeInv, NEW i \in Purchases, NEW row \in InvitationRows,
         \/ invitations' = invitations
         \/ invitations' = [invitations EXCEPT ![i] = row]
  PROVE  /\ invitations' \in [Purchases -> InvitationRows \cup {NoInvitation}]
         /\ Published \subseteq Published'
<1>1. invitations \in [Purchases -> InvitationRows \cup {NoInvitation}]
  BY DEF TypeInv, StoresOK
<1>2. row # NoInvitation
  BY InvAssumption DEF InvitationRows, NoInvitation
<1>3. invitations' \in [Purchases -> InvitationRows \cup {NoInvitation}]
  BY <1>1
<1>. QED BY <1>1, <1>2, <1>3 DEF Published, Exists

\* The steps of the calls that write an invitation.
LEMMA EditTypeInv ==
  ASSUME TypeInv, NEW w \in Workers,
         \/ CheckSlug(w) \/ CreateWrite(w) \/ WritePurchaseSlug(w) \/ UpdateWrite(w)
         \/ ToggleWrite(w)
  PROVE  TypeInv'
<1>. DEFINE k == calls[w]
<1>1. Good(k, Published, Stored) /\ k \in Calls
  BY DEF TypeInv, CallsGood
<1>2. CASE CheckSlug(w)
  <2>1. Grows /\ StoresOK'
    BY <1>2, SameGrows DEF CheckSlug, Goto, Return, tables, bounds, TypeInv, StoresOK, Stored,
       Published, Exists
  <2>2. CASE Return(w)
    BY <2>1, <2>2, ReturnTypeInv
  <2>3. CASE ~Return(w)
    <3>1. PICK pc \in {"create", "purchaseSlug"} :
             pc = IF k.slug = None THEN "create" ELSE "purchaseSlug"
      OBVIOUS
    <3>2. Goto(w, pc) /\ k.pc = "checkSlug"
      BY <1>2, <2>3, <3>1 DEF CheckSlug, At
    <3>3. PICK m : m = [k EXCEPT !.pc = pc]
      OBVIOUS
    <3>4. m \in Calls /\ m.pc = pc /\ m.inv = k.inv /\ m.to = k.to /\ m.slug = k.slug
      BY ONLY <1>1, <3>3, pc \in {"create", "purchaseSlug"} DEF Calls, Steps
    <3>5. Good(m, Published, Stored)
      BY <1>1, <3>1, <3>2, <3>4 DEF Good, Submitting
    <3>6. Good(m, Published', Stored')
      BY <2>1, <3>5, MoreIsGood DEF Grows
    <3>. QED BY <2>1, <3>2, <3>3, <3>6, GotoTypeInv DEF Steps
  <2>. QED BY <2>2, <2>3
<1>3. CASE CreateWrite(w)
  <2>1. k.inv \in Purchases /\ k.to \in Slugs
    BY <1>1, <1>3 DEF Good, CreateWrite, At
  <2>2. \/ invitations' = invitations
        \/ invitations' = [invitations EXCEPT ![k.inv] = [slug |-> k.to, active |-> TRUE]]
    BY <1>3 DEF CreateWrite
  <2>3. [slug |-> k.to, active |-> TRUE] \in InvitationRows
    BY <2>1 DEF InvitationRows
  <2>4. invitations' \in [Purchases -> InvitationRows \cup {NoInvitation}]
        /\ Published \subseteq Published'
    BY <2>1, <2>2, <2>3, RowWritten
  <2>5. Stored' = Stored
    BY <1>3 DEF CreateWrite, Stored
  <2>6. StoresOK'
    BY <1>3, <2>4, <2>5 DEF CreateWrite, Return, bounds, TypeInv, StoresOK
  <2>. QED BY <1>3, <2>4, <2>5, <2>6, ReturnTypeInv DEF CreateWrite, Grows
<1>4. CASE WritePurchaseSlug(w)
  <2>1. k.inv \in Purchases /\ k.to \in Slugs /\ k.inv \in Published /\ k.pc = "purchaseSlug"
    BY <1>1, <1>4 DEF Good, WritePurchaseSlug, At
  <2>2. purchaseSlug' \in [Purchases -> Slugs \cup {None}]
    BY <1>4, <2>1 DEF WritePurchaseSlug, TypeInv, StoresOK
  <2>3. Grows /\ StoresOK'
    BY <1>4, <2>2, SameGrows DEF WritePurchaseSlug, Goto, Return, bounds, TypeInv, StoresOK, Stored,
       Published, Exists
  <2>4. CASE Return(w)
    BY <2>3, <2>4, ReturnTypeInv
  <2>5. CASE Goto(w, "update")
    <3>1. PICK m : m = [k EXCEPT !.pc = "update"]
      OBVIOUS
    <3>2. m \in Calls /\ m.pc = "update" /\ m.inv = k.inv
      BY ONLY <1>1, <3>1 DEF Calls, Steps
    <3>3. Good(m, Published, Stored)
      BY <2>1, <3>2 DEF Good, Submitting
    <3>4. Good(m, Published', Stored')
      BY <2>3, <3>3, MoreIsGood DEF Grows
    <3>. QED BY <2>3, <2>5, <3>1, <3>4, GotoTypeInv DEF Steps
  <2>. QED BY <1>4, <2>4, <2>5 DEF WritePurchaseSlug
<1>5. CASE UpdateWrite(w)
  <2>1. k.inv \in Purchases /\ Exists(k.inv) /\ k.pc = "update"
    BY <1>1, <1>5 DEF Good, UpdateWrite, At, Published
  <2>2. PICK slug \in Slugs : slug = Given(k.to, invitations[k.inv].slug)
    BY <1>1, <2>1, InvitationFields DEF Given, Calls
  <2>3. PICK active \in BOOLEAN : active = Given(k.active, invitations[k.inv].active)
    BY <1>1, <2>1, InvitationFields DEF Given, Calls
  <2>4. PICK row \in InvitationRows : row = [slug |-> slug, active |-> active]
    BY DEF InvitationRows
  <2>5. \/ invitations' = invitations /\ Return(w)
        \/ /\ invitations' = [invitations EXCEPT ![k.inv] = row]
           /\ calls' = [calls EXCEPT ![w].pc = "drop", ![w].newSlug = slug]
           /\ UNCHANGED <<bounds, disturbed>>
    BY <1>5, <2>2, <2>3, <2>4 DEF UpdateWrite
  <2>6. invitations' \in [Purchases -> InvitationRows \cup {NoInvitation}]
        /\ Published \subseteq Published'
    BY <2>1, <2>5, RowWritten
  <2>7. Stored' = Stored
    BY <1>5 DEF UpdateWrite, Stored
  <2>8. StoresOK' /\ Grows
    BY <1>5, <2>5, <2>6, <2>7 DEF UpdateWrite, Return, bounds, TypeInv, StoresOK, Grows
  <2>9. CASE Return(w)
    BY <2>8, <2>9, ReturnTypeInv
  <2>10. CASE ~Return(w)
    <3>1. PICK m : m = [k EXCEPT !.pc = "drop", !.newSlug = slug]
      OBVIOUS
    <3>2. m \in Calls /\ m.pc = "drop"
      BY ONLY <1>1, <3>1, slug \in Slugs DEF Calls, Steps
    <3>3. Good(m, Published', Stored')
      BY <3>2 DEF Good, Submitting
    <3>4. calls' = [calls EXCEPT ![w] = m]
      BY <2>5, <2>10, <3>1
    <3>. QED BY <2>8, <3>3, <3>4, StepCalls
  <2>. QED BY <2>9, <2>10
<1>6. CASE ToggleWrite(w)
  <2>1. k.inv \in Purchases /\ Exists(k.inv) /\ k.active \in BOOLEAN
    BY <1>1, <1>6 DEF Good, ToggleWrite, At, Published
  <2>2. invitations' = [invitations EXCEPT ![k.inv].active = k.active] /\ Goto(w, "drop")
    BY <1>6 DEF ToggleWrite
  <2>3. invitations[k.inv] \in InvitationRows
    BY <2>1, InvitationFields
  <2>4. [invitations[k.inv] EXCEPT !.active = k.active] \in InvitationRows
    BY <2>1, <2>3 DEF InvitationRows
  <2>5. invitations' \in [Purchases -> InvitationRows \cup {NoInvitation}]
        /\ Published \subseteq Published'
    <3>1. PICK row \in InvitationRows : row = [invitations[k.inv] EXCEPT !.active = k.active]
      BY <2>4
    <3>2. invitations' = [invitations EXCEPT ![k.inv] = row]
      BY <2>1, <2>2, <3>1 DEF TypeInv, StoresOK
    <3>. QED BY <2>1, <3>2, RowWritten
  <2>6. Stored' = Stored
    BY <1>6 DEF ToggleWrite, Stored
  <2>7. StoresOK' /\ Grows
    BY <1>6, <2>5, <2>6 DEF ToggleWrite, Goto, bounds, TypeInv, StoresOK, Grows
  <2>8. PICK m : m = [k EXCEPT !.pc = "drop"]
    OBVIOUS
  <2>9. m \in Calls /\ m.pc = "drop"
    BY ONLY <1>1, <2>8 DEF Calls, Steps
  <2>10. Good(m, Published', Stored')
    BY <2>9 DEF Good, Submitting
  <2>. QED BY <2>2, <2>7, <2>8, <2>10, GotoTypeInv DEF Steps
<1>. QED BY <1>2, <1>3, <1>4, <1>5, <1>6

\* The answers of a step that writes none, one new or one that is stored.
LEMMA AnswerWritten ==
  ASSUME TypeInv, NEW a \in Answers, NEW row \in AnswerRows, row.of \in Published,
         answers' = [answers EXCEPT ![a] = row]
  PROVE  /\ answers' \in [Answers -> AnswerRows \cup {NoAnswer}]
         /\ Stored' = Stored \cup {a}
         /\ \A b \in Stored' : answers'[b].of \in Published
<1>1. answers \in [Answers -> AnswerRows \cup {NoAnswer}]
      /\ \A b \in Stored : answers[b].of \in Published
  BY DEF TypeInv, StoresOK
<1>2. row # NoAnswer
  BY InvAssumption DEF AnswerRows, NoAnswer
<1>3. answers' \in [Answers -> AnswerRows \cup {NoAnswer}]
  BY <1>1
<1>4. Stored' = Stored \cup {a}
  BY <1>1, <1>2 DEF Stored
<1>. QED BY <1>1, <1>3, <1>4 DEF Stored

\* What the reads of a guest's form leave to its insert.
LEMMA FormTypeInv ==
  ASSUME TypeInv, NEW w \in Workers, SetLock(w) \/ ReadInvitation(w) \/ FindAnswer(w)
  PROVE  TypeInv'
<1>. DEFINE k == calls[w]
<1>1. Good(k, Published, Stored) /\ k \in Calls
  BY DEF TypeInv, CallsGood
<1>2. CASE SetLock(w)
  <2>1. k.pc = "lock" /\ k.key \in Keys /\ k.inv \in Purchases /\ k.name \in Names
    BY <1>1, <1>2 DEF SetLock, At, Good, Submitting
  <2>2. Grows /\ StoresOK'
    BY <1>2, <2>1, SameGrows DEF SetLock, Goto, Return, tables, bounds, TypeInv, StoresOK, Stored,
       Published, Exists
  <2>3. CASE Return(w)
    BY <2>2, <2>3, ReturnTypeInv
  <2>4. CASE Goto(w, "readInvitation")
    <3>1. PICK m : m = [k EXCEPT !.pc = "readInvitation"]
      OBVIOUS
    <3>2. m \in Calls /\ m.pc = "readInvitation" /\ m.inv = k.inv /\ m.name = k.name
      BY ONLY <1>1, <3>1 DEF Calls, Steps
    <3>3. Good(m, Published', Stored')
      BY <2>1, <3>2 DEF Good, Submitting
    <3>. QED BY <2>2, <2>4, <3>1, <3>3, GotoTypeInv DEF Steps
  <2>. QED BY <1>2, <2>3, <2>4 DEF SetLock
<1>3. CASE ReadInvitation(w)
  <2>1. k.pc = "readInvitation" /\ k.inv \in Purchases /\ k.name \in Names
    BY <1>1, <1>3 DEF ReadInvitation, At, Good, Submitting
  <2>2. Grows /\ StoresOK'
    BY <1>3, SameGrows DEF ReadInvitation, Return, tables, bounds, TypeInv, StoresOK, Stored,
       Published, Exists
  <2>3. CASE ~Exists(k.inv)
    BY <1>3, <2>2, <2>3, ReturnTypeInv DEF ReadInvitation
  <2>4. CASE Exists(k.inv)
    <3>1. PICK slug \in Slugs : slug = invitations[k.inv].slug
      BY <2>1, <2>4, InvitationFields
    <3>2. PICK m : m = [k EXCEPT !.pc = "findAnswer", !.slug = slug]
      OBVIOUS
    <3>3. m \in Calls /\ m.pc = "findAnswer" /\ m.inv = k.inv /\ m.name = k.name
      BY ONLY <1>1, <3>2, slug \in Slugs DEF Calls, Steps
    <3>4. Good(m, Published, Stored)
      BY <2>1, <2>4, <3>3 DEF Good, Submitting, Published
    <3>5. Good(m, Published', Stored')
      BY <2>2, <3>4, MoreIsGood DEF Grows
    <3>6. calls' = [calls EXCEPT ![w] = m]
      BY <1>3, <2>4, <3>1, <3>2 DEF ReadInvitation
    <3>. QED BY <2>2, <3>5, <3>6, StepCalls
  <2>. QED BY <2>3, <2>4
<1>4. CASE FindAnswer(w)
  <2>1. k.pc = "findAnswer" /\ k.inv \in Purchases /\ k.name \in Names /\ k.inv \in Published
    BY <1>1, <1>4 DEF FindAnswer, At, Good, Submitting
  <2>2. Grows /\ StoresOK'
    BY <1>4, SameGrows DEF FindAnswer, Goto, tables, bounds, TypeInv, StoresOK, Stored,
       Published, Exists
  <2>3. CASE Goto(w, "insert")
    <3>1. PICK m : m = [k EXCEPT !.pc = "insert"]
      OBVIOUS
    <3>2. m \in Calls /\ m.pc = "insert" /\ m.inv = k.inv /\ m.name = k.name
      BY ONLY <1>1, <3>1 DEF Calls, Steps
    <3>3. Good(m, Published, Stored)
      BY <2>1, <3>2 DEF Good, Submitting
    <3>4. Good(m, Published', Stored')
      BY <2>2, <3>3, MoreIsGood DEF Grows
    <3>. QED BY <2>2, <2>3, <3>1, <3>4, GotoTypeInv DEF Steps
  <2>4. CASE ~Goto(w, "insert")
    <3>1. PICK a \in Earlier(k.inv, k.name) :
             calls' = [calls EXCEPT ![w].pc = "answerAgain", ![w].answer = a]
      BY <1>4, <2>4 DEF FindAnswer
    <3>2. a \in Answers /\ a \in Stored
      BY <2>1, <3>1, InvAssumption DEF Earlier, Stored, NoAnswer
    <3>3. PICK m : m = [k EXCEPT !.pc = "answerAgain", !.answer = a]
      OBVIOUS
    <3>4. m \in Calls /\ m.pc = "answerAgain" /\ m.inv = k.inv /\ m.answer = a
      BY ONLY <1>1, <3>2, <3>3 DEF Calls, Steps
    <3>5. Good(m, Published, Stored)
      BY <2>1, <3>2, <3>4 DEF Good, Submitting
    <3>6. Good(m, Published', Stored')
      BY <2>2, <3>5, MoreIsGood DEF Grows
    <3>7. calls' = [calls EXCEPT ![w] = m]
      BY <3>1, <3>3
    <3>. QED BY <2>2, <3>6, <3>7, StepCalls
  <2>. QED BY <2>3, <2>4
<1>. QED BY <1>2, <1>3, <1>4

\* A step that writes one answer and goes on to delete the cached page.
LEMMA WriteTypeInv ==
  ASSUME TypeInv, NEW w \in Workers,
         \/ answers' = answers
         \/ \E a \in Answers, row \in AnswerRows :
               row.of \in Published /\ answers' = [answers EXCEPT ![a] = row],
         Goto(w, "drop"), UNCHANGED <<invitations, purchaseSlug, cache, locks>>
  PROVE  TypeInv'
<1>1. Published' = Published
  BY DEF Published, Exists
<1>2. /\ answers' \in [Answers -> AnswerRows \cup {NoAnswer}]
      /\ Stored \subseteq Stored'
      /\ \A b \in Stored' : answers'[b].of \in Published
  <2>1. CASE answers' = answers
    BY <2>1 DEF TypeInv, StoresOK, Stored
  <2>2. CASE answers' # answers
    <3>1. PICK a \in Answers, row \in AnswerRows :
             row.of \in Published /\ answers' = [answers EXCEPT ![a] = row]
      BY <2>2
    <3>. QED BY <3>1, AnswerWritten
  <2>. QED BY <2>1, <2>2
<1>3. StoresOK' /\ Grows
  BY <1>1, <1>2 DEF Goto, bounds, TypeInv, StoresOK, Grows
<1>4. PICK m : m = [calls[w] EXCEPT !.pc = "drop"]
  OBVIOUS
<1>5. calls[w] \in Calls
  BY DEF TypeInv
<1>6. m \in Calls /\ m.pc = "drop"
  BY ONLY <1>4, <1>5 DEF Calls, Steps
<1>7. Good(m, Published', Stored')
  BY <1>6 DEF Good, Submitting
<1>. QED BY <1>3, <1>4, <1>7, GotoTypeInv DEF Steps

\* What the writes of a guest's form and of its moderation do to the answers.
LEMMA AnswerStep ==
  ASSUME TypeInv, NEW w \in Workers,
         InsertAnswer(w) \/ AnswerAgain(w) \/ ToggleHide(w) \/ SoftDelete(w)
  PROVE  /\ \/ answers' = answers
            \/ \E a \in Answers, row \in AnswerRows :
                  row.of \in Published /\ answers' = [answers EXCEPT ![a] = row]
         /\ Goto(w, "drop") /\ UNCHANGED <<invitations, purchaseSlug, cache, locks>>
<1>. DEFINE k == calls[w]
<1>1. Good(k, Published, Stored) /\ answers \in [Answers -> AnswerRows \cup {NoAnswer}]
      /\ \A b \in Stored : answers[b] \in AnswerRows /\ answers[b].of \in Published
  BY DEF TypeInv, CallsGood, StoresOK, Stored
<1>2. CASE InsertAnswer(w)
  <2>1. k.inv \in Published /\ k.name \in Names
    BY <1>1, <1>2 DEF InsertAnswer, At, Good, Submitting
  <2>2. PICK row : row = [of |-> k.inv, name |-> k.name, hidden |-> FALSE, deleted |-> FALSE]
    OBVIOUS
  <2>3. row \in AnswerRows /\ row.of \in Published
    BY <2>1, <2>2 DEF AnswerRows, Published
  <2>4. PICK a : a = CHOOSE b \in FreshAnswers : TRUE
    OBVIOUS
  <2>5. answers' = [answers EXCEPT ![a] = row]
    BY <1>2, <2>2, <2>4 DEF InsertAnswer
  <2>6. a \notin Answers => answers' = answers
    BY <1>1, <2>5
  <2>. QED BY <1>2, <2>3, <2>5, <2>6 DEF InsertAnswer
<1>3. CASE ~InsertAnswer(w)
  <2>1. PICK a \in Stored : a = k.answer
    BY <1>1, <1>3 DEF AnswerAgain, ToggleHide, SoftDelete, At, Good
  <2>2. PICK h \in BOOLEAN, d \in BOOLEAN :
           answers' = [answers EXCEPT ![a] = [@ EXCEPT !.hidden = h, !.deleted = d]]
    <3>1. answers[a].hidden \in BOOLEAN /\ answers[a].deleted \in BOOLEAN /\ answers[a] \in AnswerRows
      BY <1>1, <2>1 DEF AnswerRows
    <3>2. CASE AnswerAgain(w)
      <4>1. answers' = [answers EXCEPT ![a] = [@ EXCEPT !.hidden = FALSE, !.deleted = answers[a].deleted]]
        BY <2>1, <3>1, <3>2 DEF AnswerAgain, AnswerRows
      <4>. QED BY <3>1, <4>1
    <3>3. CASE ToggleHide(w)
      <4>1. k.hidden \in BOOLEAN
        BY <1>1 DEF Good, Calls
      <4>2. answers' = [answers EXCEPT ![a] = [@ EXCEPT !.hidden = k.hidden, !.deleted = answers[a].deleted]]
        BY <2>1, <3>1, <3>3 DEF ToggleHide, AnswerRows
      <4>. QED BY <3>1, <4>1, <4>2
    <3>4. CASE SoftDelete(w)
      <4>1. answers' = [answers EXCEPT ![a] = [@ EXCEPT !.hidden = answers[a].hidden, !.deleted = TRUE]]
        BY <2>1, <3>1, <3>4 DEF SoftDelete, AnswerRows
      <4>. QED BY <3>1, <4>1
    <3>. QED BY <1>3, <3>2, <3>3, <3>4
  <2>3. PICK row : row = [answers[a] EXCEPT !.hidden = h, !.deleted = d]
    OBVIOUS
  <2>4. row \in AnswerRows /\ row.of = answers[a].of
    BY <1>1, <2>1, <2>3 DEF AnswerRows
  <2>5. answers' = [answers EXCEPT ![a] = row] /\ a \in Answers
    BY <2>1, <2>2, <2>3 DEF Stored
  <2>. QED BY <1>1, <1>3, <2>1, <2>4, <2>5 DEF AnswerAgain, ToggleHide, SoftDelete
<1>. QED BY <1>2, <1>3

\* The deletes of cached pages and their time-outs.
LEMMA CacheTypeInv ==
  ASSUME TypeInv, NEW w \in Workers, Drop(w) \/ DropNew(w)
  PROVE  TypeInv'
<1>. DEFINE k == calls[w]
<1>1. Empty \in Entries /\ k \in Calls
  BY DEF Empty, Entries, TypeInv
<1>2. cache' \in [Slugs -> Entries] /\ UNCHANGED <<invitations, purchaseSlug, answers, locks>>
      /\ UNCHANGED <<writes, failures, disturbed>>
  BY <1>1 DEF Drop, DropNew, Goto, Return, tables, bounds, TypeInv, StoresOK
<1>3. Grows /\ StoresOK'
  BY <1>2, SameGrows DEF TypeInv, StoresOK, Stored, Published, Exists
<1>4. CASE Return(w)
  BY <1>3, <1>4, ReturnTypeInv
<1>5. CASE Goto(w, "dropNew")
  <2>1. PICK m : m = [k EXCEPT !.pc = "dropNew"]
    OBVIOUS
  <2>2. m \in Calls /\ m.pc = "dropNew"
    BY ONLY <1>1, <2>1 DEF Calls, Steps
  <2>3. Good(m, Published', Stored')
    BY <2>2 DEF Good, Submitting
  <2>. QED BY <1>3, <1>5, <2>1, <2>3, GotoTypeInv DEF Steps
<1>. QED BY <1>4, <1>5 DEF Drop, DropNew

LEMMA NextTypeInv == TypeInv /\ [Next]_vars => TypeInv'
<1> SUFFICES ASSUME TypeInv, [Next]_vars PROVE TypeInv'
  OBVIOUS
<1>1. CASE UNCHANGED vars
  BY <1>1 DEF vars, TypeInv, StoresOK, CallsGood, Stored, Published, Exists
<1>2. ASSUME NEW w \in Workers, Start(w) PROVE TypeInv'
  BY <1>2, StartTypeInv
<1>3. ASSUME NEW w \in Workers, Step(w) PROVE TypeInv'
  <2>1. CASE Fetch(w) \/ Fill(w)
    BY <2>1, ReadTypeInv
  <2>2. CASE \/ CheckSlug(w) \/ CreateWrite(w) \/ WritePurchaseSlug(w) \/ UpdateWrite(w)
             \/ ToggleWrite(w)
    BY <2>2, EditTypeInv
  <2>3. CASE SetLock(w) \/ ReadInvitation(w) \/ FindAnswer(w)
    BY <2>3, FormTypeInv
  <2>4. CASE InsertAnswer(w) \/ AnswerAgain(w) \/ ToggleHide(w) \/ SoftDelete(w)
    BY <2>4, AnswerStep, WriteTypeInv
  <2>5. CASE Drop(w) \/ DropNew(w)
    BY <2>5, CacheTypeInv
  <2>. QED BY <1>3, <2>1, <2>2, <2>3, <2>4, <2>5 DEF Step
<1>4. ASSUME NEW w \in Workers, Fail(w) PROVE TypeInv'
  <2>1. Grows /\ StoresOK'
    BY <1>4, SameGrows DEF Fail, tables, TypeInv, StoresOK, Stored, Published, Exists
  <2>. QED BY <1>4, <2>1, IdleGood, StepCalls DEF Fail
<1>5. ASSUME NEW s \in Slugs, Expire(s) PROVE TypeInv'
  <2>1. Empty \in Entries
    BY DEF Empty, Entries
  <2>2. cache' \in [Slugs -> Entries]
    BY <1>5, <2>1 DEF Expire, TypeInv, StoresOK
  <2>. QED BY <1>5, <2>2 DEF Expire, tables, bounds, TypeInv, StoresOK, CallsGood, Stored,
            Published, Exists
<1>6. ASSUME NEW y \in Keys, LockExpires(y) PROVE TypeInv'
  BY <1>6 DEF LockExpires, tables, bounds, TypeInv, StoresOK, CallsGood, Stored, Published, Exists
<1>. QED BY <1>1, <1>2, <1>3, <1>4, <1>5, <1>6 DEF Next

\* Every variable always has its type (invitation.service.ts, rsvp.service.ts).
THEOREM TypeCorrect == Spec => []TypeOK
<1>1. Spec => []TypeInv
  BY InitTypeInv, NextTypeInv, PTL DEF Spec
<1>. QED BY <1>1, TypeInvTypes, PTL
-----------------------------------------------------------------------------
\* A step is the step of one call.
LEMMA OneMoves ==
  ASSUME TypeInv, NEW w \in Workers, Start(w) \/ Step(w) \/ Fail(w)
  PROVE  \A v \in Workers : v # w => calls'[v] = calls[v]
<1>1. calls \in [Workers -> Calls]
  BY DEF TypeInv
<1>2. CASE Start(w)
  <2>1. \E k : calls' = [calls EXCEPT ![w] = k]
    BY <1>2 DEF Start, FindBySlug, Create, Update, ToggleStatus, Submit, Moderate, BeginWrite, Begin
  <2>. QED BY <1>1, <2>1
<1>3. CASE Step(w)
  <2>1. CASE Fetch(w) \/ Fill(w) \/ CheckSlug(w) \/ CreateWrite(w) \/ WritePurchaseSlug(w)
    BY <1>1, <2>1 DEF Fetch, Fill, CheckSlug, CreateWrite, WritePurchaseSlug, Goto, Return
  <2>2. CASE UpdateWrite(w) \/ ToggleWrite(w) \/ SetLock(w) \/ ReadInvitation(w)
    BY <1>1, <2>2 DEF UpdateWrite, ToggleWrite, SetLock, ReadInvitation, Goto, Return
  <2>3. CASE FindAnswer(w) \/ InsertAnswer(w) \/ AnswerAgain(w) \/ ToggleHide(w)
    BY <1>1, <2>3 DEF FindAnswer, InsertAnswer, AnswerAgain, ToggleHide, Goto
  <2>4. CASE SoftDelete(w) \/ Drop(w) \/ DropNew(w)
    BY <1>1, <2>4 DEF SoftDelete, Drop, DropNew, Goto, Return
  <2>. QED BY <1>3, <2>1, <2>2, <2>3, <2>4 DEF Step
<1>4. CASE Fail(w)
  BY <1>1, <1>4 DEF Fail
<1>. QED BY <1>2, <1>3, <1>4

\* A call begins with a read, or with the first of its writes; it knows the
\* slug of the invitation that it is about to write.
Starts == {"fetch", "checkSlug", "update", "toggle", "lock", "hide", "remove"}

FirstReads(k) ==
    /\ k.pc \in {"update", "toggle"} \/ (k.pc = "checkSlug" /\ k.slug # None)
         => k.slug = invitations[k.inv].slug
    /\ k.pc = "update" => k.to \in {None, k.slug}
    /\ k.pc \in {"hide", "remove"} => k.slug = invitations[answers[k.answer].of].slug
    /\ k.pc = "lock" => Room

Started(w) ==
    \E k : /\ Begin(w, k) /\ UNCHANGED <<tables, cache, locks>>
          /\ k.pc \in Starts /\ FirstReads(k)

LEMMA StartsAt ==
  ASSUME NEW w \in Workers, Start(w)
  PROVE  Started(w)
<1>. USE DEF Started
<1>1. ASSUME NEW s \in Slugs, FindBySlug(w, s) PROVE  Started(w)
  <2>1. PICK k : k = [Idle EXCEPT !.pc = "fetch", !.slug = s]
    OBVIOUS
  <2>2. k.pc \in Starts /\ FirstReads(k)
    BY <2>1 DEF Idle, Starts, FirstReads
  <2>. QED BY <1>1, <2>1, <2>2 DEF FindBySlug, tables
<1>2. ASSUME NEW i \in Purchases, NEW s \in Slugs, Create(w, i, s) PROVE  Started(w)
  <2>1. PICK k : k = [Idle EXCEPT !.pc = "checkSlug", !.inv = i, !.to = s]
    OBVIOUS
  <2>2. k.pc \in Starts /\ FirstReads(k)
    BY <2>1 DEF Idle, Starts, FirstReads
  <2>. QED BY <1>2, <2>1, <2>2 DEF Create, BeginWrite
<1>3. ASSUME NEW i \in Purchases, NEW c \in Changes, Update(w, i, c) PROVE  Started(w)
  <2>1. PICK pc \in {"checkSlug", "update"} : pc = IF Renames(i, c) THEN "checkSlug" ELSE "update"
    OBVIOUS
  <2>2. PICK slug : slug = invitations[i].slug
    OBVIOUS
  <2>3. PICK k : k = [Idle EXCEPT !.pc = pc, !.inv = i, !.slug = slug, !.to = c.slug,
                                  !.active = c.active]
    OBVIOUS
  <2>4. k.pc = pc /\ k.inv = i /\ k.slug = slug /\ k.to = c.slug
    BY ONLY <2>3 DEF Idle
  <2>5. pc = "update" => c.slug \in {None, slug}
    BY <2>1, <2>2 DEF Renames
  <2>6. k.pc \in Starts /\ FirstReads(k)
    BY <2>2, <2>4, <2>5 DEF Starts, FirstReads
  <2>. QED BY <1>3, <2>1, <2>2, <2>3, <2>6 DEF Update, BeginWrite
<1>4. ASSUME NEW i \in Purchases, NEW b \in BOOLEAN, ToggleStatus(w, i, b) PROVE  Started(w)
  <2>1. PICK slug : slug = invitations[i].slug
    OBVIOUS
  <2>2. PICK k : k = [Idle EXCEPT !.pc = "toggle", !.inv = i, !.slug = slug, !.active = b]
    OBVIOUS
  <2>3. k.pc = "toggle" /\ k.inv = i /\ k.slug = slug
    BY ONLY <2>2 DEF Idle
  <2>4. k.pc \in Starts /\ FirstReads(k)
    BY <2>1, <2>3 DEF Starts, FirstReads
  <2>. QED BY <1>4, <2>1, <2>2, <2>4 DEF ToggleStatus, BeginWrite
<1>5. ASSUME NEW i \in Purchases, NEW n \in Names, NEW y \in Keys, Submit(w, i, n, y)
      PROVE  Started(w)
  <2>1. PICK k : k = [Idle EXCEPT !.pc = "lock", !.inv = i, !.name = n, !.key = y]
    OBVIOUS
  <2>2. k.pc = "lock"
    BY ONLY <2>1 DEF Idle
  <2>3. k.pc \in Starts /\ FirstReads(k)
    BY <1>5, <2>2 DEF Starts, FirstReads, Submit
  <2>. QED BY <1>5, <2>1, <2>3 DEF Submit, BeginWrite
<1>6. ASSUME NEW a \in Answers, NEW pc \in {"hide", "remove"}, Moderate(w, a, pc)
      PROVE  Started(w)
  <2>1. PICK slug, h : slug = invitations[answers[a].of].slug /\ h = ~answers[a].hidden
    OBVIOUS
  <2>2. PICK k : k = [Idle EXCEPT !.pc = pc, !.answer = a, !.slug = slug, !.hidden = h]
    OBVIOUS
  <2>3. k.pc = pc /\ k.answer = a /\ k.slug = slug
    BY ONLY <2>2 DEF Idle
  <2>4. k.pc \in Starts /\ FirstReads(k)
    BY <2>1, <2>3 DEF Starts, FirstReads
  <2>. QED BY <1>6, <2>1, <2>2, <2>4 DEF Moderate, BeginWrite
<1>. QED BY <1>1, <1>2, <1>3, <1>4, <1>5, <1>6 DEF Start

LEMMA OnlySearchInserts ==
  ASSUME TypeInv, NEW w \in Workers, Start(w) \/ Step(w) \/ Fail(w), ~FindAnswer(w)
  PROVE  calls'[w].pc # "insert"
<1>1. calls \in [Workers -> Calls]
  BY DEF TypeInv
<1>2. CASE Start(w)
  BY <1>1, <1>2, StartsAt DEF Started, Begin, Starts
<1>3. CASE Step(w)
  <2>1. CASE Fetch(w) \/ Fill(w) \/ CheckSlug(w) \/ CreateWrite(w) \/ WritePurchaseSlug(w)
    BY <1>1, <2>1 DEF Fetch, Fill, CheckSlug, CreateWrite, WritePurchaseSlug, Goto, Return, Idle,
       Calls
  <2>2. CASE UpdateWrite(w) \/ ToggleWrite(w) \/ SetLock(w) \/ ReadInvitation(w)
    BY <1>1, <2>2 DEF UpdateWrite, ToggleWrite, SetLock, ReadInvitation, Goto, Return, Idle, Calls
  <2>3. CASE InsertAnswer(w) \/ AnswerAgain(w) \/ ToggleHide(w)
    BY <1>1, <2>3 DEF InsertAnswer, AnswerAgain, ToggleHide, Goto, Calls
  <2>4. CASE SoftDelete(w) \/ Drop(w) \/ DropNew(w)
    BY <1>1, <2>4 DEF SoftDelete, Drop, DropNew, Goto, Return, Idle, Calls
  <2>. QED BY <1>3, <2>1, <2>2, <2>3, <2>4 DEF Step
<1>4. CASE Fail(w)
  BY <1>1, <1>4 DEF Fail, Idle
<1>. QED BY <1>2, <1>3, <1>4

LEMMA SameInserting ==
  ASSUME NEW w \in Workers, \A v \in Workers : v # w => calls'[v] = calls[v],
         calls'[w].pc # "insert", NEW i, NEW n
  PROVE  /\ Inserting(i, n)' \subseteq Inserting(i, n)
         /\ w \notin Inserting(i, n)'
  BY DEF Inserting

\* The answers are finitely many: each was inserted by a step.
Bounded(i, n) ==
    /\ IsFiniteSet(LiveAnswers(i, n))
    /\ Cardinality(LiveAnswers(i, n)) + Cardinality(Inserting(i, n)) <= Cardinality(Workers)

AnswersInv == TypeInv /\ \A i \in Purchases, n \in Names : Bounded(i, n)

LEMMA InsertingFinite ==
  ASSUME NEW i, NEW n
  PROVE  /\ IsFiniteSet(Inserting(i, n)) /\ Cardinality(Inserting(i, n)) \in Nat
         /\ Cardinality(Inserting(i, n)) <= Cardinality(Workers)
         /\ Cardinality(Workers) \in Nat
  BY InvAssumption, FS_Subset, FS_CardinalityType DEF Inserting

LEMMA InsertingFiniteNext ==
  ASSUME NEW i, NEW n
  PROVE  /\ IsFiniteSet(Inserting(i, n)') /\ Cardinality(Inserting(i, n)') \in Nat
         /\ Cardinality(Inserting(i, n)') <= Cardinality(Workers)
  BY InvAssumption, FS_Subset, FS_CardinalityType DEF Inserting

LEMMA OneMore ==
  ASSUME NEW S, NEW T, NEW x, IsFiniteSet(S), T \subseteq S \cup {x}
  PROVE  /\ IsFiniteSet(T) /\ Cardinality(T) \in Nat /\ Cardinality(S) \in Nat
         /\ Cardinality(T) <= Cardinality(S) + 1
<1>1. IsFiniteSet(S \cup {x})
      /\ Cardinality(S \cup {x}) = IF x \in S THEN Cardinality(S) ELSE Cardinality(S) + 1
  BY FS_AddElement
<1>2. Cardinality(S) \in Nat
  BY FS_CardinalityType
<1>3. IsFiniteSet(T) /\ Cardinality(T) <= Cardinality(S \cup {x})
  BY <1>1, FS_Subset
<1>4. Cardinality(T) \in Nat
  BY <1>3, FS_CardinalityType
<1>. QED BY ONLY <1>1, <1>2, <1>3, <1>4

LEMMA OneLess ==
  ASSUME NEW S, NEW T, NEW x \in S, IsFiniteSet(S), T \subseteq S \ {x}
  PROVE  /\ Cardinality(T) \in Nat /\ Cardinality(S) \in Nat
         /\ Cardinality(T) <= Cardinality(S) - 1
<1>1. IsFiniteSet(S \ {x}) /\ Cardinality(S \ {x}) = Cardinality(S) - 1
  BY FS_RemoveElement
<1>2. Cardinality(S) \in Nat
  BY FS_CardinalityType
<1>3. IsFiniteSet(T) /\ Cardinality(T) <= Cardinality(S \ {x})
  BY <1>1, FS_Subset
<1>4. Cardinality(T) \in Nat
  BY <1>3, FS_CardinalityType
<1>. QED BY ONLY <1>1, <1>2, <1>3, <1>4

\* A step that adds neither an answer of the guest nor a call about to insert one.
LEMMA FewerBounded ==
  ASSUME NEW i, NEW n, Bounded(i, n), LiveAnswers(i, n)' \subseteq LiveAnswers(i, n),
         Inserting(i, n)' \subseteq Inserting(i, n)
  PROVE  Bounded(i, n)'
<1>. DEFINE L == LiveAnswers(i, n)  M == LiveAnswers(i, n)'
            I == Inserting(i, n)  J == Inserting(i, n)'
<1>1. /\ IsFiniteSet(L) /\ Cardinality(L) \in Nat
      /\ IsFiniteSet(M) /\ Cardinality(M) \in Nat /\ Cardinality(M) <= Cardinality(L)
  <2>1. IsFiniteSet(L) /\ M \in SUBSET L
    BY DEF Bounded
  <2>. HIDE DEF L, M
  <2>. QED BY ONLY <2>1, FS_Subset, FS_CardinalityType
<1>2. /\ IsFiniteSet(I) /\ Cardinality(I) \in Nat
      /\ Cardinality(J) \in Nat /\ Cardinality(J) <= Cardinality(I)
  <2>1. IsFiniteSet(I) /\ J \in SUBSET I
    BY InsertingFinite
  <2>. HIDE DEF I, J
  <2>. QED BY ONLY <2>1, FS_Subset, FS_CardinalityType
<1>3. Cardinality(L) + Cardinality(I) <= Cardinality(Workers) /\ Cardinality(Workers) \in Nat
  BY InsertingFinite DEF Bounded
<1>4. Cardinality(M) + Cardinality(J) <= Cardinality(Workers)
  <2>. HIDE DEF L, M, I, J
  <2>. QED BY ONLY <1>1, <1>2, <1>3
<1>. QED BY <1>1, <1>4 DEF Bounded

\* Only a search that finds no answer makes a call insert one.
LEMMA SearchBounded ==
  ASSUME AnswersInv, NEW w \in Workers, FindAnswer(w), NEW i \in Purchases, NEW n \in Names
  PROVE  Bounded(i, n)'
<1>1. LiveAnswers(i, n)' = LiveAnswers(i, n) /\ Bounded(i, n)
  BY DEF FindAnswer, tables, LiveAnswers, AnswersInv
<1>2. calls \in [Workers -> Calls] /\ \A v \in Workers : v # w => calls'[v] = calls[v]
  BY OneMoves DEF Step, AnswersInv, TypeInv
<1>3. CASE calls'[w].pc # "insert"
  BY <1>1, <1>2, <1>3, SameInserting, FewerBounded
<1>4. CASE calls'[w].pc = "insert"
  <2>1. Earlier(calls[w].inv, calls[w].name) = {} /\ Goto(w, "insert")
    BY <1>2, <1>4 DEF FindAnswer, Calls
  <2>2. calls'[w].inv = calls[w].inv /\ calls'[w].name = calls[w].name
    BY <1>2, <2>1 DEF Goto, Calls
  <2>3. CASE calls[w].inv = i /\ calls[w].name = n
    <3>1. LiveAnswers(i, n) = {}
      BY <2>1, <2>3 DEF LiveAnswers, Earlier
    <3>2. Cardinality(LiveAnswers(i, n)') = 0 /\ IsFiniteSet(LiveAnswers(i, n)')
      BY <1>1, <3>1, FS_EmptySet
    <3>. QED BY <3>2, InsertingFiniteNext DEF Bounded
  <2>4. CASE ~(calls[w].inv = i /\ calls[w].name = n)
    <3>1. Inserting(i, n)' \subseteq Inserting(i, n)
      BY <1>2, <2>2, <2>4 DEF Inserting
    <3>. QED BY <1>1, <3>1, FewerBounded
  <2>. QED BY <2>3, <2>4
<1>. QED BY <1>3, <1>4

\* The insert turns a call about to insert into an answer.
LEMMA InsertBounded ==
  ASSUME AnswersInv, NEW w \in Workers, InsertAnswer(w), NEW i \in Purchases, NEW n \in Names
  PROVE  Bounded(i, n)'
<1>. DEFINE L == LiveAnswers(i, n)  M == LiveAnswers(i, n)'
            I == Inserting(i, n)  J == Inserting(i, n)'
<1>0. TypeInv /\ Bounded(i, n) /\ calls \in [Workers -> Calls]
      /\ answers \in [Answers -> AnswerRows \cup {NoAnswer}]
  BY DEF AnswersInv, TypeInv, StoresOK
<1>1. calls'[w].pc # "insert" /\ \A v \in Workers : v # w => calls'[v] = calls[v]
  BY <1>0, OneMoves DEF Step, InsertAnswer, Goto, Calls
<1>2. PICK a : a = CHOOSE b \in FreshAnswers : TRUE
  OBVIOUS
<1>3. answers' = [answers EXCEPT ![a] = [of |-> calls[w].inv, name |-> calls[w].name,
                                         hidden |-> FALSE, deleted |-> FALSE]]
  BY <1>2 DEF InsertAnswer
<1>4. CASE calls[w].inv = i /\ calls[w].name = n
  <2>1. M \subseteq L \cup {a}
    BY <1>0, <1>3 DEF LiveAnswers
  <2>2. w \in I /\ J \subseteq I \ {w}
    BY <1>1, <1>4, SameInserting DEF InsertAnswer, At, Inserting
  <2>3. IsFiniteSet(L) /\ IsFiniteSet(I) /\ Cardinality(Workers) \in Nat
        /\ Cardinality(L) + Cardinality(I) <= Cardinality(Workers)
    BY <1>0, InsertingFinite DEF Bounded
  <2>. HIDE DEF L, M, I, J
  <2>4. /\ IsFiniteSet(M) /\ Cardinality(M) \in Nat /\ Cardinality(L) \in Nat
        /\ Cardinality(M) <= Cardinality(L) + 1
    BY ONLY <2>1, <2>3, OneMore
  <2>5. /\ Cardinality(J) \in Nat /\ Cardinality(I) \in Nat
        /\ Cardinality(J) <= Cardinality(I) - 1
    BY ONLY <2>2, <2>3, OneLess
  <2>6. Cardinality(M) + Cardinality(J) <= Cardinality(Workers)
    BY ONLY <2>3, <2>4, <2>5
  <2>. QED BY <2>4, <2>6 DEF Bounded, L, M, I, J
<1>5. CASE ~(calls[w].inv = i /\ calls[w].name = n)
  <2>1. M \subseteq L
    BY <1>0, <1>3, <1>5 DEF LiveAnswers
  <2>. QED BY <1>0, <1>1, <2>1, SameInserting, FewerBounded
<1>. QED BY <1>4, <1>5

LEMMA NextAnswers == AnswersInv /\ [Next]_vars => AnswersInv'
<1> SUFFICES ASSUME AnswersInv, [Next]_vars PROVE AnswersInv'
  OBVIOUS
<1>0. TypeInv /\ TypeInv'
  BY NextTypeInv DEF AnswersInv
<1> SUFFICES ASSUME NEW i \in Purchases, NEW n \in Names PROVE Bounded(i, n)'
  BY <1>0 DEF AnswersInv
<1>1. Bounded(i, n)
  BY DEF AnswersInv
<1>2. CASE UNCHANGED <<answers, calls>>
  BY <1>1, <1>2, FewerBounded DEF LiveAnswers, Inserting
<1>3. ASSUME NEW w \in Workers, Start(w) \/ Step(w) \/ Fail(w) PROVE Bounded(i, n)'
  <2>1. CASE FindAnswer(w)
    BY <2>1, SearchBounded
  <2>2. CASE InsertAnswer(w)
    BY <2>2, InsertBounded
  <2>3. CASE ~FindAnswer(w) /\ ~InsertAnswer(w)
    <3>1. Inserting(i, n)' \subseteq Inserting(i, n)
      BY <1>0, <1>3, <2>3, OneMoves, OnlySearchInserts, SameInserting
    <3>2. LiveAnswers(i, n)' \subseteq LiveAnswers(i, n)
      <4>1. CASE UNCHANGED answers
        BY <4>1 DEF LiveAnswers
      <4>2. CASE AnswerAgain(w) \/ ToggleHide(w)
        BY <1>0, <4>2 DEF AnswerAgain, ToggleHide, LiveAnswers, TypeInv, StoresOK, AnswerRows
      <4>3. CASE SoftDelete(w)
        BY <1>0, <4>3 DEF SoftDelete, LiveAnswers, TypeInv, StoresOK, AnswerRows
      <4>4. CASE Start(w)
        BY <4>1, <4>4, StartsAt DEF Started, tables
      <4>5. CASE Fail(w)
        BY <4>1, <4>5 DEF Fail, tables
      <4>. QED BY <1>3, <2>3, <4>1, <4>2, <4>3, <4>4, <4>5 DEF Step, Fetch, Fill, CheckSlug,
                CreateWrite, WritePurchaseSlug, UpdateWrite, ToggleWrite, SetLock, ReadInvitation,
                Drop, DropNew, tables
    <3>. QED BY <1>1, <3>1, <3>2, FewerBounded
  <2>. QED BY <2>1, <2>2, <2>3
<1>. QED BY <1>2, <1>3 DEF Next, Expire, LockExpires, tables, vars

LEMMA InitAnswers == Init => AnswersInv
<1> SUFFICES ASSUME Init, NEW i \in Purchases, NEW n \in Names PROVE Bounded(i, n)
  BY InitTypeInv DEF AnswersInv
<1>1. LiveAnswers(i, n) = {}
  BY InvAssumption DEF Init, LiveAnswers, NoAnswer
<1>2. IsFiniteSet(LiveAnswers(i, n)) /\ Cardinality(LiveAnswers(i, n)) = 0
  BY <1>1, FS_EmptySet
<1>. QED BY <1>2, InsertingFinite DEF Bounded

\* A guest never has more answers to an invitation than calls can be in
\* progress, although rsvp.service.ts looks for the earlier answer in one query
\* and inserts the new one in another.
THEOREM AnswersAlwaysBounded == Spec => []AnswersBounded
<1>1. AnswersInv => AnswersBounded
  BY DEF AnswersInv, Bounded, AnswersBounded
<1>. QED BY <1>1, InitAnswers, NextAnswers, PTL DEF Spec
-----------------------------------------------------------------------------
\* As long as calls neither overlap nor die, there is at most one.
Alone == ~disturbed => \A v, w \in Workers : v # w => At(v, "idle") \/ At(w, "idle")

LEMMA StepIsQuiet ==
  ASSUME NEW w \in Workers, Step(w)
  PROVE  ~At(w, "idle") /\ disturbed' = disturbed
<1>1. CASE Fetch(w) \/ Fill(w) \/ CheckSlug(w) \/ CreateWrite(w) \/ WritePurchaseSlug(w)
  BY <1>1 DEF Fetch, Fill, CheckSlug, CreateWrite, WritePurchaseSlug, Goto, Return, At
<1>2. CASE UpdateWrite(w) \/ ToggleWrite(w) \/ SetLock(w) \/ ReadInvitation(w)
  BY <1>2 DEF UpdateWrite, ToggleWrite, SetLock, ReadInvitation, Goto, Return, At
<1>3. CASE FindAnswer(w) \/ InsertAnswer(w) \/ AnswerAgain(w) \/ ToggleHide(w)
  BY <1>3 DEF FindAnswer, InsertAnswer, AnswerAgain, ToggleHide, Goto, At
<1>4. CASE SoftDelete(w) \/ Drop(w) \/ DropNew(w)
  BY <1>4 DEF SoftDelete, Drop, DropNew, Goto, Return, At
<1>. QED BY <1>1, <1>2, <1>3, <1>4 DEF Step

\* Before and after the step of an undisturbed call the others are idle.
LEMMA OthersIdle ==
  ASSUME TypeInv, Alone, NEW w \in Workers, Start(w) \/ Step(w) \/ Fail(w), ~disturbed'
  PROVE  /\ ~disturbed /\ ~Fail(w)
         /\ \A v \in Workers : v # w => At(v, "idle") /\ At(v, "idle")'
<1>1. \A v \in Workers : v # w => calls'[v] = calls[v]
  BY OneMoves
<1>2. ~Fail(w)
  BY DEF Fail
<1>3. ~disturbed /\ \A v \in Workers : v # w => At(v, "idle")
  <2>1. CASE Start(w)
    BY <2>1, StartsAt DEF Started, Begin, Quiet, At
  <2>2. CASE Step(w)
    BY <2>2, StepIsQuiet DEF Alone
  <2>. QED BY <1>2, <2>1, <2>2
<1>. QED BY <1>1, <1>2, <1>3 DEF At

LEMMA NextAlone == TypeInv /\ Alone /\ [Next]_vars => Alone'
<1> SUFFICES ASSUME TypeInv, Alone, [Next]_vars PROVE Alone'
  OBVIOUS
<1>1. CASE UNCHANGED <<calls, disturbed>>
  BY <1>1 DEF Alone, At
<1>2. ASSUME NEW w \in Workers, Start(w) \/ Step(w) \/ Fail(w) PROVE Alone'
  BY <1>2, OthersIdle DEF Alone
<1>. QED BY <1>1, <1>2 DEF Next, Expire, LockExpires, vars

\* The two unique indexes, and what a rename knows between its two writes.
SlugsUnique ==
    \A i, j \in Purchases : Exists(i) /\ invitations[i].slug = invitations[j].slug => i = j

NewSlug(k) == Given(k.to, invitations[k.inv].slug)

Renamed(k) ==
    /\ k.pc = "purchaseSlug" => InvitationAt(k.to) = {}
    /\ k.pc = "update" => /\ InvitationAt(NewSlug(k)) \subseteq {k.inv}
                          /\ purchaseSlug[k.inv] \in {None, NewSlug(k)}

SlugsAgree ==
    ~disturbed =>
        /\ \A w \in Workers : Renamed(calls[w])
        /\ \A i \in Purchases : \/ purchaseSlug[i] \in {None, invitations[i].slug}
                                \/ \E w \in Workers : At(w, "update") /\ calls[w].inv = i

SlugInv == TypeInv /\ Alone /\ SlugsUnique /\ SlugsAgree

LEMMA InitAlone == Init => Alone
  BY DEF Init, Alone, At, Idle

LEMMA InitSlugs == Init => SlugInv
<1> SUFFICES ASSUME Init PROVE SlugInv
  OBVIOUS
<1>1. SlugsUnique
  BY InvAssumption DEF Init, SlugsUnique, Exists, NoInvitation
<1>2. SlugsAgree
  BY DEF Init, SlugsAgree, Renamed, Idle
<1>. QED BY <1>1, <1>2, InitTypeInv, InitAlone DEF SlugInv

LEMMA ToggleKeepsSlugs ==
  ASSUME TypeInv, NEW w \in Workers, ToggleWrite(w), NEW i \in Purchases
  PROVE  /\ invitations'[i].slug = invitations[i].slug
         /\ i # calls[w].inv => invitations'[i] = invitations[i]
<1>1. invitations \in [Purchases -> InvitationRows \cup {NoInvitation}]
  BY DEF TypeInv, StoresOK
<1>2. \A b : \A row \in InvitationRows \cup {NoInvitation} : [row EXCEPT !.active = b].slug = row.slug
  BY DEF InvitationRows, NoInvitation
<1>3. invitations'[i] =
         IF i = calls[w].inv THEN [invitations[i] EXCEPT !.active = calls[w].active]
         ELSE invitations[i]
  BY <1>1 DEF ToggleWrite
<1>4. CASE i = calls[w].inv
  <2>1. PICK b : b = calls[w].active
    OBVIOUS
  <2>2. invitations'[i] = [invitations[i] EXCEPT !.active = b]
    BY <1>3, <1>4, <2>1
  <2>3. PICK row \in InvitationRows \cup {NoInvitation} : row = invitations[i]
    BY <1>1
  <2>. QED BY ONLY <1>2, <1>4, <2>2, <2>3
<1>. QED BY <1>3, <1>4

LEMMA NextUnique ==
  ASSUME TypeInv, SlugsUnique, [Next]_vars
  PROVE  SlugsUnique'
<1>1. CASE UNCHANGED invitations
  BY <1>1 DEF SlugsUnique, Exists
<1>2. invitations \in [Purchases -> InvitationRows \cup {NoInvitation}]
  BY DEF TypeInv, StoresOK
<1>3. ASSUME NEW w \in Workers, CreateWrite(w) PROVE SlugsUnique'
  BY <1>2, <1>3, InvAssumption DEF CreateWrite, SlugsUnique, Exists, InvitationAt
<1>4. ASSUME NEW w \in Workers, UpdateWrite(w) PROVE SlugsUnique'
  <2>1. PICK slug : slug = Given(calls[w].to, invitations[calls[w].inv].slug)
    OBVIOUS
  <2>2. CASE invitations' # invitations
    <3>1. InvitationAt(slug) \subseteq {calls[w].inv} /\ calls[w].inv \in Purchases
      BY <1>2, <1>4, <2>1, <2>2 DEF UpdateWrite
    <3>2. \A i \in Purchases : invitations'[i].slug =
                                 IF i = calls[w].inv THEN slug ELSE invitations[i].slug
      BY <1>2, <1>4, <2>1, <2>2, <3>1 DEF UpdateWrite
    <3>3. \A i \in Purchases : i # calls[w].inv => invitations'[i] = invitations[i]
      BY <1>2, <1>4, <2>2 DEF UpdateWrite
    <3>. QED BY <3>1, <3>2, <3>3 DEF SlugsUnique, Exists, InvitationAt
  <2>. QED BY <1>1, <2>2
<1>5. ASSUME NEW w \in Workers, ToggleWrite(w) PROVE SlugsUnique'
  <2>1. calls[w].inv \in Published
    BY <1>5 DEF ToggleWrite, At, TypeInv, CallsGood, Good
  <2>. QED BY <1>5, <2>1, ToggleKeepsSlugs DEF SlugsUnique, Exists, Published
<1>6. ASSUME NEW w \in Workers, Start(w) \/ Fail(w) PROVE UNCHANGED invitations
  BY <1>6, StartsAt DEF Started, Fail, tables
<1>7. ASSUME NEW w \in Workers, Step(w), ~CreateWrite(w), ~UpdateWrite(w), ~ToggleWrite(w)
      PROVE  UNCHANGED invitations
  BY <1>7 DEF Step, Fetch, Fill, CheckSlug, WritePurchaseSlug, SetLock, ReadInvitation, FindAnswer,
     InsertAnswer, AnswerAgain, ToggleHide, SoftDelete, Drop, DropNew, tables
<1>. QED BY <1>1, <1>3, <1>4, <1>5, <1>6, <1>7 DEF Next, Expire, LockExpires, tables, vars

\* It is enough to look at the one call that is in progress.
LEMMA AgreeAfter ==
  ASSUME NEW w \in Workers, \A v \in Workers : v # w => At(v, "idle")', Renamed(calls[w])',
         \A i \in Purchases : \/ purchaseSlug'[i] \in {None, invitations'[i].slug}
                              \/ At(w, "update")' /\ calls'[w].inv = i
  PROVE  SlugsAgree'
<1>1. \A v \in Workers : Renamed(calls[v])'
  BY DEF Renamed, At
<1>. QED BY <1>1 DEF SlugsAgree

\* A rename that has not got to the invitation knows that the slug is free.
LEMMA RenameAgrees ==
  ASSUME SlugInv, ~disturbed, NEW w \in Workers, \A v \in Workers : v # w => At(v, "idle"),
         \A v \in Workers : v # w => At(v, "idle")',
         CheckSlug(w) \/ WritePurchaseSlug(w) \/ UpdateWrite(w)
  PROVE  SlugsAgree'
<1>. DEFINE k == calls[w]
<1>1. /\ Good(k, Published, Stored) /\ k \in Calls /\ calls \in [Workers -> Calls]
      /\ purchaseSlug \in [Purchases -> Slugs \cup {None}]
      /\ invitations \in [Purchases -> InvitationRows \cup {NoInvitation}]
  BY DEF SlugInv, TypeInv, CallsGood, StoresOK
<1>2. \A i \in Purchases : \/ purchaseSlug[i] \in {None, invitations[i].slug}
                           \/ At(w, "update") /\ k.inv = i
  BY DEF SlugInv, SlugsAgree, At
<1>3. Renamed(k)
  BY DEF SlugInv, SlugsAgree
<1>4. CASE CheckSlug(w)
  <2>1. /\ calls'[w].pc = "purchaseSlug" => calls'[w].to = k.to /\ SlugAvailable(k.to)
        /\ calls'[w].pc # "update"
    BY <1>1, <1>4 DEF CheckSlug, Goto, Return, Idle, Calls
  <2>2. Renamed(calls[w])'
    BY <1>4, <2>1 DEF CheckSlug, tables, SlugAvailable, InvitationAt, Renamed
  <2>3. \A i \in Purchases : purchaseSlug'[i] \in {None, invitations'[i].slug}
    BY <1>2, <1>4 DEF CheckSlug, At, tables
  <2>. QED BY <2>2, <2>3, AgreeAfter
<1>5. CASE WritePurchaseSlug(w)
  <2>1. k.inv \in Purchases /\ k.to \in Slugs /\ k.pc = "purchaseSlug" /\ invitations' = invitations
    BY <1>1, <1>5 DEF Good, WritePurchaseSlug, At
  <2>2. CASE Return(w) /\ UNCHANGED purchaseSlug
    <3>1. calls'[w].pc = "idle"
      BY <1>1, <2>2 DEF Return, Idle
    <3>2. Renamed(calls[w])'
      BY <3>1 DEF Renamed
    <3>. QED BY <1>2, <2>1, <2>2, <3>2, AgreeAfter DEF At
  <2>3. CASE Goto(w, "update") /\ purchaseSlug' = [purchaseSlug EXCEPT ![k.inv] = k.to]
    <3>1. calls'[w].pc = "update" /\ calls'[w].inv = k.inv /\ calls'[w].to = k.to
      BY <1>1, <2>3 DEF Goto, Calls
    <3>2. InvitationAt(k.to) = {} /\ k.to # None
      BY <1>3, <2>1, InvAssumption DEF Renamed
    <3>3. Renamed(calls[w])'
      BY <1>1, <2>1, <2>3, <3>1, <3>2 DEF Renamed, NewSlug, Given, InvitationAt
    <3>4. \A i \in Purchases : \/ purchaseSlug'[i] \in {None, invitations'[i].slug}
                               \/ calls'[w].inv = i
      BY <1>1, <1>2, <2>1, <2>3, <3>1 DEF At
    <3>. QED BY <3>1, <3>3, <3>4, AgreeAfter DEF At
  <2>. QED BY <1>5, <2>2, <2>3 DEF WritePurchaseSlug
<1>6. CASE UpdateWrite(w)
  <2>1. k.inv \in Purchases /\ k.pc = "update"
    BY <1>1, <1>6 DEF Good, UpdateWrite, At, Published
  <2>2. InvitationAt(NewSlug(k)) \subseteq {k.inv} /\ purchaseSlug[k.inv] \in {None, NewSlug(k)}
    BY <1>3, <2>1 DEF Renamed
  <2>3. PICK slug, active : /\ slug = NewSlug(k)
                            /\ active = Given(k.active, invitations[k.inv].active)
    OBVIOUS
  <2>4. /\ invitations' = [invitations EXCEPT ![k.inv] = [slug |-> slug, active |-> active]]
        /\ calls' = [calls EXCEPT ![w].pc = "drop", ![w].newSlug = slug]
        /\ purchaseSlug' = purchaseSlug
    BY <1>6, <2>2, <2>3 DEF UpdateWrite, NewSlug
  <2>5. calls'[w].pc = "drop"
    BY <1>1, <2>4 DEF Calls
  <2>6. \A i \in Purchases : purchaseSlug'[i] \in {None, invitations'[i].slug}
    BY <1>1, <1>2, <2>1, <2>2, <2>3, <2>4
  <2>7. Renamed(calls[w])'
    BY <2>5 DEF Renamed
  <2>. QED BY <2>6, <2>7, AgreeAfter
<1>. QED BY <1>4, <1>5, <1>6


\* The other steps write no slug, or that of a new invitation.
LEMMA OtherStep ==
  ASSUME TypeInv, NEW w \in Workers, Step(w), ~CheckSlug(w), ~WritePurchaseSlug(w),
         ~UpdateWrite(w)
  PROVE  /\ purchaseSlug' = purchaseSlug /\ ~At(w, "update")
         /\ calls'[w].pc \notin {"purchaseSlug", "update"}
<1>1. calls \in [Workers -> Calls]
  BY DEF TypeInv
<1>2. CASE Fetch(w) \/ Fill(w) \/ CreateWrite(w)
  BY <1>1, <1>2 DEF Fetch, Fill, CreateWrite, Return, At, Idle, Calls, tables
<1>3. CASE ToggleWrite(w) \/ SetLock(w) \/ ReadInvitation(w)
  BY <1>1, <1>3 DEF ToggleWrite, SetLock, ReadInvitation, Goto, Return, At, Idle, Calls, tables
<1>4. CASE FindAnswer(w) \/ InsertAnswer(w) \/ AnswerAgain(w)
  BY <1>1, <1>4 DEF FindAnswer, InsertAnswer, AnswerAgain, Goto, At, Calls, tables
<1>5. CASE ToggleHide(w) \/ SoftDelete(w) \/ Drop(w) \/ DropNew(w)
  BY <1>1, <1>5 DEF ToggleHide, SoftDelete, Drop, DropNew, Goto, Return, At, Idle, Calls, tables
<1>. QED BY <1>2, <1>3, <1>4, <1>5 DEF Step

LEMMA InvitationsStep ==
  ASSUME NEW w \in Workers, Step(w), ~CreateWrite(w), ~UpdateWrite(w), ~ToggleWrite(w)
  PROVE  UNCHANGED invitations
  BY DEF Step, Fetch, Fill, CheckSlug, WritePurchaseSlug, SetLock, ReadInvitation, FindAnswer,
     InsertAnswer, AnswerAgain, ToggleHide, SoftDelete, Drop, DropNew, tables

LEMMA CreateKeepsSlugs ==
  ASSUME TypeInv, NEW w \in Workers, CreateWrite(w), NEW i \in Purchases, Exists(i)
  PROVE  invitations'[i] = invitations[i]
  BY DEF CreateWrite, TypeInv, StoresOK

LEMMA OtherAgrees ==
  ASSUME SlugInv, ~disturbed, NEW w \in Workers, \A v \in Workers : v # w => At(v, "idle"),
         \A v \in Workers : v # w => At(v, "idle")',
         Step(w), ~CheckSlug(w), ~WritePurchaseSlug(w), ~UpdateWrite(w)
  PROVE  SlugsAgree'
<1>1. TypeInv
  BY DEF SlugInv
<1>2. purchaseSlug' = purchaseSlug /\ ~At(w, "update")
      /\ calls'[w].pc \notin {"purchaseSlug", "update"}
  BY <1>1, OtherStep
<1>3. \A i \in Purchases : purchaseSlug[i] \in {None, invitations[i].slug}
  BY <1>2 DEF SlugInv, SlugsAgree, At
<1>4. \A i \in Purchases : purchaseSlug'[i] \in {None, invitations'[i].slug}
  <2>1. CASE UNCHANGED invitations
    BY <1>2, <1>3, <2>1
  <2>2. CASE ToggleWrite(w)
    BY <1>1, <1>2, <1>3, <2>2, ToggleKeepsSlugs
  <2>3. CASE CreateWrite(w)
    BY <1>1, <1>2, <1>3, <2>3, CreateKeepsSlugs, InvitationFields
  <2>. QED BY <2>1, <2>2, <2>3, InvitationsStep
<1>5. Renamed(calls[w])'
  BY <1>2 DEF Renamed
<1>. QED BY <1>4, <1>5, AgreeAfter

\* An edit that keeps the slug begins with its write.
LEMMA StartAgrees ==
  ASSUME SlugInv, TypeInv', ~disturbed, NEW w \in Workers, \A v \in Workers : v # w => At(v, "idle"),
         \A v \in Workers : v # w => At(v, "idle")', Start(w)
  PROVE  SlugsAgree'
<1>1. calls \in [Workers -> Calls] /\ TypeInv
  BY DEF SlugInv, TypeInv
<1>2. PICK k : Begin(w, k) /\ UNCHANGED tables /\ k.pc \in Starts /\ FirstReads(k)
  BY StartsAt DEF Started
<1>3. calls'[w] = k /\ At(w, "idle")
  BY <1>1, <1>2 DEF Begin
<1>4. \A i \in Purchases : purchaseSlug[i] \in {None, invitations[i].slug}
  BY <1>3 DEF SlugInv, SlugsAgree, At
<1>5. Renamed(k)'
  <2>1. CASE k.pc # "update"
    BY <1>2, <2>1 DEF Renamed, Starts
  <2>2. CASE k.pc = "update"
    <3>1. k.inv \in Published'
      BY <1>3, <2>2 DEF TypeInv, CallsGood, Good
    <3>2. k.inv \in Purchases /\ Exists(k.inv)
      BY <1>2, <3>1 DEF Published, Exists, tables
    <3>3. NewSlug(k) = invitations[k.inv].slug
      BY <1>2, <2>2 DEF FirstReads, NewSlug, Given
    <3>4. InvitationAt(NewSlug(k)) \subseteq {k.inv}
      BY <3>2, <3>3 DEF InvitationAt, SlugInv, SlugsUnique
    <3>5. Renamed(k)
      BY <1>4, <2>2, <3>2, <3>3, <3>4 DEF Renamed
    <3>. QED BY <1>2, <3>5 DEF tables, Renamed, InvitationAt, NewSlug
  <2>. QED BY <2>1, <2>2
<1>6. Renamed(calls[w])'
  BY <1>3, <1>5
<1>7. \A i \in Purchases : purchaseSlug'[i] \in {None, invitations'[i].slug}
  BY <1>2, <1>4 DEF tables
<1>. QED BY <1>6, <1>7, AgreeAfter

LEMMA NextSlug == SlugInv /\ [Next]_vars => SlugInv'
<1> SUFFICES ASSUME SlugInv, [Next]_vars PROVE SlugInv'
  OBVIOUS
<1>0. TypeInv /\ TypeInv' /\ Alone /\ Alone' /\ SlugsUnique'
  BY NextTypeInv, NextAlone, NextUnique DEF SlugInv
<1> SUFFICES ASSUME ~disturbed' PROVE SlugsAgree'
  BY <1>0 DEF SlugInv, SlugsAgree
<1>1. CASE UNCHANGED <<tables, calls, disturbed>>
  BY <1>1 DEF SlugInv, SlugsAgree, tables, Renamed, NewSlug, InvitationAt, At
<1>2. ASSUME NEW w \in Workers, Start(w) \/ Step(w) \/ Fail(w) PROVE SlugsAgree'
  <2>1. /\ ~disturbed /\ ~Fail(w) /\ \A v \in Workers : v # w => At(v, "idle")
        /\ \A v \in Workers : v # w => At(v, "idle")'
    BY <1>0, <1>2, OthersIdle
  <2>. QED BY <1>0, <1>2, <2>1, RenameAgrees, OtherAgrees, StartAgrees
<1>. QED BY <1>1, <1>2 DEF Next, Expire, LockExpires, tables, vars

\* update writes purchases.slug first and the invitation's slug second; as long
\* as calls neither overlap nor die, the second write is never refused.
THEOREM PurchaseSlugAlwaysAgrees == Spec => []PurchaseSlugAgrees
<1>1. SlugInv => PurchaseSlugAgrees
  BY DEF SlugInv, SlugsAgree, PurchaseSlugAgrees, Quiet, At
<1>. QED BY <1>1, InitSlugs, NextSlug, PTL DEF Spec
-----------------------------------------------------------------------------
\* The keys that a call has still to delete.
Owed(k) ==
    IF k.pc = "drop" THEN {k.slug, k.newSlug} ELSE IF k.pc = "dropNew" THEN {k.newSlug} ELSE {}

\* The writers of an existing invitation.
Editing == {"update", "toggle", "purchaseSlug", "findAnswer", "insert", "answerAgain"}

\* What an undisturbed call has read still holds.
Informed(k) ==
    /\ k.pc = "fill" => k.view = View(k.slug)
    /\ k.pc \in Editing \/ (k.pc = "checkSlug" /\ k.slug # None)
         => k.slug = invitations[k.inv].slug
    /\ k.pc = "answerAgain" => answers[k.answer].of = k.inv
    /\ k.pc \in {"hide", "remove"} => k.slug = invitations[answers[k.answer].of].slug
    /\ k.pc \in Submitting => FreshAnswers # {}

PagesFresh ==
    ~disturbed =>
        /\ \A w \in Workers : Informed(calls[w])
        /\ \A s \in Slugs : cache[s].kind = "found" =>
               cache[s] = View(s) \/ \E w \in Workers : s \in Owed(calls[w])

FreshInv == TypeInv /\ Alone /\ PagesFresh

LEMMA InitFresh == Init => FreshInv
<1> SUFFICES ASSUME Init PROVE FreshInv
  OBVIOUS
<1>1. PagesFresh
  BY DEF Init, PagesFresh, Informed, Idle, Empty, Editing, Submitting
<1>. QED BY <1>1, InitTypeInv, InitAlone DEF FreshInv

\* What is served for a slug depends on its invitation and the answers to it.
LEMMA SameView ==
  ASSUME NEW s, InvitationAt(s)' = InvitationAt(s),
         \A i \in InvitationAt(s) : /\ invitations'[i].active = invitations[i].active
                                    /\ Shown(i)' = Shown(i)
  PROVE  View(s)' = View(s)
<1>1. CASE InvitationAt(s) = {}
  BY <1>1 DEF View
<1>2. CASE InvitationAt(s) # {}
  <2>1. PICK i : i = CHOOSE j \in InvitationAt(s) : TRUE
    OBVIOUS
  <2>2. i \in InvitationAt(s) /\ i = CHOOSE j \in InvitationAt(s)' : TRUE
    BY <1>2, <2>1
  <2>3. View(s) = [kind |-> "found", inv |-> i, active |-> invitations[i].active, book |-> Shown(i)]
    BY <1>2, <2>1 DEF View
  <2>4. View(s)' = [kind |-> "found", inv |-> i, active |-> invitations'[i].active,
                    book |-> Shown(i)']
    BY <1>2, <2>2 DEF View
  <2>. QED BY <2>2, <2>3, <2>4
<1>. QED BY <1>1, <1>2

LEMMA UntouchedViews ==
  ASSUME UNCHANGED <<invitations, answers>>
  PROVE  /\ \A s : View(s)' = View(s)
         /\ FreshAnswers' = FreshAnswers
  BY SameView DEF InvitationAt, Shown, FreshAnswers

\* It is enough to look at the one call that is in progress.
LEMMA FreshAfter ==
  ASSUME NEW w \in Workers, \A v \in Workers : v # w => At(v, "idle")', Informed(calls[w])',
         \A s \in Slugs : cache'[s].kind = "found" => cache'[s] = View(s)' \/ s \in Owed(calls'[w])
  PROVE  PagesFresh'
<1>1. \A v \in Workers : Informed(calls[v])'
  <2>1. ASSUME NEW v \in Workers, v # w PROVE Informed(calls[v])'
    BY <2>1 DEF Informed, At, Editing, Submitting
  <2>. QED BY <2>1
<1>2. PagesFresh' <=> (~disturbed' =>
        /\ \A v \in Workers : Informed(calls[v])'
        /\ \A s \in Slugs : cache'[s].kind = "found" =>
               cache'[s] = View(s)' \/ \E v \in Workers : s \in Owed(calls'[v]))
  BY DEF PagesFresh, Owed
<1>. QED BY <1>1, <1>2

\* Before its step the pages are fresh but for the keys that it owes.
LEMMA FreshBefore ==
  ASSUME FreshInv, ~disturbed, NEW w \in Workers, \A v \in Workers : v # w => At(v, "idle"),
         NEW s \in Slugs, cache[s].kind = "found", s \notin Owed(calls[w])
  PROVE  cache[s] = View(s)
<1>1. \A v \in Workers : v # w => Owed(calls[v]) = {}
  BY DEF Owed, At
<1>. QED BY <1>1 DEF FreshInv, PagesFresh

\* The steps that only read for the page.
LEMMA ReadFresh ==
  ASSUME FreshInv, TypeInv', ~disturbed, NEW w \in Workers,
         \A v \in Workers : v # w => At(v, "idle"), \A v \in Workers : v # w => At(v, "idle")',
         \/ Fetch(w) \/ CheckSlug(w) \/ WritePurchaseSlug(w) \/ SetLock(w) \/ ReadInvitation(w)
         \/ FindAnswer(w)
  PROVE  PagesFresh'
<1>. DEFINE k == calls[w]
<1>1. /\ calls \in [Workers -> Calls] /\ Good(k, Published, Stored) /\ Informed(k) /\ TypeInv
  BY DEF FreshInv, TypeInv, CallsGood, PagesFresh
<1>2. UNCHANGED <<invitations, answers, cache>> /\ Owed(k) = {}
  BY DEF Fetch, CheckSlug, WritePurchaseSlug, SetLock, ReadInvitation, FindAnswer, tables, At, Owed
<1>3. (\A s : View(s)' = View(s)) /\ FreshAnswers' = FreshAnswers
  BY <1>2, UntouchedViews
<1>4. \A s \in Slugs : cache'[s].kind = "found" => cache'[s] = View(s)'
  BY <1>2, <1>3, FreshBefore
<1>. DEFINE m == calls'[w]
<1>5. ASSUME /\ m.pc = "fill" => m.view = View(m.slug)
             /\ m.pc \in Editing => m.slug = invitations[m.inv].slug
             /\ m.pc = "answerAgain" => answers[m.answer].of = m.inv
             /\ m.pc \in Submitting => FreshAnswers # {}
             /\ m.pc \notin {"checkSlug", "hide", "remove"}
      PROVE  Informed(calls[w])'
  BY <1>2, <1>3, <1>5 DEF Informed
<1>. HIDE DEF m
<1>6. Informed(calls[w])'
  <2>1. CASE Fetch(w)
    <3>1. m.pc = "fill" /\ m.view = View(m.slug)
      BY <1>1, <2>1 DEF Fetch, Calls, m
    <3>. QED BY <1>5, <3>1 DEF Editing, Submitting
  <2>2. CASE CheckSlug(w)
    <3>1. \/ m.pc \in {"idle", "create"}
          \/ m.pc = "purchaseSlug" /\ m.slug = k.slug /\ m.inv = k.inv /\ k.slug # None
      BY <1>1, <2>2 DEF CheckSlug, Goto, Return, Idle, Calls, m
    <3>2. m.pc = "purchaseSlug" => m.slug = invitations[m.inv].slug
      BY <1>1, <2>2, <3>1 DEF Informed, CheckSlug, At
    <3>. QED BY <1>5, <3>1, <3>2 DEF Editing, Submitting
  <2>3. CASE WritePurchaseSlug(w)
    <3>1. \/ m.pc = "idle"
          \/ m.pc = "update" /\ m.slug = k.slug /\ m.inv = k.inv
      BY <1>1, <2>3 DEF WritePurchaseSlug, Goto, Return, Idle, Calls, m
    <3>2. m.pc = "update" => m.slug = invitations[m.inv].slug
      BY <1>1, <2>3, <3>1 DEF Informed, WritePurchaseSlug, At, Editing
    <3>. QED BY <1>5, <3>1, <3>2 DEF Editing, Submitting
  <2>4. CASE SetLock(w)
    <3>1. m.pc \in {"idle", "readInvitation"}
      BY <1>1, <2>4 DEF SetLock, Goto, Return, Idle, Calls, m
    <3>2. FreshAnswers # {}
      BY <1>1, <2>4 DEF Informed, SetLock, At, Submitting
    <3>. QED BY <1>5, <3>1, <3>2 DEF Editing, Submitting
  <2>5. CASE ReadInvitation(w)
    <3>1. \/ m.pc = "idle"
          \/ m.pc = "findAnswer" /\ m.slug = invitations[k.inv].slug /\ m.inv = k.inv
      BY <1>1, <2>5 DEF ReadInvitation, Goto, Return, Idle, Calls, m
    <3>2. FreshAnswers # {}
      BY <1>1, <2>5 DEF Informed, ReadInvitation, At, Submitting
    <3>. QED BY <1>5, <3>1, <3>2 DEF Editing, Submitting
  <2>6. CASE FindAnswer(w)
    <3>1. /\ m.pc \in {"insert", "answerAgain"} /\ m.slug = k.slug /\ m.inv = k.inv
          /\ m.pc = "answerAgain" => m.answer \in Earlier(k.inv, k.name)
      BY <1>1, <2>6 DEF FindAnswer, Goto, Calls, m
    <3>2. FreshAnswers # {} /\ m.slug = invitations[m.inv].slug
      BY <1>1, <2>6, <3>1 DEF Informed, FindAnswer, At, Submitting, Editing
    <3>3. m.pc = "answerAgain" => answers[m.answer].of = m.inv
      BY <3>1 DEF Earlier
    <3>. QED BY <1>5, <3>1, <3>2, <3>3 DEF Editing, Submitting
  <2>. QED BY <2>1, <2>2, <2>3, <2>4, <2>5, <2>6
<1>. QED BY <1>4, <1>6, FreshAfter

\* A page that was read while no call disturbed is fresh when it is stored.
LEMMA FillFresh ==
  ASSUME FreshInv, ~disturbed, NEW w \in Workers,
         \A v \in Workers : v # w => At(v, "idle"), \A v \in Workers : v # w => At(v, "idle")',
         Fill(w)
  PROVE  PagesFresh'
<1>1. /\ calls \in [Workers -> Calls] /\ Informed(calls[w]) /\ cache \in [Slugs -> Entries]
  BY DEF FreshInv, TypeInv, StoresOK, PagesFresh
<1>2. /\ UNCHANGED <<invitations, answers>> /\ Owed(calls[w]) = {} /\ calls'[w] = Idle
      /\ cache' = [cache EXCEPT ![calls[w].slug] = calls[w].view]
      /\ calls[w].view = View(calls[w].slug)
  BY <1>1 DEF Fill, tables, At, Owed, Return, Informed
<1>3. \A s : View(s)' = View(s)
  BY <1>2, UntouchedViews
<1>4. \A s \in Slugs : cache'[s].kind = "found" => cache'[s] = View(s)'
  BY <1>1, <1>2, <1>3, FreshBefore
<1>5. Informed(calls[w])'
  BY <1>2 DEF Informed, Idle, Editing, Submitting
<1>. QED BY <1>4, <1>5, FreshAfter

\* The deletes: the keys that are owed are emptied one by one.
LEMMA DropFresh ==
  ASSUME FreshInv, ~disturbed, NEW w \in Workers,
         \A v \in Workers : v # w => At(v, "idle"), \A v \in Workers : v # w => At(v, "idle")',
         Drop(w) \/ DropNew(w)
  PROVE  PagesFresh'
<1>. DEFINE k == calls[w]
<1>1. /\ calls \in [Workers -> Calls] /\ cache \in [Slugs -> Entries]
      /\ UNCHANGED <<invitations, answers>>
  BY DEF FreshInv, TypeInv, StoresOK, Drop, DropNew, tables
<1>2. \A s : View(s)' = View(s)
  BY <1>1, UntouchedViews
<1>3. Empty.kind # "found"
  BY DEF Empty
<1>4. CASE Drop(w)
  <2>1. /\ Owed(k) = {k.slug, k.newSlug} /\ cache' = [cache EXCEPT ![k.slug] = Empty]
        /\ \/ calls'[w].pc = "idle" /\ k.newSlug \in {None, k.slug}
           \/ calls'[w].pc = "dropNew" /\ calls'[w].newSlug = k.newSlug
    BY <1>1, <1>4 DEF Drop, Dropped, At, Owed, Goto, Return, Idle, Calls
  <2>2. \A s \in Slugs : cache'[s].kind = "found" => cache'[s] = View(s)' \/ s \in Owed(calls'[w])
    <3>1. ASSUME NEW s \in Slugs, cache'[s].kind = "found", s \notin Owed(calls'[w])
          PROVE  cache'[s] = View(s)'
      <4>1. s # k.slug /\ cache'[s] = cache[s]
        BY <1>1, <1>3, <2>1, <3>1
      <4>2. s # k.newSlug
        BY <2>1, <3>1, <4>1, InvAssumption DEF Owed
      <4>. QED BY <1>2, <2>1, <3>1, <4>1, <4>2, FreshBefore
    <3>. QED BY <3>1
  <2>3. Informed(calls[w])'
    BY <2>1 DEF Informed, Editing, Submitting
  <2>. QED BY <2>2, <2>3, FreshAfter
<1>5. CASE DropNew(w)
  <2>1. /\ Owed(k) = {k.newSlug} /\ cache' = [cache EXCEPT ![k.newSlug] = Empty]
        /\ calls'[w].pc = "idle"
    BY <1>1, <1>5 DEF DropNew, At, Owed, Return, Idle
  <2>2. \A s \in Slugs : cache'[s].kind = "found" => cache'[s] = View(s)'
    <3>1. ASSUME NEW s \in Slugs, cache'[s].kind = "found" PROVE cache'[s] = View(s)'
      <4>1. s # k.newSlug /\ cache'[s] = cache[s]
        BY <1>1, <1>3, <2>1, <3>1
      <4>. QED BY <1>2, <2>1, <3>1, <4>1, FreshBefore
    <3>. QED BY <3>1
  <2>3. Informed(calls[w])'
    BY <2>1 DEF Informed, Editing, Submitting
  <2>. QED BY <2>2, <2>3, FreshAfter
<1>. QED BY <1>4, <1>5

\* The writes of an invitation: only the pages of its slugs are out of date.
LEMMA EditFresh ==
  ASSUME FreshInv, ~disturbed, NEW w \in Workers,
         \A v \in Workers : v # w => At(v, "idle"), \A v \in Workers : v # w => At(v, "idle")',
         CreateWrite(w) \/ UpdateWrite(w) \/ ToggleWrite(w)
  PROVE  PagesFresh'
<1>. DEFINE k == calls[w]
<1>1. /\ calls \in [Workers -> Calls] /\ Good(k, Published, Stored) /\ Informed(k) /\ TypeInv
      /\ invitations \in [Purchases -> InvitationRows \cup {NoInvitation}]
  BY DEF FreshInv, TypeInv, CallsGood, StoresOK, PagesFresh
<1>2. /\ UNCHANGED <<answers, cache>> /\ Owed(k) = {}
  BY DEF CreateWrite, UpdateWrite, ToggleWrite, At, Owed
<1>3. \A i : Shown(i)' = Shown(i)
  BY <1>2 DEF Shown
<1>4. \A s \in Slugs : cache[s].kind = "found" => cache[s] = View(s)
  BY <1>2, FreshBefore
<1>5. calls'[w].pc \in {"idle", "drop"}
  BY <1>1 DEF CreateWrite, UpdateWrite, ToggleWrite, Goto, Return, Idle, Calls
<1>6. Informed(calls[w])'
  BY <1>5 DEF Informed, Editing, Submitting
<1>7. ASSUME NEW s \in Slugs, s \notin Owed(calls'[w]), cache[s].kind = "found",
             \A i \in Purchases : /\ invitations'[i].slug = s <=> invitations[i].slug = s
                                  /\ invitations[i].slug = s =>
                                       invitations'[i].active = invitations[i].active
      PROVE  cache'[s] = View(s)'
  <2>1. InvitationAt(s)' = InvitationAt(s)
    BY <1>7 DEF InvitationAt
  <2>2. View(s)' = View(s)
    BY <1>3, <1>7, <2>1, SameView DEF InvitationAt
  <2>. QED BY <1>2, <1>4, <1>7, <2>2
<1>8. CASE UNCHANGED invitations
  BY <1>2, <1>6, <1>7, <1>8, FreshAfter
<1>9. CASE CreateWrite(w) /\ invitations' # invitations
  <2>1. /\ InvitationAt(k.to) = {} /\ ~Exists(k.inv) /\ k.inv \in Purchases
        /\ invitations' = [invitations EXCEPT ![k.inv] = [slug |-> k.to, active |-> TRUE]]
    BY <1>1, <1>9 DEF CreateWrite, At, Good
  <2>2. ASSUME NEW s \in Slugs, cache[s].kind = "found" PROVE s # k.to
    <3>1. View(k.to).kind = "notFound"
      BY <2>1 DEF View, Empty
    <3>. QED BY <1>4, <2>2, <3>1
  <2>3. invitations[k.inv].slug = None
    BY <2>1 DEF Exists, NoInvitation
  <2>4. ASSUME NEW s \in Slugs, cache[s].kind = "found", s \notin Owed(calls'[w])
        PROVE  cache'[s] = View(s)'
    <3>1. s # k.to /\ s # None
      BY <2>2, <2>4, InvAssumption
    <3>. QED BY <1>1, <1>7, <2>1, <2>3, <2>4, <3>1
  <2>. QED BY <1>2, <1>6, <2>4, FreshAfter
<1>10. CASE ToggleWrite(w)
  <2>1. /\ k.slug = invitations[k.inv].slug
        /\ Owed(calls'[w]) = {k.slug, k.newSlug}
    BY <1>1, <1>10 DEF ToggleWrite, At, Informed, Editing, Goto, Owed, Calls
  <2>2. ASSUME NEW s \in Slugs, cache[s].kind = "found", s \notin Owed(calls'[w])
        PROVE  cache'[s] = View(s)'
    BY <1>1, <1>7, <1>10, <2>1, <2>2, ToggleKeepsSlugs
  <2>. QED BY <1>2, <1>6, <2>2, FreshAfter
<1>11. CASE UpdateWrite(w) /\ invitations' # invitations
  <2>1. PICK slug, active : /\ slug = Given(k.to, invitations[k.inv].slug)
                            /\ active = Given(k.active, invitations[k.inv].active)
    OBVIOUS
  <2>2. /\ invitations' = [invitations EXCEPT ![k.inv] = [slug |-> slug, active |-> active]]
        /\ calls' = [calls EXCEPT ![w].pc = "drop", ![w].newSlug = slug]
    BY <1>11, <2>1 DEF UpdateWrite
  <2>3. /\ k.slug = invitations[k.inv].slug /\ k.inv \in Purchases
        /\ Owed(calls'[w]) = {k.slug, slug}
    BY <1>1, <1>11, <2>2 DEF UpdateWrite, At, Informed, Editing, Good, Published, Owed, Calls
  <2>4. ASSUME NEW s \in Slugs, cache[s].kind = "found", s \notin Owed(calls'[w])
        PROVE  cache'[s] = View(s)'
    BY <1>1, <1>7, <2>2, <2>3, <2>4
  <2>. QED BY <1>2, <1>6, <2>4, FreshAfter
<1>. QED BY <1>8, <1>9, <1>10, <1>11

\* The writes of an answer: only the page of its invitation is out of date.
LEMMA AnswerFresh ==
  ASSUME FreshInv, ~disturbed, NEW w \in Workers,
         \A v \in Workers : v # w => At(v, "idle"), \A v \in Workers : v # w => At(v, "idle")',
         InsertAnswer(w) \/ AnswerAgain(w) \/ ToggleHide(w) \/ SoftDelete(w)
  PROVE  PagesFresh'
<1>. DEFINE k == calls[w]
<1>1. /\ calls \in [Workers -> Calls] /\ Good(k, Published, Stored) /\ Informed(k)
      /\ answers \in [Answers -> AnswerRows \cup {NoAnswer}]
  BY DEF FreshInv, TypeInv, CallsGood, StoresOK, PagesFresh
<1>2. /\ UNCHANGED <<invitations, cache>> /\ Owed(k) = {} /\ Goto(w, "drop")
  BY DEF InsertAnswer, AnswerAgain, ToggleHide, SoftDelete, At, Owed
<1>3. calls'[w].pc = "drop" /\ k.slug \in Owed(calls'[w])
  BY <1>1, <1>2 DEF Goto, Owed, Calls
<1>4. Informed(calls[w])'
  BY <1>3 DEF Informed, Editing, Submitting
<1>5. PICK j : /\ k.slug = invitations[j].slug
               /\ \A i \in Purchases : i # j => Shown(i)' = Shown(i)
  <2>1. CASE InsertAnswer(w)
    <3>1. FreshAnswers # {} /\ k.slug = invitations[k.inv].slug
      BY <1>1, <2>1 DEF InsertAnswer, At, Informed, Submitting, Editing
    <3>2. PICK a \in FreshAnswers : a = CHOOSE b \in FreshAnswers : TRUE
      BY <3>1
    <3>3. /\ answers[a] = NoAnswer /\ a \in Answers
          /\ answers' = [answers EXCEPT ![a] = [of |-> k.inv, name |-> k.name,
                                                hidden |-> FALSE, deleted |-> FALSE]]
      BY <2>1, <3>2 DEF InsertAnswer, FreshAnswers
    <3>4. answers[a].of \notin Purchases
      BY <3>3, InvAssumption DEF NoAnswer
    <3>5. \A i \in Purchases : i # k.inv => Shown(i)' = Shown(i)
      BY <1>1, <3>3, <3>4 DEF Shown
    <3>. QED BY <3>1, <3>5
  <2>2. CASE ~InsertAnswer(w)
    <3>1. PICK a \in Stored : a = k.answer
      BY <1>1, <2>2 DEF AnswerAgain, ToggleHide, SoftDelete, At, Good
    <3>2. answers[a] \in AnswerRows /\ a \in Answers
      BY <1>1 DEF Stored
    <3>3. answers'[a].of = answers[a].of /\ \A b \in Answers : b # a => answers'[b] = answers[b]
      BY <1>1, <2>2, <3>1, <3>2 DEF AnswerAgain, ToggleHide, SoftDelete, AnswerRows
    <3>4. \A i \in Purchases : i # answers[a].of => Shown(i)' = Shown(i)
      BY <3>2, <3>3 DEF Shown
    <3>5. k.slug = invitations[answers[a].of].slug
      BY <1>1, <2>2, <3>1 DEF AnswerAgain, ToggleHide, SoftDelete, At, Informed, Editing
    <3>. QED BY <3>4, <3>5
  <2>. QED BY <2>1, <2>2
<1>6. ASSUME NEW s \in Slugs, s # k.slug PROVE View(s)' = View(s)
  <2>1. InvitationAt(s)' = InvitationAt(s)
    BY <1>2 DEF InvitationAt
  <2>2. \A i \in InvitationAt(s) : Shown(i)' = Shown(i)
    BY <1>5, <1>6 DEF InvitationAt
  <2>. QED BY <1>2, <2>1, <2>2, SameView
<1>7. \A s \in Slugs : cache'[s].kind = "found" => cache'[s] = View(s)' \/ s \in Owed(calls'[w])
  BY <1>2, <1>3, <1>6, FreshBefore
<1>. QED BY <1>4, <1>7, FreshAfter

\* A call that begins with no other in progress.
LEMMA StartFresh ==
  ASSUME FreshInv, ~disturbed, NEW w \in Workers,
         \A v \in Workers : v # w => At(v, "idle"), \A v \in Workers : v # w => At(v, "idle")',
         Start(w)
  PROVE  PagesFresh'
<1>1. PICK k : Begin(w, k) /\ UNCHANGED <<tables, cache, locks>> /\ k.pc \in Starts /\ FirstReads(k)
  BY StartsAt DEF Started
<1>2. calls'[w] = k /\ At(w, "idle") /\ UNCHANGED <<invitations, answers, cache>>
  BY <1>1 DEF Begin, FreshInv, TypeInv, tables
<1>3. (\A s : View(s)' = View(s)) /\ FreshAnswers' = FreshAnswers
  BY <1>2, UntouchedViews
<1>4. \A s \in Slugs : cache'[s].kind = "found" => cache'[s] = View(s)'
  BY <1>2, <1>3, FreshBefore DEF Owed, At
<1>5. k.pc = "lock" => FreshAnswers # {}
  <2>1. ASSUME k.pc = "lock", FreshAnswers = {} PROVE FALSE
    <3>1. {v \in Workers : calls[v].pc \in Submitting} = {}
      BY <1>2 DEF At, Submitting
    <3>2. Room
      BY <1>1, <2>1 DEF FirstReads
    <3>3. Cardinality({}) < Cardinality({})
      BY <2>1, <3>1, <3>2 DEF Room
    <3>. QED BY ONLY <3>3, FS_EmptySet
  <2>. QED BY <2>1
<1>6. Informed(calls[w])'
  BY <1>1, <1>2, <1>3, <1>5 DEF FirstReads, Informed, Editing, Submitting, Starts
<1>. QED BY <1>4, <1>6, FreshAfter

\* A page that times out is read again.
LEMMA ExpireFresh ==
  ASSUME FreshInv, ~disturbed, NEW s \in Slugs, Expire(s)
  PROVE  PagesFresh'
<1>1. UNCHANGED <<invitations, answers, calls>> /\ cache' = [cache EXCEPT ![s] = Empty]
      /\ cache \in [Slugs -> Entries]
  BY DEF Expire, tables, FreshInv, TypeInv, StoresOK
<1>2. (\A x : View(x)' = View(x)) /\ FreshAnswers' = FreshAnswers
  BY <1>1, UntouchedViews
<1>3. ASSUME NEW w \in Workers PROVE Informed(calls[w])'
  <2>1. Informed(calls[w])
    BY DEF FreshInv, PagesFresh
  <2>. QED BY <1>1, <1>2, <2>1 DEF Informed
<1>4. ASSUME NEW x \in Slugs, cache'[x].kind = "found"
      PROVE  cache'[x] = View(x)' \/ \E w \in Workers : x \in Owed(calls'[w])
  <2>1. x # s /\ cache'[x] = cache[x]
    BY <1>1, <1>4 DEF Empty
  <2>2. cache[x] = View(x) \/ \E w \in Workers : x \in Owed(calls[w])
    BY <1>4, <2>1 DEF FreshInv, PagesFresh
  <2>. QED BY <1>1, <1>2, <2>1, <2>2
<1>5. \A w \in Workers : Informed(calls[w])'
  BY <1>3
<1>6. PagesFresh' <=> (~disturbed' =>
        /\ \A v \in Workers : Informed(calls[v])'
        /\ \A x \in Slugs : cache'[x].kind = "found" =>
               cache'[x] = View(x)' \/ \E v \in Workers : x \in Owed(calls'[v]))
  BY DEF PagesFresh, Owed
<1>. QED BY <1>4, <1>5, <1>6

LEMMA NextFresh == FreshInv /\ [Next]_vars => FreshInv'
<1> SUFFICES ASSUME FreshInv, [Next]_vars PROVE FreshInv'
  OBVIOUS
<1>0. TypeInv /\ TypeInv' /\ Alone /\ Alone'
  BY NextTypeInv, NextAlone DEF FreshInv
<1> SUFFICES ASSUME ~disturbed' PROVE PagesFresh'
  BY <1>0 DEF FreshInv, PagesFresh
<1>1. CASE UNCHANGED <<tables, cache, calls, disturbed>>
  <2>1. (\A s : View(s)' = View(s)) /\ FreshAnswers' = FreshAnswers
    BY <1>1, UntouchedViews DEF tables
  <2>. QED BY <1>1, <2>1 DEF FreshInv, PagesFresh, tables, Informed, Owed
<1>2. ASSUME NEW w \in Workers, Start(w) \/ Step(w) \/ Fail(w) PROVE PagesFresh'
  <2>1. /\ ~disturbed /\ ~Fail(w) /\ \A v \in Workers : v # w => At(v, "idle")
        /\ \A v \in Workers : v # w => At(v, "idle")'
    BY <1>0, <1>2, OthersIdle
  <2>2. CASE Start(w)
    BY <2>1, <2>2, StartFresh
  <2>3. CASE Step(w)
    BY <1>0, <2>1, <2>3, ReadFresh, FillFresh, EditFresh, AnswerFresh, DropFresh DEF Step
  <2>. QED BY <1>2, <2>1, <2>2, <2>3
<1>3. ASSUME NEW s \in Slugs, Expire(s) PROVE PagesFresh'
  BY <1>3, ExpireFresh DEF Expire
<1>. QED BY <1>1, <1>2, <1>3 DEF Next, LockExpires, tables, vars

\* As long as calls neither overlap nor die, the deletes that follow each write
\* keep every cached page what the database holds.
THEOREM PagesAreFresh == Spec => []FreshUnlessDisturbed
<1>1. FreshInv => FreshUnlessDisturbed
  BY DEF FreshInv, PagesFresh, FreshUnlessDisturbed, Quiet, Owed
<1>. QED BY <1>1, InitFresh, NextFresh, PTL DEF Spec
=============================================================================
