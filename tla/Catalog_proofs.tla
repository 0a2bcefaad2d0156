--------------------------- MODULE Catalog_proofs ---------------------------
(***************************************************************************)
(* Theorems about Catalog, and so about Media: the types, the window of    *)
(* uploads, the photos of guests, reviews, the cached lists, and that      *)
(* objects, rows and references agree.                                     *)
(***************************************************************************)
EXTENDS Catalog, FiniteSetTheorems, SequenceTheorems, TLAPS

\* A record with the fields of a call.
IsCall(k) == DOMAIN k = DOMAIN Idle

\* The steps of each operation.
OnItsWay(k) ==
    \/ k.op = "none" /\ k.pc = "idle"
    \/ k.op = "upload" /\ k.pc \in {"putObject", "insertRow"}
    \/ k.op = "avatar" /\ k.pc \in {"putObject", "insertRow", "setAvatar"}
    \/ k.op = "guest" /\ k.pc \in {"storeStamp", "readGallery", "putObject", "insertRow", "push"}
    \/ k.op = "moment" /\ k.pc = "push"
    \/ k.op = "noAvatar" /\ k.pc = "setAvatar"
    \/ k.op = "edit" /\ k.pc \in {"readInvitation", "deleteObject", "deleteRow", "write"}
    \/ k.op = "delete" /\ k.pc \in {"deleteObject", "deleteRow"}
    \/ k.op = "clean" /\ k.pc \in {"readTemplates", "readOld", "deleteObject", "deleteRow"}
    \/ k.op = "previews" /\ k.pc \in {"putObject", "insertRow", "writePreview", "readInvitations"}
    \/ k.op = "photos" /\ k.pc \in {"putObject", "insertRow", "readMoments", "writeMoments"}
    \/ k.op = "newTemplate" /\ k.pc \in {"insertTemplate", "dropAll", "dropActive"}
    \/ k.op = "template" /\ k.pc \in {"deleteObject", "deleteRow", "writeTemplate", "dropAll",
                                      "dropActive", "dropDetail"}
    \/ k.op = "look" /\ k.pc = "fillShelf"
    \/ k.op = "review" /\ k.pc \in {"readReview", "upsert", "dropReviews"}
    \/ k.op = "removeReview" /\ k.pc \in {"remove", "dropReviews"}

BodyRows == [images : (SUBSET Files) \cup {None}, moments : (SUBSET Files) \cup {None},
             hidden : (SUBSET Files) \cup {None}, music : {0, None} \cup Files]

LocalPreviews == LocalFiles \ LocalPhotos

\* What a call has read, with n templates and b calls begun.
HasRead(k, b, n) ==
    /\ k.op \in {"guest", "moment", "edit"} \/ k.pc = "writeMoments" => k.inv \in Invitations
    /\ k.file \in {0} \cup Files
    /\ k.file \in LocalFiles => k.op \in {"edit", "template"}
    /\ k.pc \in {"insertRow", "push", "deleteObject", "deleteRow", "writePreview", "readMoments",
                 "writeMoments", "insertTemplate"} => k.file \in Files
    /\ k.pc \in {"deleteObject", "deleteRow"} => k.file \in k.todo
    /\ k.todo \subseteq Files
    /\ k.op \in {"delete", "clean"} => k.todo \cap LocalFiles = {}
    /\ k.op = "edit" => k.given \in BodyRows
    /\ k.op = "template" => /\ k.given \in {None} \cup (Files \ LocalFiles)
                            /\ k.active \in {None} \cup BOOLEAN
                            /\ k.tmpl \in 1 .. n
    /\ k.op = "previews" => k.todo \subseteq LocalPreviews
    /\ k.op = "photos" => k.todo \subseteq LocalPhotos
    /\ k.op = "previews" /\ k.pc = "putObject" => k.from \in LocalPreviews \ k.todo
    /\ k.op = "photos" /\ k.pc = "putObject" => k.from \in LocalPhotos \ k.todo
    /\ k.pc = "writeMoments" => k.given \in SUBSET Files /\ k.used \in SUBSET Files
    /\ k.pc = "storeStamp" => k.stamp \in 1 .. b /\ k.used \subseteq 1 .. b
    /\ k.op = "look" => k.given \in ShelfKeys
    /\ k.op = "review" => k.given \in Purchases \X Texts
    /\ k.op = "removeReview" => k.given \in Purchases \X {None}

Fits(k, b, n) == IsCall(k) /\ OnItsWay(k) /\ HasRead(k, b, n)

CallsFit == \A w \in Workers : Fits(calls[w], begun, Len(templates))

StoresOK ==
    /\ drawn \in Nat /\ InitFiles <= drawn
    /\ objects \subseteq 1 .. drawn
    /\ media \in [Files -> {"none", "new", "old"}]
    /\ \A k \in LocalFiles : media[k] = "none"
    /\ galleries \in [Invitations -> Galleries]
    /\ templates \in Seq(TemplateRows)
    /\ \A t \in DOMAIN templates : templates[t].preview \notin LocalPhotos
    /\ avatar \in {0} \cup Files
    /\ cache \in {None, "redis", "memory"}
    /\ stamps \in [Invitations -> SUBSET (1 .. begun)]
    /\ granted \in [Invitations -> SUBSET (1 .. begun)]
    /\ oldest \in Nat
    /\ guests \subseteq Invitations \X Files /\ deleted \subseteq Files
    /\ edited \subseteq Invitations /\ migrated \in BOOLEAN
    /\ begun \in Nat /\ begun <= MaxCalls
    /\ timeouts \in Nat /\ timeouts <= MaxTimeouts
    /\ failures \in Nat /\ failures <= MaxFailures
    /\ disturbed \in BOOLEAN
    /\ reviews \in [Purchases -> Reviews \cup {NoReview}]
    /\ DOMAIN shelf = ShelfKeys

\* The files a call may still store: one, or for the script one for each local file
\* it has not taken yet.
Pot(k) ==
    IF k.op \in Script
    THEN k.todo \cup (IF k.pc = "putObject" THEN {k.from} ELSE {})
                \cup (IF k.op = "previews" THEN LocalPhotos ELSE {})
    ELSE IF k.pc \in {"storeStamp", "readGallery", "putObject"} THEN {0} ELSE {}

Pots == {x \in Workers \X ({0} \cup LocalFiles) : x[2] \in Pot(calls[x[1]])}

PerCall == 1 + Cardinality(LocalFiles)

\* Each call that began stores no more files than were counted for it.
Drawable == drawn + Cardinality(Pots) <= InitFiles + begun * PerCall

TypeInv == StoresOK /\ DOMAIN calls = Workers /\ CallsFit /\ Drawable
-----------------------------------------------------------------------------
(* Numbers of files *)

LEMMA LocalFinite ==
  /\ IsFiniteSet(LocalFiles) /\ Cardinality(LocalFiles) \in Nat /\ PerCall \in Nat \ {0}
  /\ 0 \notin LocalFiles
<1>1. IsFiniteSet(1 .. InitFiles)
  BY MediaAssumption, FS_Interval
<1>2. IsFiniteSet(LocalFiles)
  BY <1>1, MediaAssumption, FS_Subset
<1>3. Cardinality(LocalFiles) \in Nat
  BY <1>2, FS_CardinalityType
<1>4. 0 \notin LocalFiles
  BY MediaAssumption
<1>. QED BY <1>2, <1>3, <1>4 DEF PerCall

LEMMA FilesBound ==
  ASSUME NEW b \in Nat, b <= MaxCalls, NEW d \in Nat, d <= InitFiles + b * PerCall
  PROVE  d \in {0} \cup Files /\ (d > 0 => d \in Files)
<1>1. PerCall \in Nat /\ MaxCalls \in Nat /\ InitFiles \in Nat
  BY LocalFinite, MediaAssumption
<1>2. \A m, n, c \in Nat : m <= n => m * c <= n * c
  OBVIOUS
<1>3. b * PerCall <= MaxCalls * PerCall
  BY <1>1, <1>2
<1>4. b * PerCall \in Nat /\ MaxCalls * PerCall \in Nat
  BY <1>1
<1>. QED BY ONLY <1>1, <1>3, <1>4, d \in Nat, d <= InitFiles + b * PerCall DEF Files, PerCall

LEMMA FirstFiles == 1 .. InitFiles \subseteq Files /\ LocalFiles \subseteq Files
<1>1. PerCall \in Nat /\ MaxCalls \in Nat /\ InitFiles \in Nat
  BY LocalFinite, MediaAssumption
<1>2. MaxCalls * PerCall \in Nat
  BY ONLY <1>1
<1>3. 1 .. InitFiles \subseteq Files
  BY ONLY <1>1, <1>2 DEF Files, PerCall
<1>. QED BY <1>3, MediaAssumption

LEMMA PotsFinite ==
  ASSUME NEW S, S \subseteq Workers \X ({0} \cup LocalFiles)
  PROVE  IsFiniteSet(S) /\ Cardinality(S) \in Nat
<1>1. IsFiniteSet({0} \cup LocalFiles)
  BY LocalFinite, FS_AddElement
<1>2. IsFiniteSet(Workers \X ({0} \cup LocalFiles))
  BY <1>1, MediaAssumption, FS_Product
<1>. QED BY <1>2, FS_Subset, FS_CardinalityType

LEMMA PotBound ==
  ASSUME NEW k, NEW b, NEW n, Fits(k, b, n)
  PROVE  Pot(k) \subseteq {0} \cup LocalFiles
  BY DEF Fits, HasRead, Pot, LocalPreviews, LocalPhotos, Script

\* A call goes on and draws nothing.
LEMMA DrawsNothing ==
  ASSUME TypeInv, NEW w \in Workers, NEW k, calls' = [calls EXCEPT ![w] = k],
         Pot(k) \subseteq Pot(calls[w]), drawn' = drawn, begun' = begun
  PROVE  Drawable'
<1>1. Pots' \subseteq Pots
  BY DEF Pots, TypeInv
<1>2. Cardinality(Pots') <= Cardinality(Pots) /\ Cardinality(Pots) \in Nat /\ Cardinality(Pots') \in Nat
  <2>1. IsFiniteSet(Pots)
    BY PotsFinite DEF Pots
  <2>. QED BY <1>1, <2>1, FS_Subset, FS_CardinalityType
<1>3. drawn \in Nat /\ InitFiles + begun * PerCall \in Nat
  <2>1. drawn \in Nat /\ InitFiles \in Nat /\ begun \in Nat /\ PerCall \in Nat
    BY LocalFinite, MediaAssumption DEF TypeInv, StoresOK
  <2>. QED BY ONLY <2>1
<1>4. drawn + Cardinality(Pots) <= InitFiles + begun * PerCall
  BY DEF TypeInv, Drawable
<1>5. drawn + Cardinality(Pots') <= InitFiles + begun * PerCall
  BY ONLY <1>2, <1>3, <1>4
<1>. QED BY <1>5 DEF Drawable, PerCall

\* A call draws the file it was counted for.
LEMMA DrawsOne ==
  ASSUME TypeInv, NEW w \in Workers, NEW k, calls' = [calls EXCEPT ![w] = k],
         NEW f \in Pot(calls[w]), Pot(k) \subseteq Pot(calls[w]) \ {f},
         drawn' = drawn + 1, begun' = begun
  PROVE  Drawable' /\ drawn' \in Files
<1>0. f \in {0} \cup LocalFiles
  BY PotBound DEF TypeInv, CallsFit
<1>1. Pots' \subseteq Pots \ {<<w, f>>} /\ <<w, f>> \in Pots
  BY <1>0 DEF Pots, TypeInv
<1>2. Cardinality(Pots') + 1 <= Cardinality(Pots) /\ Cardinality(Pots) \in Nat /\ Cardinality(Pots') \in Nat
  <2>1. IsFiniteSet(Pots)
    BY PotsFinite DEF Pots
  <2>2. Cardinality(Pots \ {<<w, f>>}) = Cardinality(Pots) - 1 /\ IsFiniteSet(Pots \ {<<w, f>>})
    BY <1>1, <2>1, FS_RemoveElement
  <2>3. Cardinality(Pots') <= Cardinality(Pots \ {<<w, f>>}) /\ IsFiniteSet(Pots')
    BY <1>1, <2>2, FS_Subset
  <2>. QED BY <2>1, <2>2, <2>3, FS_CardinalityType
<1>3. drawn \in Nat /\ InitFiles + begun * PerCall \in Nat
  <2>1. drawn \in Nat /\ InitFiles \in Nat /\ begun \in Nat /\ PerCall \in Nat
    BY LocalFinite, MediaAssumption DEF TypeInv, StoresOK
  <2>. QED BY ONLY <2>1
<1>4. drawn + Cardinality(Pots) <= InitFiles + begun * PerCall
  BY DEF TypeInv, Drawable
<1>5. drawn + 1 + Cardinality(Pots') <= InitFiles + begun * PerCall
  BY ONLY <1>2, <1>3, <1>4
<1>6. drawn + 1 \in Nat /\ drawn + 1 > 0 /\ drawn + 1 <= InitFiles + begun * PerCall
  BY ONLY <1>2, <1>3, <1>5
<1>7. drawn + 1 \in Files
  BY <1>6, FilesBound DEF TypeInv, StoresOK
<1>. QED BY <1>5, <1>7 DEF Drawable, PerCall

\* A call that begins is counted.
LEMMA DrawsLater ==
  ASSUME TypeInv, NEW w \in Workers, NEW k, calls' = [calls EXCEPT ![w] = k],
         Pot(k) \subseteq {0} \cup LocalFiles, drawn' = drawn, begun' = begun + 1
  PROVE  Drawable'
<1>. DEFINE T == {0} \cup LocalFiles
            New == {w} \X T
<1>1. Pots' \subseteq Pots \cup New
  BY DEF Pots, TypeInv
<1>2. IsFiniteSet(T) /\ Cardinality(T) = PerCall
  BY LocalFinite, FS_AddElement DEF PerCall
<1>3. IsFiniteSet({w}) /\ Cardinality({w}) = 1
  BY FS_Singleton
<1>. HIDE DEF T
<1>4. IsFiniteSet(New) /\ Cardinality(New) = PerCall
  <2>1. IsFiniteSet(New) /\ Cardinality(New) = Cardinality({w}) * Cardinality(T)
    BY <1>2, <1>3, FS_Product
  <2>. QED BY <2>1, <1>2, <1>3, LocalFinite
<1>. HIDE DEF New
<1>5. IsFiniteSet(Pots) /\ Cardinality(Pots) \in Nat
  BY PotsFinite DEF Pots
<1>6. Cardinality(Pots') <= Cardinality(Pots) + PerCall /\ Cardinality(Pots') \in Nat
  <2>1. IsFiniteSet(Pots \cup New)
        /\ Cardinality(Pots \cup New) = Cardinality(Pots) + Cardinality(New) - Cardinality(Pots \cap New)
    BY <1>4, <1>5, FS_Union
  <2>2. IsFiniteSet(Pots \cap New) /\ Cardinality(Pots \cap New) \in Nat
    BY <1>5, FS_Intersection, FS_CardinalityType
  <2>3. Cardinality(Pots') <= Cardinality(Pots \cup New) /\ Cardinality(Pots') \in Nat
    BY <1>1, <2>1, FS_Subset, FS_CardinalityType
  <2>. QED BY <1>4, <1>5, <2>1, <2>2, <2>3, LocalFinite
<1>7. drawn \in Nat /\ InitFiles \in Nat /\ begun \in Nat /\ PerCall \in Nat
  BY LocalFinite, MediaAssumption DEF TypeInv, StoresOK
<1>8. (begun + 1) * PerCall = begun * PerCall + PerCall /\ begun * PerCall \in Nat
  BY <1>7
<1>9. drawn + Cardinality(Pots) <= InitFiles + begun * PerCall
  BY DEF TypeInv, Drawable
<1>10. drawn + Cardinality(Pots') <= InitFiles + (begun + 1) * PerCall
  BY ONLY <1>5, <1>6, <1>7, <1>8, <1>9
<1>. QED BY <1>10 DEF Drawable, PerCall
-----------------------------------------------------------------------------
(* Types *)

LEMMA TypeOKHolds == TypeInv => TypeOK
<1>1. ASSUME TypeInv PROVE drawn \in {0} \cup Files
  <2>1. drawn \in Nat /\ begun \in Nat /\ begun <= MaxCalls /\ InitFiles \in Nat /\ PerCall \in Nat
    BY <1>1, LocalFinite, MediaAssumption DEF TypeInv, StoresOK
  <2>2. Cardinality(Pots) \in Nat
    BY PotsFinite DEF Pots
  <2>3. begun * PerCall \in Nat
    BY ONLY <2>1
  <2>4. drawn + Cardinality(Pots) <= InitFiles + begun * PerCall
    BY <1>1 DEF TypeInv, Drawable
  <2>5. drawn <= InitFiles + begun * PerCall
    BY ONLY <2>1, <2>2, <2>3, <2>4
  <2>. QED BY <2>1, <2>5, FilesBound
<1>. QED BY <1>1 DEF TypeInv, StoresOK, TypeOK, MediaTypeOK

LEMMA IdleFits == \A b, n : Fits(Idle, b, n) /\ Pot(Idle) = {} /\ Idle.pc = "idle"
  BY LocalFinite DEF Fits, IsCall, OnItsWay, HasRead, Idle, Pot, Script

LEMMA InitTypeInv == CatalogInit => TypeInv
<1> SUFFICES ASSUME CatalogInit PROVE TypeInv
  OBVIOUS
<1>. USE DEF CatalogInit, Init
<1>1. drawn \in Nat /\ InitFiles <= drawn /\ objects \subseteq 1 .. drawn
  BY MediaAssumption
<1>2. media \in [Files -> {"none", "new", "old"}] /\ \A k \in LocalFiles : media[k] = "none"
  BY FirstFiles
<1>3. \A t \in DOMAIN templates : templates[t].preview \notin LocalPhotos
  BY DEF LocalPhotos
<1>4. avatar \in {0} \cup Files
  BY FirstFiles, MediaAssumption
<1>5. galleries \in [Invitations -> Galleries] /\ templates \in Seq(TemplateRows)
  BY MediaAssumption
<1>8. begun <= MaxCalls /\ timeouts <= MaxTimeouts /\ failures <= MaxFailures
  BY MediaAssumption
<1>9. reviews \in [Purchases -> Reviews \cup {NoReview}]
  BY DEF Reviews
<1>10. StoresOK
  <2>. USE DEF StoresOK
  <2>1. cache \in {None, "redis", "memory"} /\ oldest \in Nat /\ begun \in Nat
        /\ timeouts \in Nat /\ failures \in Nat /\ disturbed \in BOOLEAN /\ migrated \in BOOLEAN
    OBVIOUS
  <2>2. /\ stamps \in [Invitations -> SUBSET (1 .. begun)]
        /\ granted \in [Invitations -> SUBSET (1 .. begun)]
        /\ guests \subseteq Invitations \X Files /\ deleted \subseteq Files /\ edited \subseteq Invitations
    OBVIOUS
  <2>3. DOMAIN shelf = ShelfKeys
    OBVIOUS
  <2>. QED BY ONLY <1>1, <1>2, <1>3, <1>4, <1>5, <1>8, <1>9, <2>1, <2>2, <2>3 DEF StoresOK
<1>6. CallsFit
  BY IdleFits DEF CallsFit
<1>7. Drawable
  <2>1. Pots = {}
    BY IdleFits DEF Pots
  <2>2. Cardinality(Pots) = 0
    BY <2>1, FS_EmptySet
  <2>. QED BY <2>2, LocalFinite, MediaAssumption DEF Drawable
<1>. QED BY <1>10, <1>6, <1>7 DEF TypeInv

\* More calls and more templates take nothing from what a call has read.
LEMMA FitsMore ==
  ASSUME NEW k, NEW b \in Nat, NEW n \in Nat, NEW b2 \in Nat, NEW n2 \in Nat, b <= b2, n <= n2,
         Fits(k, b, n)
  PROVE  Fits(k, b2, n2)
<1>1. 1 .. b \subseteq 1 .. b2 /\ 1 .. n \subseteq 1 .. n2
  OBVIOUS
<1>. QED BY <1>1 DEF Fits, HasRead

LEMMA MoveInv ==
  ASSUME TypeInv, StoresOK', NEW w \in Workers, NEW k, calls' = [calls EXCEPT ![w] = k],
         begun <= begun', Len(templates) <= Len(templates'), Fits(k, begun', Len(templates')),
         Drawable'
  PROVE  TypeInv'
<1>1. DOMAIN calls' = Workers
  BY DEF TypeInv
<1>2. begun \in Nat /\ begun' \in Nat /\ Len(templates) \in Nat /\ Len(templates') \in Nat
  BY DEF TypeInv, StoresOK
<1>3. ASSUME NEW v \in Workers PROVE Fits(calls'[v], begun', Len(templates'))
  <2>1. CASE v = w
    BY <2>1 DEF TypeInv
  <2>2. CASE v # w
    <3>1. calls'[v] = calls[v] /\ Fits(calls[v], begun, Len(templates))
      BY <2>2 DEF TypeInv, CallsFit
    <3>. QED BY <1>2, <3>1, FitsMore
  <2>. QED BY <2>1, <2>2
<1>. QED BY <1>1, <1>3 DEF TypeInv, CallsFit

\* A call goes on: what is left to see to are the stores and what it has read.
LEMMA GoOnInv ==
  ASSUME TypeInv, StoresOK', NEW w \in Workers, NEW k, calls' = [calls EXCEPT ![w] = k],
         drawn' = drawn, begun' = begun, Len(templates) <= Len(templates'),
         Fits(k, begun, Len(templates)), Pot(k) \subseteq Pot(calls[w])
  PROVE  TypeInv'
<1>1. Drawable'
  BY DrawsNothing
<1>2. begun \in Nat /\ Len(templates) \in Nat /\ Len(templates') \in Nat
  BY DEF TypeInv, StoresOK
<1>3. Fits(k, begun', Len(templates'))
  BY <1>2, FitsMore
<1>4. begun <= begun'
  BY <1>2
<1>. QED BY <1>1, <1>2, <1>3, <1>4, MoveInv

LEMMA ReturnInv ==
  ASSUME TypeInv, StoresOK', NEW w \in Workers, Return(w), drawn' = drawn,
         Len(templates) <= Len(templates')
  PROVE  TypeInv'
  BY IdleFits, GoOnInv DEF Return, Continue, bounds

LEMMA BeginInv ==
  ASSUME TypeInv, StoresOK', NEW w \in Workers, NEW k, Begin(w, k),
         drawn' = drawn, templates' = templates, Fits(k, begun + 1, Len(templates))
  PROVE  TypeInv'
<1>1. PICK k2 : k2 = IF k = Idle THEN Idle ELSE [k EXCEPT !.seen = Rows \ Held]
  OBVIOUS
<1>2. Fits(k2, begun + 1, Len(templates))
  <2>1. CASE k = Idle
    BY <1>1, <2>1, IdleFits
  <2>2. CASE k # Idle
    BY <1>1, <2>2 DEF Fits, IsCall, OnItsWay, HasRead, Idle
  <2>. QED BY <2>1, <2>2
<1>3. calls' = [calls EXCEPT ![w] = k2] /\ begun' = begun + 1
  BY <1>1 DEF Begin
<1>4. begun \in Nat /\ Len(templates) \in Nat
  BY DEF TypeInv, StoresOK
<1>5. Drawable'
  BY <1>2, <1>3, PotBound, DrawsLater
<1>6. begun <= begun' /\ Len(templates) <= Len(templates')
  BY <1>3, <1>4
<1>7. Fits(k2, begun', Len(templates'))
  BY <1>2, <1>3
<1>. QED BY <1>3, <1>5, <1>6, <1>7, MoveInv

\* What a call that begins counts.
LEMMA BeginCounts ==
  ASSUME TypeInv, NEW w \in Workers, NEW k, Begin(w, k)
  PROVE  /\ begun \in Nat /\ begun' = begun + 1 /\ begun' <= MaxCalls /\ disturbed' \in BOOLEAN
         /\ timeouts' = timeouts /\ failures' = failures
<1>1. begun \in Nat /\ disturbed \in BOOLEAN /\ MaxCalls \in Nat
  BY MediaAssumption DEF TypeInv, StoresOK
<1>2. /\ begun < MaxCalls /\ begun' = begun + 1 /\ disturbed' = (disturbed \/ ~Quiet)
      /\ timeouts' = timeouts /\ failures' = failures
  BY DEF Begin
<1>3. begun' <= MaxCalls
  BY ONLY <1>1, <1>2
<1>4. disturbed' \in BOOLEAN
  BY ONLY <1>1, <1>2 DEF Quiet
<1>. QED BY <1>1, <1>2, <1>3, <1>4

\* A call that begins touches the histories alone.
LEMMA BeginQuietly ==
  ASSUME TypeInv, NEW w \in Workers, NEW k, Begin(w, k),
         UNCHANGED <<stores, refs, window, catalogVars>>,
         guests' = guests, deleted' \subseteq Files, edited' \subseteq Invitations,
         migrated' \in BOOLEAN, Fits(k, begun + 1, Len(templates))
  PROVE  TypeInv'
<1>1. begun \in Nat /\ begun' = begun + 1 /\ begun' <= MaxCalls /\ disturbed' \in BOOLEAN
      /\ timeouts' = timeouts /\ failures' = failures
  BY BeginCounts
<1>2. 1 .. begun \subseteq 1 .. begun'
  BY ONLY <1>1
<1>3. stamps' \in [Invitations -> SUBSET (1 .. begun')] /\ granted' \in [Invitations -> SUBSET (1 .. begun')]
  BY <1>2 DEF TypeInv, StoresOK, window
<1>4. StoresOK'
  BY <1>1, <1>3 DEF TypeInv, StoresOK, stores, refs, window, catalogVars
<1>. QED BY <1>4, BeginInv DEF stores, refs
-----------------------------------------------------------------------------
(* Calls that begin *)

LEMMA DeletingCall ==
  ASSUME NEW call, IsCall(call), NEW todo, NEW write
  PROVE  LET d == Deleting(call, todo, write) IN
         /\ IsCall(d) /\ d.op = call.op /\ d.inv = call.inv /\ d.given = call.given
         /\ d.used = call.used /\ d.from = call.from /\ d.view = call.view /\ d.tmpl = call.tmpl
         /\ d.active = call.active /\ d.stamp = call.stamp /\ d.seen = call.seen
         /\ d.todo = todo
         /\ todo = {} => d.pc = write /\ d.file = call.file
         /\ todo # {} => d.pc = "deleteObject" /\ d.file \in todo
<1>1. CASE todo = {}
  BY <1>1 DEF Deleting, IsCall, Idle
<1>2. CASE todo # {}
  <2>1. PICK f : f = CHOOSE k \in todo : TRUE
    OBVIOUS
  <2>2. f \in todo
    BY <1>2, <2>1
  <2>. QED BY <1>2, <2>1, <2>2 DEF Deleting, IsCall, Idle
<1>. QED BY <1>1, <1>2

LEMMA NextLocalCall ==
  ASSUME NEW call, IsCall(call)
  PROVE  LET d == NextLocal(call) IN
         \/ d = Idle
         \/ /\ IsCall(d) /\ d.op = call.op /\ d.inv = call.inv /\ d.given = call.given
            /\ d.used = call.used /\ d.view = call.view /\ d.tmpl = call.tmpl
            /\ d.active = call.active /\ d.stamp = call.stamp /\ d.seen = call.seen
            /\ d.file = call.file
            /\ \/ /\ d.pc = "putObject" /\ d.from \in call.todo /\ d.todo = call.todo \ {d.from}
               \/ /\ d.pc = "readInvitations" /\ call.op = "previews" /\ call.todo = {}
                  /\ d.todo = {}
<1>1. CASE call.todo = {}
  BY <1>1 DEF NextLocal, IsCall, Idle
<1>2. CASE call.todo # {}
  <2>1. PICK f : f = CHOOSE k \in call.todo : TRUE
    OBVIOUS
  <2>2. f \in call.todo
    BY <1>2, <2>1
  <2>. QED BY <1>2, <2>1, <2>2 DEF NextLocal, IsCall, Idle
<1>. QED BY <1>1, <1>2

\* The next local file of a call of the script.
LEMMA NextLocalFits ==
  ASSUME NEW call, NEW b, NEW n, IsCall(call), call.op \in Script,
         call.file \in {0} \cup Files, call.file \notin LocalFiles,
         call.op = "previews" => call.todo \subseteq LocalPreviews,
         call.op = "photos" => call.todo \subseteq LocalPhotos
  PROVE  LET d == NextLocal(call) IN
         /\ Fits(d, b, n)
         /\ Pot(d) \subseteq call.todo \cup (IF call.op = "previews" THEN LocalPhotos ELSE {})
<1>1. PICK d : d = NextLocal(call)
  OBVIOUS
<1>2. CASE d = Idle
  BY <1>1, <1>2, IdleFits
<1>3. CASE d # Idle
  <2>1. LocalPreviews \subseteq Files /\ LocalPhotos \subseteq Files
    BY FirstFiles DEF LocalPreviews, LocalPhotos
  <2>2. /\ IsCall(d) /\ d.op = call.op /\ d.file = call.file
        /\ \/ /\ d.pc = "putObject" /\ d.from \in call.todo /\ d.todo = call.todo \ {d.from}
           \/ /\ d.pc = "readInvitations" /\ call.op = "previews" /\ d.todo = {}
    BY <1>1, <1>3, NextLocalCall
  <2>3. Pot(d) \subseteq call.todo \cup (IF call.op = "previews" THEN LocalPhotos ELSE {})
    BY <2>2 DEF Pot, Script
  <2>4. OnItsWay(d)
    BY <2>2 DEF OnItsWay, Script
  <2>5. HasRead(d, b, n)
    BY <2>1, <2>2 DEF HasRead, Script
  <2>. QED BY <1>1, <2>2, <2>3, <2>4, <2>5 DEF Fits
<1>. QED BY <1>2, <1>3

LEMMA TemplateAt ==
  ASSUME TypeInv, NEW t \in DOMAIN templates
  PROVE  /\ templates[t] \in TemplateRows /\ t \in 1 .. Len(templates)
         /\ templates[t].preview \in Files /\ templates[t].active \in BOOLEAN
<1>1. templates \in Seq(TemplateRows)
  BY DEF TypeInv, StoresOK
<1>2. templates[t] \in TemplateRows /\ t \in 1 .. Len(templates)
  BY ONLY <1>1, t \in DOMAIN templates
<1>. QED BY <1>2 DEF TemplateRows

LEMMA SpareFile ==
  ASSUME TypeInv, NEW k \in Spare
  PROVE  k \in Files /\ k \notin LocalFiles /\ k \in Rows
  BY DEF Spare, Rows, TypeInv, StoresOK

LEMMA BodyType ==
  ASSUME TypeInv, NEW g \in Galleries, NEW body \in Bodies(g)
  PROVE  body \in BodyRows
<1>0. NotGiven \in BodyRows
  BY DEF NotGiven, BodyRows
<1>1. g.images \subseteq Files /\ g.moments \subseteq Files /\ g.hidden \subseteq Files
  BY DEF Galleries
<1>2. Spare \subseteq Files
  BY SpareFile
<1>. HIDE DEF NotGiven
<1>3. CASE \E k \in Spare : body = [NotGiven EXCEPT !.images = g.images \cup {k}]
  <2>1. PICK k \in Files : body = [NotGiven EXCEPT !.images = g.images \cup {k}]
    BY ONLY <1>2, <1>3
  <2>. QED BY ONLY <1>0, <1>1, <2>1 DEF BodyRows
<1>4. CASE \E k \in g.images : body = [NotGiven EXCEPT !.images = g.images \ {k}]
  BY ONLY <1>0, <1>1, <1>2, <1>4 DEF BodyRows
<1>5. CASE \E k \in g.moments : body = [NotGiven EXCEPT !.moments = g.moments \ {k}, !.hidden = g.hidden \cup {k}]
  <2>1. PICK k \in Files : body = [NotGiven EXCEPT !.moments = g.moments \ {k}, !.hidden = g.hidden \cup {k}]
    BY ONLY <1>1, <1>5
  <2>2. g.moments \ {k} \in SUBSET Files /\ g.hidden \cup {k} \in SUBSET Files
    BY ONLY <1>1, <2>1
  <2>. QED BY ONLY <1>0, <2>1, <2>2 DEF BodyRows
<1>6. CASE \E k \in g.moments : body = [NotGiven EXCEPT !.moments = g.moments \ {k}]
  BY ONLY <1>0, <1>1, <1>2, <1>6 DEF BodyRows
<1>7. CASE \E k \in g.hidden : body = [NotGiven EXCEPT !.hidden = g.hidden \ {k}]
  BY ONLY <1>0, <1>1, <1>2, <1>7 DEF BodyRows
<1>8. CASE \E k \in Spare : body = [NotGiven EXCEPT !.music = k]
  BY ONLY <1>0, <1>1, <1>2, <1>8 DEF BodyRows
<1>. QED BY ONLY <1>3, <1>4, <1>5, <1>6, <1>7, <1>8, body \in Bodies(g) DEF Bodies

LEMMA BeginSilently ==
  ASSUME TypeInv, NEW w \in Workers, NEW k, Begin(w, k), UNCHANGED mediaVars, UNCHANGED catalogVars,
         Fits(k, begun + 1, Len(templates))
  PROVE  TypeInv'
<1>1. UNCHANGED <<stores, refs, window, catalogVars>> /\ guests' = guests
      /\ deleted' = deleted /\ edited' = edited /\ migrated' = migrated
  BY DEF mediaVars, history
<1>2. deleted' \subseteq Files /\ edited' \subseteq Invitations /\ migrated' \in BOOLEAN
  BY <1>1 DEF TypeInv, StoresOK
<1>. QED BY <1>1, <1>2, BeginQuietly

LEMMA UploadMediaInv ==
  ASSUME TypeInv, NEW w \in Workers, NEW op \in {"upload", "avatar"}, UploadMedia(w, op),
         UNCHANGED catalogVars
  PROVE  TypeInv'
<1>1. PICK k : k = [Idle EXCEPT !.op = op, !.pc = "putObject"]
  OBVIOUS
<1>2. Fits(k, begun + 1, Len(templates))
  BY <1>1, LocalFinite DEF Fits, IsCall, OnItsWay, HasRead, Idle
<1>. QED BY <1>1, <1>2, BeginSilently DEF UploadMedia

LEMMA AddMomentInv ==
  ASSUME TypeInv, NEW w \in Workers, NEW i \in Invitations, NEW f \in Spare, AddMoment(w, i, f),
         UNCHANGED catalogVars
  PROVE  TypeInv'
<1>1. PICK k : k = [Idle EXCEPT !.op = "moment", !.pc = "push", !.inv = i, !.file = f]
  OBVIOUS
<1>2. Fits(k, begun + 1, Len(templates))
  BY <1>1, SpareFile DEF Fits, IsCall, OnItsWay, HasRead, Idle
<1>. QED BY <1>1, <1>2, BeginSilently DEF AddMoment

LEMMA RemoveAvatarInv ==
  ASSUME TypeInv, NEW w \in Workers, RemoveAvatar(w), UNCHANGED catalogVars
  PROVE  TypeInv'
<1>1. PICK k : k = [Idle EXCEPT !.op = "noAvatar", !.pc = "setAvatar"]
  OBVIOUS
<1>2. Fits(k, begun + 1, Len(templates))
  BY <1>1, LocalFinite DEF Fits, IsCall, OnItsWay, HasRead, Idle
<1>. QED BY <1>1, <1>2, BeginSilently DEF RemoveAvatar

LEMMA CleanupOrphansInv ==
  ASSUME TypeInv, NEW w \in Workers, CleanupOrphans(w), UNCHANGED catalogVars
  PROVE  TypeInv'
<1>1. PICK used : used = UNION {g.images \cup g.moments \cup g.hidden \cup {g.music} :
                                    g \in {galleries[i] : i \in Invitations}}
  OBVIOUS
<1>2. PICK k : k = [Idle EXCEPT !.op = "clean", !.pc = "readTemplates", !.used = used]
  OBVIOUS
<1>3. Fits(k, begun + 1, Len(templates))
  BY <1>2, LocalFinite DEF Fits, IsCall, OnItsWay, HasRead, Idle
<1>4. Begin(w, k)
  BY <1>1, <1>2 DEF CleanupOrphans
<1>. QED BY <1>3, <1>4, BeginSilently DEF CleanupOrphans

LEMMA CreateTemplateInv ==
  ASSUME TypeInv, NEW w \in Workers, NEW f \in Spare, CreateTemplate(w, f), UNCHANGED catalogVars
  PROVE  TypeInv'
<1>1. PICK k : k = [Idle EXCEPT !.op = "newTemplate", !.pc = "insertTemplate", !.file = f]
  OBVIOUS
<1>2. Fits(k, begun + 1, Len(templates))
  BY <1>1, SpareFile DEF Fits, IsCall, OnItsWay, HasRead, Idle
<1>. QED BY <1>1, <1>2, BeginSilently DEF CreateTemplate

LEMMA UpdateTemplateInv ==
  ASSUME TypeInv, NEW w \in Workers, NEW t \in DOMAIN templates, NEW f \in Spare \cup {None},
         NEW b \in BOOLEAN \cup {None}, UpdateTemplate(w, t, f, b), UNCHANGED catalogVars
  PROVE  TypeInv'
<1>1. PICK call : call = [Idle EXCEPT !.op = "template", !.tmpl = t, !.given = f, !.active = b]
  OBVIOUS
<1>2. PICK todo : todo = IF f \in {None, templates[t].preview} THEN {} ELSE {templates[t].preview}
  OBVIOUS
<1>3. todo \subseteq Files
  BY <1>2, TemplateAt
<1>4. PICK k : k = Deleting(call, todo, "writeTemplate")
  OBVIOUS
<1>5. IsCall(call) /\ call.op = "template" /\ call.tmpl = t /\ call.given = f /\ call.active = b
      /\ call.file = 0
  BY <1>1 DEF IsCall, Idle
<1>6. /\ IsCall(k) /\ k.op = "template" /\ k.tmpl = t /\ k.given = f /\ k.active = b /\ k.todo = todo
      /\ \/ k.pc = "writeTemplate" /\ k.file = 0
         \/ k.pc = "deleteObject" /\ k.file \in todo
  BY <1>4, <1>5, DeletingCall
<1>7. t \in 1 .. Len(templates)
  BY TemplateAt
<1>8. f \in {None} \cup (Files \ LocalFiles)
  BY SpareFile
<1>9. Fits(k, begun + 1, Len(templates))
  BY <1>3, <1>6, <1>7, <1>8 DEF Fits, OnItsWay, HasRead
<1>10. Begin(w, k) /\ UNCHANGED mediaVars
  BY <1>1, <1>2, <1>4 DEF UpdateTemplate
<1>. QED BY <1>9, <1>10, BeginSilently

LEMMA EditInv ==
  ASSUME TypeInv, NEW w \in Workers, NEW i \in Invitations, Edit(w, i), UNCHANGED catalogVars
  PROVE  TypeInv'
<1>1. PICK body \in Bodies(galleries[i]) :
          Begin(w, [Idle EXCEPT !.op = "edit", !.pc = "readInvitation", !.inv = i, !.given = body])
  BY DEF Edit
<1>2. body \in BodyRows
  BY BodyType DEF TypeInv, StoresOK
<1>3. PICK k : k = [Idle EXCEPT !.op = "edit", !.pc = "readInvitation", !.inv = i, !.given = body]
  OBVIOUS
<1>4. Fits(k, begun + 1, Len(templates))
  BY <1>2, <1>3, LocalFinite DEF Fits, IsCall, OnItsWay, HasRead, Idle
<1>5. deleted' \subseteq Files /\ edited' \subseteq Invitations /\ migrated' \in BOOLEAN
  BY DEF Edit, TypeInv, StoresOK
<1>6. UNCHANGED <<stores, refs, window, catalogVars>> /\ guests' = guests
  BY DEF Edit
<1>. QED BY <1>1, <1>3, <1>4, <1>5, <1>6, BeginQuietly

LEMMA DeleteMediaInv ==
  ASSUME TypeInv, NEW w \in Workers, NEW f \in Files, DeleteMedia(w, f), UNCHANGED catalogVars
  PROVE  TypeInv'
<1>1. PICK call : call = [Idle EXCEPT !.op = "delete"]
  OBVIOUS
<1>2. IsCall(call) /\ call.op = "delete"
  BY <1>1 DEF IsCall, Idle
<1>3. PICK k : k = Deleting(call, {f}, "idle")
  OBVIOUS
<1>4. IsCall(k) /\ k.op = "delete" /\ k.todo = {f} /\ k.pc = "deleteObject" /\ k.file \in {f}
  BY <1>2, <1>3, DeletingCall
<1>5. f \notin LocalFiles
  BY DEF DeleteMedia, TypeInv, StoresOK
<1>6. Fits(k, begun + 1, Len(templates))
  BY <1>4, <1>5 DEF Fits, OnItsWay, HasRead
<1>7. deleted' \subseteq Files /\ edited' \subseteq Invitations /\ migrated' \in BOOLEAN
  BY DEF DeleteMedia, TypeInv, StoresOK
<1>8. Begin(w, k) /\ UNCHANGED <<stores, refs, window, catalogVars>> /\ guests' = guests
  BY <1>1, <1>3 DEF DeleteMedia
<1>. QED BY <1>6, <1>7, <1>8, BeginQuietly

LEMMA RunScriptInv ==
  ASSUME TypeInv, NEW w \in Workers, RunScript(w), UNCHANGED catalogVars
  PROVE  TypeInv'
<1>1. PICK local : local = {templates[t].preview : t \in DOMAIN templates} \cap LocalFiles
  OBVIOUS
<1>2. local \subseteq LocalPreviews
  BY <1>1 DEF LocalPreviews, TypeInv, StoresOK
<1>3. PICK call : call = [Idle EXCEPT !.op = "previews", !.todo = local, !.view = templates]
  OBVIOUS
<1>4. IsCall(call) /\ call.op = "previews" /\ call.todo = local /\ call.file = 0
  BY <1>3 DEF IsCall, Idle
<1>5. PICK k : k = NextLocal(call)
  OBVIOUS
<1>6. Fits(k, begun + 1, Len(templates))
  BY <1>2, <1>4, <1>5, NextLocalFits, LocalFinite DEF Script
<1>7. deleted' \subseteq Files /\ edited' \subseteq Invitations /\ migrated' \in BOOLEAN
  BY DEF RunScript, TypeInv, StoresOK
<1>8. Begin(w, k) /\ UNCHANGED <<stores, refs, window, catalogVars>> /\ guests' = guests
  BY <1>1, <1>3, <1>5 DEF RunScript
<1>. QED BY <1>6, <1>7, <1>8, BeginQuietly

LEMMA GuestUploadInv ==
  ASSUME TypeInv, NEW w \in Workers, NEW i \in Invitations, GuestUpload(w, i), UNCHANGED catalogVars
  PROVE  TypeInv'
<1>1. PICK now : now = begun + 1
  OBVIOUS
<1>2. PICK recent : recent = {s \in stamps[i] : InWindow(s)}
  OBVIOUS
<1>3. PICK refused : refused = TooMany(Cardinality(recent) + 1)
  OBVIOUS
<1>. DEFINE Redis == /\ cache' = "redis"
                     /\ stamps' = [stamps EXCEPT ![i] = recent \cup {now}]
                     /\ granted' = [granted EXCEPT ![i] = IF refused THEN @ ELSE @ \cup {now}]
                     /\ Begin(w, IF refused THEN Idle
                                 ELSE [Idle EXCEPT !.op = "guest", !.pc = "readGallery", !.inv = i])
            Memory == /\ cache' = "memory"
                      /\ Begin(w, [Idle EXCEPT !.op = "guest", !.pc = "storeStamp", !.inv = i,
                                               !.stamp = now, !.used = recent])
                      /\ UNCHANGED <<stamps, granted>>
<1>4. Redis \/ Memory
  BY <1>1, <1>2, <1>3 DEF GuestUpload
<1>5. UNCHANGED <<stores, refs, oldest, history>>
  BY DEF GuestUpload
<1>6. begun \in Nat /\ stamps \in [Invitations -> SUBSET (1 .. begun)]
      /\ granted \in [Invitations -> SUBSET (1 .. begun)]
  BY DEF TypeInv, StoresOK
<1>7. 1 .. begun \subseteq 1 .. begun + 1 /\ now \in 1 .. begun + 1 /\ recent \subseteq 1 .. begun
  BY <1>1, <1>2, <1>6
<1>8. \E k : Begin(w, k) /\ Fits(k, begun + 1, Len(templates))
  <2>1. CASE Redis
    <3>1. PICK k : k = [Idle EXCEPT !.op = "guest", !.pc = "readGallery", !.inv = i]
      OBVIOUS
    <3>2. Fits(k, begun + 1, Len(templates))
      BY <3>1, LocalFinite DEF Fits, IsCall, OnItsWay, HasRead, Idle
    <3>. QED BY <2>1, <3>1, <3>2, IdleFits
  <2>2. CASE Memory
    <3>1. PICK k : k = [Idle EXCEPT !.op = "guest", !.pc = "storeStamp", !.inv = i,
                                    !.stamp = now, !.used = recent]
      OBVIOUS
    <3>2. recent \subseteq 1 .. begun + 1
      BY <1>7
    <3>3. Fits(k, begun + 1, Len(templates))
      BY <1>7, <3>1, <3>2, LocalFinite DEF Fits, IsCall, OnItsWay, HasRead, Idle
    <3>. QED BY <2>2, <3>1, <3>3
  <2>. QED BY <1>4, <2>1, <2>2
<1>9. PICK k : Begin(w, k) /\ Fits(k, begun + 1, Len(templates))
  BY <1>8
<1>10. begun' = begun + 1 /\ begun' <= MaxCalls /\ disturbed' \in BOOLEAN
       /\ timeouts' = timeouts /\ failures' = failures
  BY <1>9, BeginCounts
<1>11. stamps' \in [Invitations -> SUBSET (1 .. begun')] /\ granted' \in [Invitations -> SUBSET (1 .. begun')]
  <2>1. CASE Memory
    BY <1>6, <1>7, <1>10, <2>1
  <2>2. CASE Redis
    <3>1. recent \cup {now} \subseteq 1 .. begun'
      BY <1>7, <1>10
    <3>2. granted[i] \cup {now} \subseteq 1 .. begun' /\ granted[i] \subseteq 1 .. begun'
      BY <1>6, <1>7, <1>10
    <3>3. stamps \in [Invitations -> SUBSET (1 .. begun')] /\ granted \in [Invitations -> SUBSET (1 .. begun')]
      BY <1>6, <1>7, <1>10
    <3>. QED BY ONLY <2>2, <3>1, <3>2, <3>3
  <2>. QED BY <1>4, <2>1, <2>2
<1>12. cache' \in {None, "redis", "memory"}
  BY <1>4
<1>. HIDE DEF Redis, Memory
<1>13. StoresOK'
  BY <1>5, <1>10, <1>11, <1>12 DEF TypeInv, StoresOK, stores, refs, history, catalogVars
<1>. QED BY <1>5, <1>9, <1>13, BeginInv DEF stores, refs

LEMMA LookInv ==
  ASSUME TypeInv, NEW w \in Workers, NEW key \in ShelfKeys, Look(w, key)
  PROVE  TypeInv'
<1>1. PICK view : view = View(key)
  OBVIOUS
<1>2. PICK k : k = [Idle EXCEPT !.op = "look", !.pc = "fillShelf", !.given = key, !.view = view]
  OBVIOUS
<1>3. Fits(k, begun + 1, Len(templates))
  BY <1>2, LocalFinite DEF Fits, IsCall, OnItsWay, HasRead, Idle
<1>4. Begin(w, k) /\ UNCHANGED mediaVars /\ UNCHANGED catalogVars
  BY <1>1, <1>2 DEF Look
<1>. QED BY <1>3, <1>4, BeginSilently

LEMMA ReviewInv ==
  ASSUME TypeInv, NEW w \in Workers, NEW p \in Purchases, NEW text \in Texts, Review(w, p, text)
  PROVE  TypeInv'
<1>1. PICK k : k = [Idle EXCEPT !.op = "review", !.pc = "readReview", !.given = <<p, text>>]
  OBVIOUS
<1>2. Fits(k, begun + 1, Len(templates))
  BY <1>1, LocalFinite DEF Fits, IsCall, OnItsWay, HasRead, Idle
<1>. QED BY <1>1, <1>2, BeginSilently DEF Review

LEMMA RemoveReviewInv ==
  ASSUME TypeInv, NEW w \in Workers, NEW p \in Purchases, RemoveReview(w, p)
  PROVE  TypeInv'
<1>1. PICK k : k = [Idle EXCEPT !.op = "removeReview", !.pc = "remove", !.given = <<p, None>>]
  OBVIOUS
<1>2. Fits(k, begun + 1, Len(templates))
  BY <1>1, LocalFinite DEF Fits, IsCall, OnItsWay, HasRead, Idle
<1>. QED BY <1>1, <1>2, BeginSilently DEF RemoveReview

LEMMA StartInv ==
  ASSUME TypeInv, NEW w \in Workers, Start(w)
  PROVE  TypeInv'
<1>1. CASE MediaStart(w) /\ UNCHANGED catalogVars
  <2>1. CASE \E t \in DOMAIN templates :
                \/ \E k \in Spare : UpdateTemplate(w, t, k, None)
                \/ \E b \in BOOLEAN : UpdateTemplate(w, t, None, b)
    BY <1>1, <2>1, UpdateTemplateInv
  <2>2. CASE \E i \in Invitations : GuestUpload(w, i) \/ Edit(w, i)
    BY <1>1, <2>2, GuestUploadInv, EditInv
  <2>3. CASE \E i \in Invitations, k \in Spare : AddMoment(w, i, k)
    BY <1>1, <2>3, AddMomentInv
  <2>4. CASE \E op \in {"upload", "avatar"} : UploadMedia(w, op)
    BY <1>1, <2>4, UploadMediaInv
  <2>5. CASE \E k \in Files : DeleteMedia(w, k)
    BY <1>1, <2>5, DeleteMediaInv
  <2>6. CASE \E k \in Spare : CreateTemplate(w, k)
    BY <1>1, <2>6, CreateTemplateInv
  <2>7. CASE CleanupOrphans(w) \/ RemoveAvatar(w) \/ RunScript(w)
    BY <1>1, <2>7, CleanupOrphansInv, RemoveAvatarInv, RunScriptInv
  <2>. QED BY ONLY <1>1, <2>1, <2>2, <2>3, <2>4, <2>5, <2>6, <2>7 DEF MediaStart
<1>2. CASE \E key \in ShelfKeys : Look(w, key)
  BY <1>2, LookInv
<1>3. CASE \E p \in Purchases, text \in Texts : Review(w, p, text)
  BY <1>3, ReviewInv
<1>4. CASE \E p \in Purchases : RemoveReview(w, p)
  BY <1>4, RemoveReviewInv
<1>. QED BY <1>1, <1>2, <1>3, <1>4 DEF Start
-----------------------------------------------------------------------------
(* Calls that go on *)

\* A call goes on and only the stores that mediaVars leaves out may change.
LEMMA GoOnSilently ==
  ASSUME TypeInv, NEW w \in Workers, NEW k, Continue(w, k), UNCHANGED mediaVars,
         reviews' \in [Purchases -> Reviews \cup {NoReview}], DOMAIN shelf' = ShelfKeys,
         Fits(k, begun, Len(templates)), Pot(k) \subseteq Pot(calls[w])
  PROVE  TypeInv'
<1>1. drawn' = drawn /\ templates' = templates /\ begun' = begun /\ calls' = [calls EXCEPT ![w] = k]
  BY DEF mediaVars, stores, refs, Continue, bounds
<1>2. StoresOK'
  BY DEF TypeInv, StoresOK, mediaVars, stores, refs, window, history, Continue, bounds
<1>3. Len(templates) <= Len(templates')
  BY <1>1 DEF TypeInv, StoresOK
<1>. QED BY <1>1, <1>2, <1>3, GoOnInv

LEMMA GotoFits ==
  ASSUME TypeInv, NEW w \in Workers, NEW pc, NEW k, k = [calls[w] EXCEPT !.pc = pc],
         OnItsWay(k), HasRead(k, begun, Len(templates))
  PROVE  Fits(k, begun, Len(templates))
  BY DEF TypeInv, CallsFit, Fits, IsCall

LEMMA ReturnSilently ==
  ASSUME TypeInv, NEW w \in Workers, Return(w), UNCHANGED mediaVars,
         reviews' \in [Purchases -> Reviews \cup {NoReview}], DOMAIN shelf' = ShelfKeys
  PROVE  TypeInv'
  BY IdleFits, GoOnSilently DEF Return

\* What is known of a call in progress.
LEMMA Mine ==
  ASSUME TypeInv, NEW w \in Workers
  PROVE  /\ IsCall(calls[w]) /\ OnItsWay(calls[w]) /\ HasRead(calls[w], begun, Len(templates))
         /\ calls[w].pc # "idle" => calls[w].op # "none"
  BY DEF TypeInv, CallsFit, Fits, OnItsWay

LEMMA StoreStampInv ==
  ASSUME TypeInv, NEW w \in Workers, StoreStamp(w), UNCHANGED catalogVars
  PROVE  TypeInv'
<1>1. PICK i : i = calls[w].inv
  OBVIOUS
<1>2. PICK now : now = calls[w].stamp
  OBVIOUS
<1>3. PICK used : used = calls[w].used
  OBVIOUS
<1>4. At(w, "storeStamp") /\ calls[w].op = "guest"
  BY Mine DEF StoreStamp, At, OnItsWay
<1>5. i \in Invitations /\ now \in 1 .. begun /\ used \subseteq 1 .. begun
  BY <1>1, <1>2, <1>3, <1>4, Mine DEF HasRead, At
<1>6. PICK k : k = [calls[w] EXCEPT !.pc = "readGallery", !.used = {}, !.stamp = 0]
  OBVIOUS
<1>7. /\ IsCall(k) /\ k.pc = "readGallery" /\ k.op = "guest" /\ k.inv = calls[w].inv
      /\ k.file = calls[w].file /\ k.todo = calls[w].todo
  BY <1>4, <1>6, Mine DEF IsCall, Idle
<1>8. Fits(k, begun, Len(templates)) /\ Pot(k) \subseteq Pot(calls[w])
  BY <1>4, <1>7, Mine DEF Fits, OnItsWay, HasRead, Pot, Script, At
<1>9. /\ stamps' = [stamps EXCEPT ![i] = used \cup {now}]
      /\ granted' = [granted EXCEPT ![i] = @ \cup {now}]
      /\ calls' = [calls EXCEPT ![w] = k] /\ UNCHANGED <<bounds, disturbed>>
      /\ UNCHANGED <<stores, refs, cache, oldest, history>>
  BY <1>1, <1>2, <1>3, <1>6 DEF StoreStamp, Continue
<1>10. stamps' \in [Invitations -> SUBSET (1 .. begun)] /\ granted' \in [Invitations -> SUBSET (1 .. begun)]
  <2>1. stamps \in [Invitations -> SUBSET (1 .. begun)] /\ granted \in [Invitations -> SUBSET (1 .. begun)]
    BY DEF TypeInv, StoresOK
  <2>2. stamps' = [stamps EXCEPT ![i] = used \cup {now}]
        /\ granted' = [granted EXCEPT ![i] = granted[i] \cup {now}]
    BY ONLY <1>9
  <2>. QED BY ONLY <1>5, <2>1, <2>2
<1>11. StoresOK'
  BY <1>9, <1>10 DEF TypeInv, StoresOK, stores, refs, history, bounds, catalogVars
<1>12. drawn' = drawn /\ begun' = begun /\ templates' = templates /\ Len(templates) <= Len(templates')
  BY <1>9 DEF stores, bounds, refs, TypeInv, StoresOK
<1>. QED BY <1>8, <1>9, <1>11, <1>12, GoOnInv

LEMMA ReadGalleryInv ==
  ASSUME TypeInv, NEW w \in Workers, ReadGallery(w), UNCHANGED catalogVars
  PROVE  TypeInv'
<1>1. reviews' \in [Purchases -> Reviews \cup {NoReview}] /\ DOMAIN shelf' = ShelfKeys
  BY DEF catalogVars, TypeInv, StoresOK
<1>2. CASE Return(w)
  BY <1>1, <1>2, ReturnSilently DEF ReadGallery
<1>3. CASE Goto(w, "putObject")
  <2>1. PICK k : k = [calls[w] EXCEPT !.pc = "putObject"]
    OBVIOUS
  <2>2. At(w, "readGallery") /\ calls[w].op = "guest"
    BY Mine DEF ReadGallery, At, OnItsWay
  <2>3. Fits(k, begun, Len(templates)) /\ Pot(k) \subseteq Pot(calls[w])
    BY <2>1, <2>2, Mine DEF Fits, IsCall, Idle, OnItsWay, HasRead, Pot, Script, At
  <2>. QED BY <1>1, <1>3, <2>1, <2>3, GoOnSilently DEF ReadGallery, Goto
<1>. QED BY <1>2, <1>3 DEF ReadGallery

LEMMA PutObjectInv ==
  ASSUME TypeInv, NEW w \in Workers, PutObject(w), UNCHANGED catalogVars
  PROVE  TypeInv'
<1>1. PICK k : k = [calls[w] EXCEPT !.pc = "insertRow", !.file = drawn']
  OBVIOUS
<1>2. At(w, "putObject") /\ calls[w].op \in {"upload", "avatar", "guest", "previews", "photos"}
  BY Mine DEF PutObject, At, OnItsWay
<1>3. /\ IsCall(k) /\ k.op = calls[w].op /\ k.pc = "insertRow" /\ k.file = drawn'
      /\ k.todo = calls[w].todo /\ k.inv = calls[w].inv
  BY <1>1, Mine DEF IsCall, Idle
<1>4. PICK f : f = IF calls[w].op \in Script THEN calls[w].from ELSE 0
  OBVIOUS
<1>5. f \in Pot(calls[w]) /\ Pot(k) \subseteq Pot(calls[w]) \ {f}
  BY <1>2, <1>3, <1>4, Mine DEF Pot, Script, HasRead, At, LocalPreviews
<1>6. calls' = [calls EXCEPT ![w] = k] /\ drawn' = drawn + 1 /\ begun' = begun
  BY <1>1 DEF PutObject, Continue, bounds
<1>7. Drawable' /\ drawn' \in Files
  BY <1>5, <1>6, DrawsOne
<1>8. drawn \in Nat /\ InitFiles <= drawn /\ InitFiles \in Nat
  BY MediaAssumption DEF TypeInv, StoresOK
<1>9. drawn' \notin LocalFiles /\ InitFiles <= drawn' /\ drawn' \in Nat
  BY <1>6, <1>8, MediaAssumption
<1>10. Fits(k, begun, Len(templates))
  BY <1>2, <1>3, <1>7, <1>9, Mine DEF Fits, OnItsWay, HasRead, At
<1>11. UNCHANGED <<media, refs, window, history>> /\ objects' = objects \cup {drawn'}
       /\ UNCHANGED <<bounds, disturbed>>
  BY DEF PutObject, Continue
<1>12. objects' \subseteq 1 .. drawn'
  <2>1. objects \subseteq 1 .. drawn
    BY DEF TypeInv, StoresOK
  <2>. QED BY ONLY <1>6, <1>8, <1>11, <2>1
<1>13. StoresOK'
  BY <1>9, <1>11, <1>12 DEF TypeInv, StoresOK, refs, window, history, bounds, catalogVars
<1>14. begun <= begun' /\ Len(templates) <= Len(templates') /\ Fits(k, begun', Len(templates'))
  BY <1>6, <1>10, <1>11 DEF TypeInv, StoresOK, refs
<1>. QED BY <1>6, <1>7, <1>13, <1>14, MoveInv

LEMMA InsertRowInv ==
  ASSUME TypeInv, NEW w \in Workers, InsertRow(w), UNCHANGED catalogVars
  PROVE  TypeInv'
<1>1. At(w, "insertRow") /\ calls[w].op \in {"upload", "avatar", "guest"}
  BY Mine DEF InsertRow, At, OnItsWay, Script
<1>2. calls[w].file \in Files /\ calls[w].file \notin LocalFiles
  BY <1>1, Mine DEF HasRead, At
<1>3. media' = [media EXCEPT ![calls[w].file] = "new"] /\ UNCHANGED <<objects, drawn, refs, window, history>>
      /\ UNCHANGED <<bounds, disturbed>>
  BY DEF InsertRow, Return, Goto, Continue
<1>4. StoresOK'
  BY <1>2, <1>3 DEF TypeInv, StoresOK, refs, window, history, bounds, catalogVars
<1>5. drawn' = drawn /\ begun' = begun /\ Len(templates) <= Len(templates')
  BY <1>3 DEF refs, bounds, TypeInv, StoresOK
<1>6. CASE calls[w].op = "upload"
  BY <1>4, <1>5, <1>6, ReturnInv DEF InsertRow, AfterRow
<1>7. CASE calls[w].op \in {"guest", "avatar"}
  <2>1. PICK pc : pc = IF calls[w].op = "guest" THEN "push" ELSE "setAvatar"
    OBVIOUS
  <2>2. PICK k : k = [calls[w] EXCEPT !.pc = pc]
    OBVIOUS
  <2>3. calls' = [calls EXCEPT ![w] = k]
    BY <1>7, <2>1, <2>2 DEF InsertRow, AfterRow, Goto, Continue
  <2>4. Fits(k, begun, Len(templates)) /\ Pot(k) \subseteq Pot(calls[w])
    BY <1>1, <1>2, <1>7, <2>1, <2>2, Mine DEF Fits, IsCall, Idle, OnItsWay, HasRead, Pot, Script, At
  <2>. QED BY <1>4, <1>5, <2>3, <2>4, GoOnInv
<1>. QED BY <1>1, <1>6, <1>7

LEMMA PushInv ==
  ASSUME TypeInv, NEW w \in Workers, Push(w), UNCHANGED catalogVars
  PROVE  TypeInv'
<1>1. At(w, "push") /\ calls[w].op \in {"guest", "moment"}
  BY Mine DEF Push, At, OnItsWay
<1>2. PICK i : i = calls[w].inv
  OBVIOUS
<1>3. PICK f : f = calls[w].file
  OBVIOUS
<1>4. i \in Invitations /\ f \in Files
  BY <1>1, <1>2, <1>3, Mine DEF HasRead, At
<1>5. /\ galleries' = [galleries EXCEPT ![i].moments = @ \cup {f}]
      /\ guests' = guests \/ guests' = guests \cup {<<i, f>>}
      /\ UNCHANGED <<stores, templates, avatar, window, edited, deleted, migrated>>
      /\ UNCHANGED <<bounds, disturbed>>
  BY <1>2, <1>3 DEF Push, Return, Continue
<1>6. galleries' \in [Invitations -> Galleries]
  <2>1. galleries \in [Invitations -> Galleries]
    BY DEF TypeInv, StoresOK
  <2>. QED BY ONLY <1>4, <1>5, <2>1 DEF Galleries
<1>7. guests' \subseteq Invitations \X Files
  <2>1. guests \subseteq Invitations \X Files
    BY DEF TypeInv, StoresOK
  <2>. QED BY ONLY <1>4, <1>5, <2>1
<1>8. StoresOK'
  BY <1>5, <1>6, <1>7 DEF TypeInv, StoresOK, stores, window, bounds, catalogVars
<1>9. drawn' = drawn /\ Len(templates) <= Len(templates')
  BY <1>5 DEF stores, TypeInv, StoresOK
<1>. QED BY <1>8, <1>9, ReturnInv DEF Push

LEMMA SetAvatarInv ==
  ASSUME TypeInv, NEW w \in Workers, SetAvatar(w), UNCHANGED catalogVars
  PROVE  TypeInv'
<1>1. avatar' \in {0} \cup Files
  BY Mine DEF SetAvatar, HasRead
<1>2. StoresOK'
  BY <1>1 DEF SetAvatar, Return, Continue, bounds, TypeInv, StoresOK, stores, window, history, catalogVars
<1>3. drawn' = drawn /\ Len(templates) <= Len(templates')
  BY DEF SetAvatar, stores, TypeInv, StoresOK
<1>. QED BY <1>2, <1>3, ReturnInv DEF SetAvatar

\* A call that deletes files goes on to the next one, or to its write.
LEMMA DeletingFits ==
  ASSUME NEW call, NEW b, NEW n, Fits(call, b, n), call.op \in {"edit", "delete", "clean", "template"},
         NEW todo, todo \subseteq Files,
         call.op \in {"delete", "clean"} => todo \cap LocalFiles = {},
         todo # {} \/ call.op \in {"edit", "template"},
         NEW write, call.op = "edit" => write = "write",
         call.op = "template" => write = "writeTemplate"
  PROVE  Fits(Deleting(call, todo, write), b, n) /\ Pot(Deleting(call, todo, write)) = {}
<1>1. PICK d : d = Deleting(call, todo, write)
  OBVIOUS
<1>2. /\ IsCall(d) /\ d.op = call.op /\ d.inv = call.inv /\ d.given = call.given
      /\ d.tmpl = call.tmpl /\ d.active = call.active /\ d.todo = todo
      /\ todo = {} => d.pc = write /\ d.file = call.file
      /\ todo # {} => d.pc = "deleteObject" /\ d.file \in todo
  BY <1>1, DeletingCall DEF Fits
<1>3. HasRead(call, b, n)
  BY DEF Fits
<1>4. OnItsWay(d)
  BY <1>2 DEF OnItsWay
<1>5. HasRead(d, b, n)
  BY <1>2, <1>3 DEF HasRead
<1>6. Pot(d) = {}
  BY <1>2 DEF Pot, Script
<1>. QED BY <1>1, <1>2, <1>4, <1>5, <1>6 DEF Fits

\* What is in no list of its group any more, whatever its URL.
Dropped(old, new) ==
    (old.images \ new.images)
    \cup ((old.moments \cup old.hidden) \ (new.moments \cup new.hidden))
    \cup ({old.music} \ {0, new.music})

LEMMA UrlsAre ==
  ASSUME NEW g
  PROVE  /\ \A url \in PhotoUrls(g) : url[1] \in g.moments \cup g.hidden
         /\ \A f \in g.moments \cup g.hidden : \E url \in PhotoUrls(g) : url[1] = f
<1>1. ASSUME NEW url \in PhotoUrls(g) PROVE url[1] \in g.moments \cup g.hidden
  <2>1. CASE \E k \in g.moments : url = <<k, k \in g.raw>>
    <3>1. PICK k \in g.moments : url = <<k, k \in g.raw>>
      BY <2>1
    <3>. QED BY <3>1
  <2>2. CASE \E k \in g.hidden : url = <<k, FALSE>>
    <3>1. PICK k \in g.hidden : url = <<k, FALSE>>
      BY <2>2
    <3>. QED BY <3>1
  <2>. QED BY <2>1, <2>2 DEF PhotoUrls
<1>2. ASSUME NEW f \in g.moments PROVE \E url \in PhotoUrls(g) : url[1] = f
  <2>1. <<f, f \in g.raw>> \in PhotoUrls(g)
    BY DEF PhotoUrls
  <2>. QED BY <2>1
<1>3. ASSUME NEW f \in g.hidden PROVE \E url \in PhotoUrls(g) : url[1] = f
  <2>1. <<f, FALSE>> \in PhotoUrls(g)
    BY DEF PhotoUrls
  <2>. QED BY <2>1
<1>. QED BY <1>1, <1>2, <1>3

\* An edit removes what it drops, and photos that it keeps under another URL.
LEMMA RemovedAre ==
  ASSUME NEW old, NEW new
  PROVE  /\ Dropped(old, new) \subseteq Removed(old, new)
         /\ Removed(old, new)
                \subseteq old.images \cup old.moments \cup old.hidden \cup ({old.music} \ {0})
<1>1. PICK P, Q : P = PhotoUrls(old) /\ Q = PhotoUrls(new)
  OBVIOUS
<1>2. \A url \in P : url[1] \in old.moments \cup old.hidden
  BY <1>1, UrlsAre
<1>3. \A url \in Q : url[1] \in new.moments \cup new.hidden
  BY <1>1, UrlsAre
<1>4. \A f \in old.moments \cup old.hidden : \E url \in P : url[1] = f
  BY <1>1, UrlsAre
<1>5. PICK U : U = {url[1] : url \in P \ Q}
  OBVIOUS
<1>6. U \subseteq old.moments \cup old.hidden
  BY <1>2, <1>5
<1>7. (old.moments \cup old.hidden) \ (new.moments \cup new.hidden) \subseteq U
  BY <1>3, <1>4, <1>5
<1>8. Removed(old, new) = (old.images \ new.images) \cup U \cup ({old.music} \ {0, new.music})
  BY <1>1, <1>5 DEF Removed
<1>. QED BY ONLY <1>6, <1>7, <1>8 DEF Dropped

\* What an edit removes and yet keeps was stored with the URL of the bucket.
LEMMA RemovedYetKept ==
  ASSUME NEW old, NEW body, NEW new, new = Merged(old, body)
  PROVE  Removed(old, new)
             \subseteq Dropped(old, new) \cup (old.raw \cap (new.moments \cup new.hidden))
<1>1. new.raw \in {old.raw, {}}
  BY DEF Merged
<1>2. ASSUME NEW f \in new.moments \cup new.hidden, f \notin old.raw PROVE <<f, FALSE>> \in PhotoUrls(new)
  <2>1. CASE f \in new.moments
    <3>1. (f \in new.raw) = FALSE
      BY <1>1, <1>2
    <3>2. <<f, f \in new.raw>> \in PhotoUrls(new)
      BY <2>1 DEF PhotoUrls
    <3>. QED BY <3>1, <3>2
  <2>2. CASE f \in new.hidden
    BY <2>2 DEF PhotoUrls
  <2>. QED BY <1>2, <2>1, <2>2
<1>3. ASSUME NEW url \in PhotoUrls(old), url[1] \notin old.raw PROVE url = <<url[1], FALSE>>
  <2>1. CASE \E k \in old.moments : url = <<k, k \in old.raw>>
    <3>1. PICK k \in old.moments : url = <<k, k \in old.raw>>
      BY <2>1
    <3>2. url[1] = k
      BY <3>1
    <3>3. (k \in old.raw) = FALSE
      BY <1>3, <3>2
    <3>. QED BY <3>1, <3>2, <3>3
  <2>2. CASE \E k \in old.hidden : url = <<k, FALSE>>
    BY <2>2
  <2>. QED BY <2>1, <2>2 DEF PhotoUrls
<1>4. ASSUME NEW url \in PhotoUrls(old) \ PhotoUrls(new), url[1] \in new.moments \cup new.hidden
      PROVE  url[1] \in old.raw
  BY <1>2, <1>3, <1>4
<1>5. ASSUME NEW f \in {url[1] : url \in PhotoUrls(old) \ PhotoUrls(new)}
      PROVE  f \in Dropped(old, new) \/ f \in old.raw \cap (new.moments \cup new.hidden)
  <2>1. PICK url \in PhotoUrls(old) \ PhotoUrls(new) : f = url[1]
    OBVIOUS
  <2>2. f \in old.moments \cup old.hidden
    BY <2>1, UrlsAre
  <2>. QED BY <1>4, <2>1, <2>2 DEF Dropped
<1>. QED BY <1>5 DEF Removed, Dropped

LEMMA RemovedFiles ==
  ASSUME NEW old \in Galleries, NEW body \in BodyRows
  PROVE  Removed(old, Merged(old, body)) \subseteq Files /\ Merged(old, body) \in Galleries
<1>1. Merged(old, body) \in Galleries
  BY MediaAssumption DEF Merged, Given, Galleries, BodyRows
<1>2. old.images \subseteq Files /\ old.moments \cup old.hidden \subseteq Files /\ old.music \in {0} \cup Files
  BY DEF Galleries
<1>3. Removed(old, Merged(old, body)) \subseteq old.images \cup old.moments \cup old.hidden \cup ({old.music} \ {0})
  BY RemovedAre
<1>. QED BY ONLY <1>1, <1>2, <1>3

LEMMA SilentCatalog ==
  ASSUME TypeInv, UNCHANGED catalogVars
  PROVE  reviews' \in [Purchases -> Reviews \cup {NoReview}] /\ DOMAIN shelf' = ShelfKeys
  BY DEF catalogVars, TypeInv, StoresOK

LEMMA ReadInvitationInv ==
  ASSUME TypeInv, NEW w \in Workers, ReadInvitation(w), UNCHANGED catalogVars
  PROVE  TypeInv'
<1>1. At(w, "readInvitation") /\ calls[w].op = "edit"
  BY Mine DEF ReadInvitation, At, OnItsWay
<1>2. PICK old, new : old = galleries[calls[w].inv] /\ new = Merged(old, calls[w].given)
  OBVIOUS
<1>3. PICK todo : todo = Removed(old, new)
  OBVIOUS
<1>4. old \in Galleries /\ calls[w].given \in BodyRows
  BY <1>1, <1>2, Mine DEF HasRead, TypeInv, StoresOK
<1>5. todo \subseteq Files
  BY <1>2, <1>3, <1>4, RemovedFiles
<1>6. PICK k : k = Deleting(calls[w], todo, "write")
  OBVIOUS
<1>7. Fits(k, begun, Len(templates)) /\ Pot(k) = {}
  BY <1>1, <1>5, <1>6, Mine, DeletingFits DEF Fits
<1>8. /\ Continue(w, k) /\ deleted' = deleted \cup (todo \cap old.raw \cap (new.moments \cup new.hidden))
      /\ UNCHANGED <<stores, refs, window, guests, edited, migrated>>
  BY <1>2, <1>3, <1>6 DEF ReadInvitation
<1>9. StoresOK'
  BY <1>5, <1>8 DEF TypeInv, StoresOK, stores, refs, window, bounds, catalogVars, Continue
<1>10. calls' = [calls EXCEPT ![w] = k] /\ begun' = begun /\ drawn' = drawn /\ Len(templates) <= Len(templates')
  BY <1>8 DEF Continue, bounds, stores, refs, TypeInv, StoresOK
<1>. QED BY <1>7, <1>9, <1>10, GoOnInv

LEMMA DeleteObjectInv ==
  ASSUME TypeInv, NEW w \in Workers, DeleteObject(w), UNCHANGED catalogVars
  PROVE  TypeInv'
<1>1. At(w, "deleteObject") /\ calls[w].op \in {"edit", "delete", "clean", "template"}
  BY Mine DEF DeleteObject, At, OnItsWay
<1>2. PICK k : k = [calls[w] EXCEPT !.pc = "deleteRow"]
  OBVIOUS
<1>3. Fits(k, begun, Len(templates)) /\ Pot(k) \subseteq Pot(calls[w])
  BY <1>1, <1>2, Mine DEF Fits, IsCall, Idle, OnItsWay, HasRead, Pot, Script, At
<1>4. /\ objects' \subseteq objects /\ UNCHANGED <<media, drawn, refs, window, history, bounds, disturbed>>
      /\ calls' = [calls EXCEPT ![w] = k]
  BY <1>2 DEF DeleteObject, Goto, Continue
<1>5. StoresOK'
  BY <1>4 DEF TypeInv, StoresOK, refs, window, history, bounds, catalogVars
<1>6. drawn' = drawn /\ begun' = begun /\ Len(templates) <= Len(templates')
  BY <1>4 DEF refs, bounds, TypeInv, StoresOK
<1>. QED BY <1>3, <1>4, <1>5, <1>6, GoOnInv

LEMMA DeleteRowInv ==
  ASSUME TypeInv, NEW w \in Workers, DeleteRow(w), UNCHANGED catalogVars
  PROVE  TypeInv'
<1>1. At(w, "deleteRow") /\ calls[w].op \in {"edit", "delete", "clean", "template"}
  BY Mine DEF DeleteRow, At, OnItsWay
<1>2. PICK todo : todo = calls[w].todo \ {calls[w].file}
  OBVIOUS
<1>3. PICK write : write = AfterDelete(calls[w].op)
  OBVIOUS
<1>4. PICK left : left = Deleting(calls[w], todo, write)
  OBVIOUS
<1>5. /\ media' = [media EXCEPT ![calls[w].file] = "none"]
      /\ UNCHANGED <<objects, drawn, refs, window, history, bounds, disturbed>>
      /\ IF left.pc = "idle" THEN Return(w) ELSE Continue(w, left)
  BY <1>2, <1>3, <1>4 DEF DeleteRow, Return, Continue
<1>6. StoresOK'
  BY <1>5, FirstFiles DEF TypeInv, StoresOK, refs, window, history, bounds, catalogVars
<1>7. drawn' = drawn /\ begun' = begun /\ Len(templates) <= Len(templates')
  BY <1>5 DEF refs, bounds, TypeInv, StoresOK
<1>8. CASE left.pc = "idle"
  BY <1>5, <1>6, <1>7, <1>8, ReturnInv
<1>9. CASE left.pc # "idle"
  <2>1. /\ calls[w].op = "edit" => write = "write"
        /\ calls[w].op = "template" => write = "writeTemplate"
        /\ calls[w].op \in {"delete", "clean"} => write = "idle"
    BY <1>1, <1>3 DEF AfterDelete
  <2>2. todo # {} \/ calls[w].op \in {"edit", "template"}
    BY <1>1, <1>4, <1>9, <2>1, Mine, DeletingCall
  <2>3. todo \subseteq Files /\ (calls[w].op \in {"delete", "clean"} => todo \cap LocalFiles = {})
    BY <1>2, Mine DEF HasRead
  <2>4. Fits(left, begun, Len(templates)) /\ Pot(left) = {}
    BY <1>1, <1>4, <2>1, <2>2, <2>3, Mine, DeletingFits DEF Fits
  <2>5. calls' = [calls EXCEPT ![w] = left]
    BY <1>5, <1>9 DEF Continue
  <2>. QED BY <1>6, <1>7, <2>4, <2>5, GoOnInv
<1>. QED BY <1>8, <1>9

\* A request may fail at every step of this kind.
LEMMA RequestFailsInv ==
  ASSUME TypeInv, NEW w \in Workers, RequestFails(w), UNCHANGED catalogVars
  PROVE  TypeInv'
<1>1. PICK next : next = AfterFailure(calls[w])
  OBVIOUS
<1>2. PICK k : k = IF next.pc = "idle" THEN Idle ELSE next
  OBVIOUS
<1>3. /\ calls' = [calls EXCEPT ![w] = k] /\ UNCHANGED <<mediaVars, begun, timeouts>>
      /\ failures < MaxFailures /\ failures' = failures + 1 /\ disturbed' = TRUE
  BY <1>1, <1>2 DEF RequestFails
<1>10. failures' \in Nat /\ failures' <= MaxFailures
  <2>1. failures \in Nat /\ MaxFailures \in Nat
    BY MediaAssumption DEF TypeInv, StoresOK
  <2>. QED BY ONLY <1>3, <2>1
<1>4. StoresOK'
  BY <1>3, <1>10 DEF TypeInv, StoresOK, mediaVars, stores, refs, window, history, catalogVars
<1>5. drawn' = drawn /\ begun' = begun /\ Len(templates) <= Len(templates')
  BY <1>3 DEF mediaVars, stores, refs, TypeInv, StoresOK
<1>6. Fits(k, begun, Len(templates)) /\ Pot(k) \subseteq Pot(calls[w])
  <2>1. CASE calls[w].pc = "putObject" \/ calls[w].op = "delete"
    <3>1. next = Idle
      <4>1. calls[w].pc # "insertRow" /\ ~(calls[w].op \in {"edit", "template"} /\ calls[w].pc = "deleteObject")
        BY <2>1, Mine DEF OnItsWay
      <4>. QED BY ONLY <1>1, <2>1, <4>1 DEF AfterFailure
    <3>. QED BY <1>2, <3>1, IdleFits
  <2>2. CASE calls[w].pc = "insertRow" /\ calls[w].op \in Script
    <3>1. next = NextLocal(calls[w])
      BY <1>1, <2>2 DEF AfterFailure, Script
    <3>2. calls[w].todo \cup (IF calls[w].op = "previews" THEN LocalPhotos ELSE {}) \subseteq Pot(calls[w])
      BY <2>2 DEF Pot
    <3>3. Fits(next, begun, Len(templates)) /\ Pot(next) \subseteq Pot(calls[w])
      BY <2>2, <3>1, <3>2, Mine, NextLocalFits DEF HasRead, Script
    <3>. QED BY <1>2, <3>3, IdleFits
  <2>3. CASE calls[w].op \in {"edit", "template"} /\ calls[w].pc = "deleteObject"
    <3>1. next = [calls[w] EXCEPT !.pc = "deleteRow"]
      BY <1>1, <2>3 DEF AfterFailure
    <3>2. k = next
      BY <1>2, <3>1, Mine DEF IsCall, Idle
    <3>. QED BY <2>3, <3>1, <3>2, Mine DEF Fits, IsCall, Idle, OnItsWay, HasRead, Pot, Script
  <2>4. CASE \/ calls[w].op = "clean" /\ calls[w].pc \in {"deleteObject", "deleteRow"}
             \/ calls[w].op \in {"edit", "template"} /\ calls[w].pc = "deleteRow"
    <3>1. PICK todo : todo = calls[w].todo \ {calls[w].file}
      OBVIOUS
    <3>2. PICK write : write = AfterDelete(calls[w].op)
      OBVIOUS
    <3>3. next = Deleting(calls[w], todo, write)
      BY <1>1, <2>4, <3>1, <3>2 DEF AfterFailure
    <3>4. /\ calls[w].op = "edit" => write = "write"
          /\ calls[w].op = "template" => write = "writeTemplate"
          /\ calls[w].op = "clean" => write = "idle"
      BY <2>4, <3>2 DEF AfterDelete
    <3>5. CASE next.pc = "idle"
      BY <1>2, <3>5, IdleFits
    <3>6. CASE next.pc # "idle"
      <4>1. todo # {} \/ calls[w].op \in {"edit", "template"}
        BY <2>4, <3>3, <3>4, <3>6, Mine, DeletingCall
      <4>2. todo \subseteq Files /\ (calls[w].op \in {"delete", "clean"} => todo \cap LocalFiles = {})
        BY <3>1, Mine DEF HasRead
      <4>3. Fits(next, begun, Len(templates)) /\ Pot(next) = {}
        BY <2>4, <3>3, <3>4, <4>1, <4>2, Mine, DeletingFits DEF Fits
      <4>. QED BY <1>2, <3>6, <4>3
    <3>. QED BY <3>5, <3>6
  <2>5. OnItsWay(calls[w])
    BY Mine
  <2>6. \/ calls[w].pc \in {"putObject", "deleteObject", "deleteRow"}
        \/ calls[w].op \in Script /\ calls[w].pc = "insertRow"
    BY DEF RequestFails
  <2>. QED BY ONLY <2>1, <2>2, <2>3, <2>4, <2>5, <2>6 DEF OnItsWay
<1>. QED BY <1>3, <1>4, <1>5, <1>6, GoOnInv

LEMMA WriteInvitationInv ==
  ASSUME TypeInv, NEW w \in Workers, WriteInvitation(w), UNCHANGED catalogVars
  PROVE  TypeInv'
<1>1. At(w, "write") /\ calls[w].op = "edit"
  BY Mine DEF WriteInvitation, At, OnItsWay
<1>2. PICK i : i = calls[w].inv
  OBVIOUS
<1>3. i \in Invitations /\ calls[w].given \in BodyRows
  BY <1>1, <1>2, Mine DEF HasRead
<1>4. /\ galleries' = [galleries EXCEPT ![i] = Merged(galleries[i], calls[w].given)]
      /\ UNCHANGED <<stores, templates, avatar, window, history, bounds, disturbed>>
  BY <1>2 DEF WriteInvitation, Return, Continue
<1>5. galleries' \in [Invitations -> Galleries]
  BY <1>3, <1>4, RemovedFiles DEF TypeInv, StoresOK
<1>6. StoresOK'
  BY <1>4, <1>5 DEF TypeInv, StoresOK, stores, window, history, bounds, catalogVars
<1>7. drawn' = drawn /\ Len(templates) <= Len(templates')
  BY <1>4 DEF stores, TypeInv, StoresOK
<1>. QED BY <1>6, <1>7, ReturnInv DEF WriteInvitation

LEMMA ReadTemplatesInv ==
  ASSUME TypeInv, NEW w \in Workers, ReadTemplates(w), UNCHANGED catalogVars
  PROVE  TypeInv'
<1>1. At(w, "readTemplates") /\ calls[w].op = "clean"
  BY Mine DEF ReadTemplates, At, OnItsWay
<1>2. PICK used : used = calls[w].used \cup {templates[t].preview : t \in DOMAIN templates}
  OBVIOUS
<1>3. PICK k : k = [calls[w] EXCEPT !.pc = "readOld", !.used = used]
  OBVIOUS
<1>4. Continue(w, k) /\ UNCHANGED mediaVars
  <2>1. k = [calls[w] EXCEPT !.pc = "readOld", !.used = @ \cup {templates[t].preview : t \in DOMAIN templates}]
    BY <1>2, <1>3, Mine DEF IsCall, Idle
  <2>. QED BY <2>1 DEF ReadTemplates
<1>5. Fits(k, begun, Len(templates)) /\ Pot(k) \subseteq Pot(calls[w])
  BY <1>1, <1>3, Mine DEF Fits, IsCall, Idle, OnItsWay, HasRead, Pot, Script, At
<1>. QED BY <1>4, <1>5, SilentCatalog, GoOnSilently

LEMMA ReadOldInv ==
  ASSUME TypeInv, NEW w \in Workers, ReadOld(w), UNCHANGED catalogVars
  PROVE  TypeInv'
<1>1. At(w, "readOld") /\ calls[w].op = "clean"
  BY Mine DEF ReadOld, At, OnItsWay
<1>2. PICK call : call = [calls[w] EXCEPT !.used = {}]
  OBVIOUS
<1>3. PICK todo : todo = Candidates \ calls[w].used
  OBVIOUS
<1>4. PICK left : left = Deleting(call, todo, "idle")
  OBVIOUS
<1>5. (IF left.pc = "idle" THEN Return(w) ELSE Continue(w, left)) /\ UNCHANGED mediaVars
  BY <1>2, <1>3, <1>4 DEF ReadOld
<1>6. CASE left.pc = "idle"
  BY <1>5, <1>6, SilentCatalog, ReturnSilently
<1>7. CASE left.pc # "idle"
  <2>1. Fits(call, begun, Len(templates)) /\ call.op = "clean"
    BY <1>1, <1>2, Mine DEF Fits, IsCall, Idle, OnItsWay, HasRead, At
  <2>2. todo \subseteq Files /\ todo \cap LocalFiles = {}
    BY <1>3 DEF Candidates, TypeInv, StoresOK
  <2>3. todo # {}
    BY <1>4, <1>7, <2>1, DeletingCall DEF Fits
  <2>4. Fits(left, begun, Len(templates)) /\ Pot(left) = {}
    BY <1>4, <2>1, <2>2, <2>3, DeletingFits
  <2>. QED BY <1>5, <1>7, <2>4, SilentCatalog, GoOnSilently
<1>. QED BY <1>6, <1>7

LEMMA ReadInvitationsInv ==
  ASSUME TypeInv, NEW w \in Workers, ReadInvitations(w), UNCHANGED catalogVars
  PROVE  TypeInv'
<1>1. At(w, "readInvitations") /\ calls[w].op = "previews"
  BY Mine DEF ReadInvitations, At, OnItsWay
<1>2. PICK view : view = [i \in Invitations |-> galleries[i].moments]
  OBVIOUS
<1>3. PICK call : call = [calls[w] EXCEPT !.op = "photos", !.todo = LocalPhotos, !.view = view]
  OBVIOUS
<1>4. IsCall(call) /\ call.op = "photos" /\ call.todo = LocalPhotos /\ call.file = calls[w].file
  BY <1>3, Mine DEF IsCall, Idle
<1>5. Continue(w, NextLocal(call)) /\ UNCHANGED mediaVars
  BY <1>2, <1>3 DEF ReadInvitations
<1>6. PICK k : k = NextLocal(call)
  OBVIOUS
<1>7. Fits(k, begun, Len(templates)) /\ Pot(k) \subseteq LocalPhotos
  BY <1>1, <1>4, <1>6, Mine, NextLocalFits DEF HasRead, Script
<1>8. LocalPhotos \subseteq Pot(calls[w])
  BY <1>1 DEF Pot, Script
<1>9. Pot(k) \subseteq Pot(calls[w])
  BY ONLY <1>7, <1>8
<1>. QED BY <1>5, <1>6, <1>7, <1>9, SilentCatalog, GoOnSilently

LEMMA ScriptRowInv ==
  ASSUME TypeInv, NEW w \in Workers, ScriptRow(w), UNCHANGED catalogVars
  PROVE  TypeInv'
<1>1. At(w, "insertRow") /\ calls[w].op \in Script
  BY DEF ScriptRow
<1>2. calls[w].file \in Files /\ calls[w].file \notin LocalFiles
  BY <1>1, Mine DEF HasRead, At, Script
<1>3. PICK k : k = IF calls[w].op = "previews" THEN [calls[w] EXCEPT !.pc = "writePreview"]
                   ELSE IF HomeOf(calls[w]) # {} THEN [calls[w] EXCEPT !.pc = "readMoments"]
                   ELSE NextLocal(calls[w])
  OBVIOUS
<1>4. /\ media' = [media EXCEPT ![calls[w].file] = "new"]
      /\ UNCHANGED <<objects, drawn, refs, window, history, bounds, disturbed>>
      /\ calls' = [calls EXCEPT ![w] = k]
  BY <1>3 DEF ScriptRow, Continue
<1>5. StoresOK'
  BY <1>2, <1>4 DEF TypeInv, StoresOK, refs, window, history, bounds, catalogVars
<1>6. drawn' = drawn /\ begun' = begun /\ Len(templates) <= Len(templates')
  BY <1>4 DEF refs, bounds, TypeInv, StoresOK
<1>7. calls[w].todo \cup (IF calls[w].op = "previews" THEN LocalPhotos ELSE {}) \subseteq Pot(calls[w])
  BY <1>1 DEF Pot
<1>8. Fits(k, begun, Len(templates)) /\ Pot(k) \subseteq Pot(calls[w])
  <2>1. CASE k = NextLocal(calls[w])
    BY <1>1, <1>2, <1>7, <2>1, Mine, NextLocalFits DEF HasRead, Script
  <2>2. CASE calls[w].op = "previews" /\ k = [calls[w] EXCEPT !.pc = "writePreview"]
    BY <1>1, <1>2, <2>2, Mine DEF Fits, IsCall, Idle, OnItsWay, HasRead, Pot, Script, At
  <2>3. CASE calls[w].op = "photos" /\ k = [calls[w] EXCEPT !.pc = "readMoments"]
    BY <1>1, <1>2, <2>3, Mine DEF Fits, IsCall, Idle, OnItsWay, HasRead, Pot, Script, At
  <2>. QED BY <1>1, <1>3, <2>1, <2>2, <2>3 DEF Script
<1>. QED BY <1>4, <1>5, <1>6, <1>8, GoOnInv

\* The script goes on to the next local file.
LEMMA NextLocalInv ==
  ASSUME TypeInv, NEW w \in Workers, calls[w].op \in Script,
         StoresOK', drawn' = drawn, Continue(w, NextLocal(calls[w])), Len(templates) <= Len(templates')
  PROVE  TypeInv'
<1>1. PICK k : k = NextLocal(calls[w])
  OBVIOUS
<1>2. calls[w].todo \cup (IF calls[w].op = "previews" THEN LocalPhotos ELSE {}) \subseteq Pot(calls[w])
  BY DEF Pot
<1>3. Fits(k, begun, Len(templates)) /\ Pot(k) \subseteq Pot(calls[w])
  BY <1>1, <1>2, Mine, NextLocalFits DEF HasRead, Script
<1>4. calls' = [calls EXCEPT ![w] = k] /\ begun' = begun
  BY <1>1 DEF Continue, bounds
<1>. QED BY <1>3, <1>4, GoOnInv

LEMMA WritePreviewInv ==
  ASSUME TypeInv, NEW w \in Workers, WritePreview(w), UNCHANGED catalogVars
  PROVE  TypeInv'
<1>1. At(w, "writePreview") /\ calls[w].op = "previews"
  BY Mine DEF WritePreview, At, OnItsWay
<1>2. PICK f : f = calls[w].file
  OBVIOUS
<1>3. f \in Files /\ f \notin LocalFiles
  BY <1>1, <1>2, Mine DEF HasRead, At
<1>4. DOMAIN templates' = DOMAIN templates
      /\ \A t \in DOMAIN templates : templates'[t] \in {templates[t], [templates[t] EXCEPT !.preview = f]}
  BY <1>2 DEF WritePreview
<1>5. UNCHANGED <<stores, galleries, avatar, window, history, bounds, disturbed>>
      /\ Continue(w, NextLocal(calls[w]))
  BY DEF WritePreview, Continue
<1>6. templates \in Seq(TemplateRows) /\ \A t \in DOMAIN templates : templates[t].preview \notin LocalPhotos
  BY DEF TypeInv, StoresOK
<1>7. /\ templates' \in Seq(TemplateRows) /\ Len(templates') = Len(templates)
      /\ \A t \in DOMAIN templates' : templates'[t].preview \notin LocalPhotos
  <2>1. PICK n \in Nat : DOMAIN templates = 1 .. n /\ n = Len(templates)
    BY ONLY <1>6
  <2>2. \A t \in 1 .. n : templates[t] \in TemplateRows
    BY ONLY <1>6, <2>1
  <2>3. \A t \in 1 .. n : templates'[t] \in TemplateRows
    BY ONLY <1>3, <1>4, <2>1, <2>2 DEF TemplateRows
  <2>4. \A t \in DOMAIN templates' : templates'[t].preview \notin LocalPhotos
    BY ONLY <1>3, <1>4, <1>6, <2>1, <2>2 DEF TemplateRows, LocalPhotos
  <2>5. templates' = [t \in DOMAIN templates |-> templates'[t]]
    BY DEF WritePreview
  <2>6. templates' \in [1 .. n -> TemplateRows]
    BY ONLY <2>1, <2>3, <2>5
  <2>. QED BY ONLY <2>1, <2>4, <2>6
<1>8. StoresOK'
  BY <1>5, <1>7 DEF TypeInv, StoresOK, stores, window, history, bounds, catalogVars
<1>9. drawn' = drawn /\ Len(templates) <= Len(templates')
  BY <1>5, <1>7 DEF stores, TypeInv, StoresOK
<1>. QED BY <1>1, <1>5, <1>8, <1>9, NextLocalInv DEF Script

LEMMA ReadMomentsInv ==
  ASSUME TypeInv, NEW w \in Workers, ReadMoments(w), UNCHANGED catalogVars
  PROVE  TypeInv'
<1>1. At(w, "readMoments") /\ calls[w].op = "photos"
  BY Mine DEF ReadMoments, At, OnItsWay
<1>2. PICK i \in HomeOf(calls[w]) :
          Continue(w, [calls[w] EXCEPT !.pc = "writeMoments", !.inv = i, !.given = galleries[i].moments,
                                       !.used = galleries[i].raw])
  BY DEF ReadMoments
<1>3. i \in Invitations
  BY DEF HomeOf
<1>4. PICK moments, raw : moments = galleries[i].moments /\ raw = galleries[i].raw
  OBVIOUS
<1>5. moments \in SUBSET Files /\ raw \in SUBSET Files
  BY <1>3, <1>4 DEF TypeInv, StoresOK, Galleries
<1>6. PICK k : k = [calls[w] EXCEPT !.pc = "writeMoments", !.inv = i, !.given = moments, !.used = raw]
  OBVIOUS
<1>7. Fits(k, begun, Len(templates)) /\ Pot(k) \subseteq Pot(calls[w])
  BY <1>1, <1>3, <1>5, <1>6, Mine DEF Fits, IsCall, Idle, OnItsWay, HasRead, Pot, Script, At
<1>8. Continue(w, k) /\ UNCHANGED mediaVars
  BY <1>2, <1>4, <1>6 DEF ReadMoments
<1>. QED BY <1>7, <1>8, SilentCatalog, GoOnSilently

LEMMA WriteMomentsInv ==
  ASSUME TypeInv, NEW w \in Workers, WriteMoments(w), UNCHANGED catalogVars
  PROVE  TypeInv'
<1>1. At(w, "writeMoments") /\ calls[w].op = "photos"
  BY Mine DEF WriteMoments, At, OnItsWay
<1>2. PICK i : i = calls[w].inv
  OBVIOUS
<1>3. PICK moments : moments = {IF k = calls[w].from THEN calls[w].file ELSE k : k \in calls[w].given}
  OBVIOUS
<1>m. PICK raw : raw = calls[w].used \cup {IF k = calls[w].from THEN calls[w].file ELSE k :
                                               k \in calls[w].given \cap {calls[w].from}}
  OBVIOUS
<1>4. i \in Invitations /\ moments \subseteq Files /\ raw \subseteq Files
  BY <1>1, <1>2, <1>3, <1>m, Mine DEF HasRead, At
<1>5. /\ galleries' = [galleries EXCEPT ![i] = [@ EXCEPT !.moments = moments, !.raw = raw]]
      /\ edited' = edited \cup {i}
      /\ UNCHANGED <<stores, templates, avatar, window, guests, deleted, migrated, bounds, disturbed>>
      /\ Continue(w, NextLocal(calls[w]))
  BY <1>2, <1>3, <1>m DEF WriteMoments, Continue
<1>6. galleries' \in [Invitations -> Galleries]
  <2>1. PICK g \in Galleries : g = galleries[i]
    BY <1>4 DEF TypeInv, StoresOK
  <2>2. [g EXCEPT !.moments = moments, !.raw = raw] \in Galleries
    BY ONLY <1>4, g \in Galleries DEF Galleries
  <2>3. galleries \in [Invitations -> Galleries]
    BY DEF TypeInv, StoresOK
  <2>. QED BY ONLY <1>4, <1>5, <2>1, <2>2, <2>3
<1>7. StoresOK'
  BY <1>4, <1>5, <1>6 DEF TypeInv, StoresOK, stores, window, bounds, catalogVars
<1>8. drawn' = drawn /\ Len(templates) <= Len(templates')
  BY <1>5 DEF stores, TypeInv, StoresOK
<1>. QED BY <1>1, <1>5, <1>7, <1>8, NextLocalInv DEF Script

LEMMA InsertTemplateInv ==
  ASSUME TypeInv, NEW w \in Workers, InsertTemplate(w), UNCHANGED catalogVars
  PROVE  TypeInv'
<1>1. At(w, "insertTemplate") /\ calls[w].op = "newTemplate"
  BY Mine DEF InsertTemplate, At, OnItsWay
<1>2. PICK f : f = calls[w].file
  OBVIOUS
<1>3. f \in Files /\ f \notin LocalFiles
  BY <1>1, <1>2, Mine DEF HasRead, At
<1>4. PICK k : k = [calls[w] EXCEPT !.pc = "dropAll"]
  OBVIOUS
<1>5. Fits(k, begun, Len(templates)) /\ Pot(k) \subseteq Pot(calls[w])
  BY <1>1, <1>4, Mine DEF Fits, IsCall, Idle, OnItsWay, HasRead, Pot, Script, At
<1>6. /\ templates' = Append(templates, [preview |-> f, active |-> TRUE])
      /\ UNCHANGED <<stores, galleries, avatar, window, history, bounds, disturbed>>
      /\ calls' = [calls EXCEPT ![w] = k]
  BY <1>2, <1>4 DEF InsertTemplate, Goto, Continue
<1>7. templates \in Seq(TemplateRows) /\ \A t \in DOMAIN templates : templates[t].preview \notin LocalPhotos
  BY DEF TypeInv, StoresOK
<1>8. PICK row : row = [preview |-> f, active |-> TRUE]
  OBVIOUS
<1>9. row \in TemplateRows /\ row.preview = f /\ f \notin LocalPhotos
  BY <1>3, <1>8 DEF TemplateRows, LocalPhotos
<1>10. /\ templates' \in Seq(TemplateRows) /\ Len(templates') = Len(templates) + 1
       /\ \A t \in DOMAIN templates' : templates'[t].preview \notin LocalPhotos
  <2>1. templates' = Append(templates, row)
    BY <1>6, <1>8
  <2>. QED BY ONLY <1>7, <1>9, <2>1
<1>11. StoresOK'
  BY <1>6, <1>10 DEF TypeInv, StoresOK, stores, window, history, bounds, catalogVars
<1>12. drawn' = drawn /\ begun' = begun /\ Len(templates) <= Len(templates')
  BY <1>6, <1>10 DEF stores, bounds, TypeInv, StoresOK
<1>. QED BY <1>5, <1>6, <1>11, <1>12, GoOnInv

LEMMA WriteTemplateInv ==
  ASSUME TypeInv, NEW w \in Workers, WriteTemplate(w), UNCHANGED catalogVars
  PROVE  TypeInv'
<1>1. At(w, "writeTemplate") /\ calls[w].op = "template"
  BY Mine DEF WriteTemplate, At, OnItsWay
<1>2. PICK t : t = calls[w].tmpl
  OBVIOUS
<1>3. t \in 1 .. Len(templates) /\ calls[w].given \in {None} \cup (Files \ LocalFiles)
      /\ calls[w].active \in {None} \cup BOOLEAN
  BY <1>1, <1>2, Mine DEF HasRead
<1>4. PICK row : row = [preview |-> Given(calls[w].given, templates[t].preview),
                        active |-> Given(calls[w].active, templates[t].active)]
  OBVIOUS
<1>5. templates \in Seq(TemplateRows) /\ \A s \in DOMAIN templates : templates[s].preview \notin LocalPhotos
  BY DEF TypeInv, StoresOK
<1>6. row \in TemplateRows /\ row.preview \notin LocalPhotos
  <2>1. t \in DOMAIN templates
    BY <1>3, <1>5
  <2>2. templates[t].preview \in Files /\ templates[t].active \in BOOLEAN /\ templates[t].preview \notin LocalPhotos
    BY <1>5, <2>1, TemplateAt
  <2>3. row.preview \in Files /\ row.preview \notin LocalPhotos
    BY <1>3, <1>4, <2>2 DEF Given, LocalPhotos
  <2>4. row.active \in BOOLEAN
    BY <1>3, <1>4, <2>2 DEF Given
  <2>. QED BY <1>4, <2>3, <2>4 DEF TemplateRows
<1>7. PICK k : k = [calls[w] EXCEPT !.pc = "dropAll"]
  OBVIOUS
<1>8. Fits(k, begun, Len(templates)) /\ Pot(k) \subseteq Pot(calls[w])
  BY <1>1, <1>7, Mine DEF Fits, IsCall, Idle, OnItsWay, HasRead, Pot, Script, At
<1>9. /\ templates' = [templates EXCEPT ![t] = row]
      /\ UNCHANGED <<stores, galleries, avatar, window, history, bounds, disturbed>>
      /\ calls' = [calls EXCEPT ![w] = k]
  BY <1>2, <1>4, <1>7 DEF WriteTemplate, Goto, Continue
<1>10. /\ templates' \in Seq(TemplateRows) /\ Len(templates') = Len(templates)
       /\ \A s \in DOMAIN templates' : templates'[s].preview \notin LocalPhotos
  BY ONLY <1>3, <1>5, <1>6, <1>9
<1>11. StoresOK'
  BY <1>9, <1>10 DEF TypeInv, StoresOK, stores, window, history, bounds, catalogVars
<1>12. drawn' = drawn /\ begun' = begun /\ Len(templates) <= Len(templates')
  BY <1>9, <1>10 DEF stores, bounds, TypeInv, StoresOK
<1>. QED BY <1>8, <1>9, <1>11, <1>12, GoOnInv

LEMMA MediaStepInv ==
  ASSUME TypeInv, NEW w \in Workers, MediaStep(w), UNCHANGED catalogVars
  PROVE  TypeInv'
<1>1. CASE StoreStamp(w) \/ ReadGallery(w) \/ PutObject(w) \/ InsertRow(w) \/ Push(w) \/ SetAvatar(w)
  BY <1>1, StoreStampInv, ReadGalleryInv, PutObjectInv, InsertRowInv, PushInv, SetAvatarInv
<1>2. CASE ReadInvitation(w) \/ DeleteObject(w) \/ DeleteRow(w) \/ RequestFails(w) \/ WriteInvitation(w)
  BY <1>2, ReadInvitationInv, DeleteObjectInv, DeleteRowInv, RequestFailsInv, WriteInvitationInv
<1>3. CASE ReadTemplates(w) \/ ReadOld(w) \/ ReadInvitations(w) \/ ScriptRow(w) \/ WritePreview(w)
  BY <1>3, ReadTemplatesInv, ReadOldInv, ReadInvitationsInv, ScriptRowInv, WritePreviewInv
<1>4. CASE ReadMoments(w) \/ WriteMoments(w) \/ InsertTemplate(w) \/ WriteTemplate(w)
  BY <1>4, ReadMomentsInv, WriteMomentsInv, InsertTemplateInv, WriteTemplateInv
<1>. QED BY <1>1, <1>2, <1>3, <1>4 DEF MediaStep

\* The calls of the lists and the reviews go on.
LEMMA CatalogGotoInv ==
  ASSUME TypeInv, NEW w \in Workers, NEW pc, Goto(w, pc), UNCHANGED mediaVars,
         reviews' \in [Purchases -> Reviews \cup {NoReview}], DOMAIN shelf' = ShelfKeys,
         <<calls[w].op, pc>> \in {<<"newTemplate", "dropActive">>, <<"template", "dropActive">>,
                                  <<"template", "dropDetail">>, <<"review", "upsert">>,
                                  <<"review", "dropReviews">>, <<"removeReview", "dropReviews">>}
  PROVE  TypeInv'
<1>1. PICK k : k = [calls[w] EXCEPT !.pc = pc]
  OBVIOUS
<1>2. Fits(k, begun, Len(templates)) /\ Pot(k) = {}
  BY <1>1, Mine DEF Fits, IsCall, Idle, OnItsWay, HasRead, Pot, Script
<1>. QED BY <1>1, <1>2, GoOnSilently DEF Goto

LEMMA ReviewGiven ==
  ASSUME TypeInv, NEW w \in Workers
  PROVE  /\ calls[w].op = "review" => calls[w].given[1] \in Purchases /\ calls[w].given[2] \in Texts
         /\ calls[w].op = "removeReview" => calls[w].given[1] \in Purchases
  BY Mine DEF HasRead

LEMMA CatalogStepInv ==
  ASSUME TypeInv, NEW w \in Workers, Step(w), ~(MediaStep(w) /\ UNCHANGED catalogVars)
  PROVE  TypeInv'
<1>0. reviews \in [Purchases -> Reviews \cup {NoReview}] /\ DOMAIN shelf = ShelfKeys
  BY DEF TypeInv, StoresOK
<1>1. CASE FillShelf(w)
  BY <1>0, <1>1, ReturnSilently DEF FillShelf
<1>2. CASE DropAll(w)
  <2>1. calls[w].op \in {"newTemplate", "template"}
    BY <1>2, Mine DEF DropAll, DropList, At, OnItsWay
  <2>. QED BY <1>0, <1>2, <2>1, CatalogGotoInv DEF DropAll, DropList
<1>3. CASE DropActive(w)
  <2>1. UNCHANGED <<mediaVars, reviews>> /\ DOMAIN shelf' = ShelfKeys
    BY <1>0, <1>3 DEF DropActive, DropList
  <2>. QED BY <1>0, <1>3, <2>1, CatalogGotoInv, ReturnSilently DEF DropActive
<1>4. CASE DropDetail(w)
  BY <1>0, <1>4, ReturnSilently DEF DropDetail
<1>5. CASE ReadReview(w)
  <2>1. calls[w].op = "review"
    BY <1>5, Mine DEF ReadReview, At, OnItsWay
  <2>. QED BY <1>5, <2>1, CatalogGotoInv, ReturnSilently, SilentCatalog DEF ReadReview
<1>6. CASE Upsert(w)
  <2>1. calls[w].op = "review"
    BY <1>6, Mine DEF Upsert, At, OnItsWay
  <2>2. reviews' \in [Purchases -> Reviews \cup {NoReview}]
    <3>1. PICK p \in Purchases : p = calls[w].given[1]
      BY <2>1, ReviewGiven
    <3>2. PICK text \in Texts : text = calls[w].given[2]
      BY <2>1, ReviewGiven
    <3>3. reviews' = [reviews EXCEPT ![p].text = text]
      BY <1>6, <3>1, <3>2 DEF Upsert
    <3>4. PICK row : row = [reviews[p] EXCEPT !.text = text]
      OBVIOUS
    <3>5. CASE reviews[p] = NoReview
      <4>1. row = [text |-> text, removed |-> FALSE]
        <5>1. row = [NoReview EXCEPT !.text = text]
          BY ONLY <3>4, <3>5
        <5>. QED BY ONLY <5>1 DEF NoReview
      <4>2. row \in Reviews
        BY <4>1 DEF Reviews
      <4>. QED BY ONLY <1>0, <3>3, <3>4, <4>2, p \in Purchases
    <3>6. CASE reviews[p] \in Reviews
      <4>1. row \in Reviews
        BY ONLY <3>4, <3>6, text \in Texts DEF Reviews
      <4>. QED BY ONLY <1>0, <3>3, <3>4, <4>1, p \in Purchases
    <3>. QED BY <1>0, <3>5, <3>6
  <2>. QED BY <1>0, <1>6, <2>1, <2>2, CatalogGotoInv DEF Upsert
<1>7. CASE Remove(w)
  <2>1. calls[w].op = "removeReview"
    BY <1>7, Mine DEF Remove, At, OnItsWay
  <2>2. reviews' \in [Purchases -> Reviews \cup {NoReview}]
    <3>1. PICK p \in Purchases : p = calls[w].given[1]
      BY <2>1, ReviewGiven
    <3>2. reviews' = [reviews EXCEPT ![p] = [text |-> Placeholder, removed |-> TRUE]]
      BY <1>7, <3>1 DEF Remove
    <3>. QED BY ONLY <1>0, <3>2, p \in Purchases DEF Reviews
  <2>. QED BY <1>0, <1>7, <2>1, <2>2, CatalogGotoInv DEF Remove
<1>8. CASE DropReviews(w)
  BY <1>0, <1>8, ReturnSilently DEF DropReviews, DropList
<1>. QED BY <1>1, <1>2, <1>3, <1>4, <1>5, <1>6, <1>7, <1>8 DEF Step

LEMMA FailInv ==
  ASSUME TypeInv, NEW w \in Workers, Fail(w)
  PROVE  TypeInv'
<1>1. /\ calls' = [calls EXCEPT ![w] = Idle] /\ UNCHANGED <<mediaVars, catalogVars, begun, timeouts>>
      /\ failures < MaxFailures /\ failures' = failures + 1 /\ disturbed' = TRUE
  BY DEF Fail
<1>7. failures' \in Nat /\ failures' <= MaxFailures
  <2>1. failures \in Nat /\ MaxFailures \in Nat
    BY MediaAssumption DEF TypeInv, StoresOK
  <2>. QED BY ONLY <1>1, <2>1
<1>2. StoresOK'
  BY <1>1, <1>7 DEF TypeInv, StoresOK, mediaVars, stores, refs, window, history, catalogVars
<1>3. drawn' = drawn /\ begun' = begun /\ Len(templates) <= Len(templates')
  BY <1>1 DEF mediaVars, stores, refs, TypeInv, StoresOK
<1>. QED BY <1>1, <1>2, <1>3, IdleFits, GoOnInv

\* Calls stay where they are.
LEMMA StillInv ==
  ASSUME TypeInv, StoresOK', UNCHANGED <<calls, begun, drawn, templates>>
  PROVE  TypeInv'
  BY DEF TypeInv, CallsFit, Drawable, Pots

LEMMA TimeOutInv ==
  ASSUME TypeInv, TimeOut
  PROVE  timeouts' \in Nat /\ timeouts' <= MaxTimeouts /\ UNCHANGED <<calls, begun, failures, disturbed>>
<1>1. timeouts \in Nat /\ MaxTimeouts \in Nat
  BY MediaAssumption DEF TypeInv, StoresOK
<1>2. /\ timeouts < MaxTimeouts /\ timeouts' = timeouts + 1
      /\ UNCHANGED <<calls, begun, failures, disturbed>>
  BY DEF TimeOut
<1>. QED BY ONLY <1>1, <1>2

LEMMA TimePassesInv ==
  ASSUME TypeInv, \/ TimePasses /\ UNCHANGED catalogVars
                  \/ \E key \in ShelfKeys : ShelfExpires(key)
  PROVE  TypeInv'
<1>1. ASSUME NEW k \in Files, GrowOld(k), UNCHANGED catalogVars PROVE TypeInv'
  <2>1. k \notin LocalFiles
    BY <1>1 DEF GrowOld, TypeInv, StoresOK
  <2>2. UNCHANGED <<calls, begun, failures, disturbed>> /\ timeouts' \in Nat /\ timeouts' <= MaxTimeouts
    BY <1>1, TimeOutInv DEF GrowOld
  <2>3. media' = [media EXCEPT ![k] = "old"] /\ UNCHANGED <<objects, drawn, refs, window, history>>
    BY <1>1 DEF GrowOld
  <2>4. StoresOK'
    BY <1>1, <2>1, <2>2, <2>3 DEF TypeInv, StoresOK, refs, window, history, catalogVars
  <2>. QED BY <2>2, <2>3, <2>4, StillInv DEF refs
<1>2. ASSUME NEW now \in 1 .. MaxCalls, MinutePasses(now), UNCHANGED catalogVars PROVE TypeInv'
  <2>1. UNCHANGED <<calls, begun, failures, disturbed>> /\ timeouts' \in Nat /\ timeouts' <= MaxTimeouts
    BY <1>2, TimeOutInv DEF MinutePasses
  <2>2. oldest' \in Nat /\ UNCHANGED <<stores, refs, cache, stamps, granted, history>>
    BY <1>2 DEF MinutePasses
  <2>3. StoresOK'
    BY <1>2, <2>1, <2>2 DEF TypeInv, StoresOK, stores, refs, history, catalogVars
  <2>. QED BY <2>1, <2>2, <2>3, StillInv DEF stores, refs
<1>3. ASSUME NEW key \in ShelfKeys, ShelfExpires(key) PROVE TypeInv'
  <2>1. UNCHANGED <<calls, begun, failures, disturbed>> /\ timeouts' \in Nat /\ timeouts' <= MaxTimeouts
    BY <1>3, TimeOutInv DEF ShelfExpires
  <2>2. DOMAIN shelf' = ShelfKeys /\ UNCHANGED <<mediaVars, reviews>>
    BY <1>3 DEF ShelfExpires, TypeInv, StoresOK
  <2>3. StoresOK'
    BY <2>1, <2>2 DEF TypeInv, StoresOK, mediaVars, stores, refs, window, history
  <2>. QED BY <2>1, <2>2, <2>3, StillInv DEF mediaVars, stores, refs
<1>. QED BY <1>1, <1>2, <1>3 DEF TimePasses

LEMMA NextTypeInv == TypeInv /\ [Next]_vars => TypeInv'
<1> SUFFICES ASSUME TypeInv, [Next]_vars PROVE TypeInv'
  OBVIOUS
<1>1. CASE UNCHANGED vars
  <2>1. StoresOK'
    BY <1>1 DEF vars, TypeInv, StoresOK, mediaVars, stores, refs, window, history, catalogVars, bounds
  <2>. QED BY <1>1, <2>1, StillInv DEF vars, mediaVars, stores, refs, bounds
<1>2. ASSUME NEW w \in Workers, Start(w) PROVE TypeInv'
  BY <1>2, StartInv
<1>3. ASSUME NEW w \in Workers, Step(w) PROVE TypeInv'
  BY <1>3, CatalogStepInv, MediaStepInv
<1>4. ASSUME NEW w \in Workers, Fail(w) PROVE TypeInv'
  BY <1>4, FailInv
<1>. QED BY <1>1, <1>2, <1>3, <1>4, TimePassesInv DEF Next

\* Every variable always has its type (media, template and testimonial
\* services); in particular the uploads and the script never store more files
\* than are counted when their calls begin.
THEOREM TypeCorrect == Spec => []TypeOK
<1>1. Spec => []TypeInv
  BY InitTypeInv, NextTypeInv, PTL DEF Spec
<1>. QED BY <1>1, TypeOKHolds, PTL
-----------------------------------------------------------------------------
(* What a call is like when it begins *)

GalleryFiles == UNION {g.images \cup g.moments \cup g.hidden \cup {g.music} :
                           g \in {galleries[i] : i \in Invitations}}

\* Its first step, and what it holds already.
FirstReads(k) ==
    \/ k = Idle
    \/ /\ k.op \in {"upload", "avatar"} /\ k.pc = "putObject"
       /\ k.file = 0 /\ k.todo = {} /\ k.used = {} /\ k.given = None
    \/ /\ k.op = "guest" /\ k.pc \in {"storeStamp", "readGallery"} /\ k.inv \in Invitations
       /\ k.file = 0 /\ k.todo = {} /\ k.given = None
    \/ /\ k.op = "moment" /\ k.pc = "push" /\ k.inv \in Invitations
       /\ k.file \in Spare /\ k.todo = {} /\ k.used = {} /\ k.given = None
    \/ /\ k.op = "noAvatar" /\ k.pc = "setAvatar"
       /\ k.file = 0 /\ k.todo = {} /\ k.used = {} /\ k.given = None
    \/ /\ k.op = "edit" /\ k.pc = "readInvitation" /\ k.inv \in Invitations
       /\ k.file = 0 /\ k.todo = {} /\ k.used = {} /\ k.given \in Bodies(galleries[k.inv])
    \/ /\ k.op = "delete" /\ k.pc = "deleteObject"
       /\ k.file \in Rows /\ k.todo = {k.file} /\ k.used = {} /\ k.given = None
    \/ /\ k.op = "clean" /\ k.pc = "readTemplates"
       /\ k.file = 0 /\ k.todo = {} /\ k.used = GalleryFiles /\ k.given = None
    \/ /\ k.op = "previews" /\ k.pc \in {"putObject", "readInvitations"} /\ k.view = templates
       /\ k.file = 0 /\ k.todo \subseteq LocalFiles /\ k.used = {} /\ k.given = None
    \/ /\ k.op = "newTemplate" /\ k.pc = "insertTemplate"
       /\ k.file \in Spare /\ k.todo = {} /\ k.used = {} /\ k.given = None
    \/ /\ k.op = "template" /\ k.tmpl \in DOMAIN templates /\ k.given \in Spare \cup {None}
       /\ k.used = {}
       /\ \/ k.pc = "writeTemplate" /\ k.file = 0 /\ k.todo = {}
             /\ k.given \in {None, templates[k.tmpl].preview}
          \/ k.pc = "deleteObject" /\ k.todo = {templates[k.tmpl].preview} /\ k.file \in k.todo
             /\ k.given # None
    \/ /\ k.op = "look" /\ k.pc = "fillShelf" /\ k.given \in ShelfKeys /\ k.view = View(k.given)
       /\ k.given \in Detail => k.view # {}
       /\ k.file = 0 /\ k.todo = {} /\ k.used = {}
    \/ /\ k.op = "review" /\ k.pc = "readReview" /\ k.file = 0 /\ k.todo = {} /\ k.used = {}
    \/ /\ k.op = "removeReview" /\ k.pc = "remove" /\ k.file = 0 /\ k.todo = {} /\ k.used = {}

\* What its first step leaves in the histories.
Recorded(k) ==
    /\ guests' = guests
    /\ deleted' = IF k.op = "delete" THEN deleted \cup {k.file} ELSE deleted
    /\ edited' = IF k.op = "edit" THEN edited \cup {k.inv} ELSE edited
    /\ migrated' = (migrated \/ k.op = "previews")

Started(w, k) ==
    /\ Begin(w, k) /\ IsCall(k) /\ FirstReads(k) /\ Recorded(k)
    /\ UNCHANGED <<stores, refs, catalogVars>>
    /\ \/ UNCHANGED window /\ k.op # "guest"
       \/ \E i \in Invitations : GuestUpload(w, i) /\ (k = Idle \/ (k.op = "guest" /\ k.inv = i))

LEMMA SilentStart ==
  ASSUME TypeInv, NEW w \in Workers, NEW k, Begin(w, k), IsCall(k), FirstReads(k),
         UNCHANGED mediaVars, UNCHANGED catalogVars, k.op \notin {"guest", "delete", "edit", "previews"}
  PROVE  Started(w, k)
<1>1. UNCHANGED <<stores, refs, window, history>>
  BY DEF mediaVars
<1>2. Recorded(k)
  BY <1>1 DEF Recorded, history, TypeInv, StoresOK
<1>. QED BY <1>1, <1>2 DEF Started

LEMMA StartsAt ==
  ASSUME TypeInv, NEW w \in Workers, Start(w)
  PROVE  \E k : Started(w, k)
<1>1. ASSUME NEW op \in {"upload", "avatar"}, UploadMedia(w, op), UNCHANGED catalogVars
      PROVE \E k : Started(w, k)
  <2>1. PICK k : k = [Idle EXCEPT !.op = op, !.pc = "putObject"]
    OBVIOUS
  <2>2. IsCall(k) /\ FirstReads(k) /\ k.op = op
    BY <2>1 DEF IsCall, Idle, FirstReads
  <2>3. Started(w, k)
    BY <1>1, <2>1, <2>2, SilentStart DEF UploadMedia
  <2>. QED BY <2>3
<1>2. ASSUME NEW i \in Invitations, GuestUpload(w, i), UNCHANGED catalogVars PROVE \E k : Started(w, k)
  <2>1. PICK used : used = {s \in stamps[i] : InWindow(s)}
    OBVIOUS
  <2>2. \/ Begin(w, Idle)
        \/ Begin(w, [Idle EXCEPT !.op = "guest", !.pc = "readGallery", !.inv = i])
        \/ Begin(w, [Idle EXCEPT !.op = "guest", !.pc = "storeStamp", !.inv = i, !.stamp = begun + 1,
                                 !.used = used])
    BY <1>2, <2>1 DEF GuestUpload
  <2>3. ASSUME NEW k, Begin(w, k), IsCall(k), FirstReads(k), k = Idle \/ (k.op = "guest" /\ k.inv = i),
               k.op \in {"none", "guest"}
        PROVE  \E q : Started(w, q)
    <3>1. Recorded(k) /\ UNCHANGED <<stores, refs, catalogVars>>
      BY <1>2, <2>3 DEF Recorded, GuestUpload, history, TypeInv, StoresOK
    <3>2. Started(w, k)
      BY <1>2, <2>3, <3>1 DEF Started
    <3>. QED BY <3>2
  <2>4. CASE Begin(w, Idle)
    <3>1. IsCall(Idle) /\ FirstReads(Idle) /\ Idle.op = "none"
      BY DEF IsCall, FirstReads, Idle
    <3>. QED BY <2>3, <2>4, <3>1
  <2>5. CASE Begin(w, [Idle EXCEPT !.op = "guest", !.pc = "readGallery", !.inv = i])
    <3>1. PICK k : k = [Idle EXCEPT !.op = "guest", !.pc = "readGallery", !.inv = i]
      OBVIOUS
    <3>2. IsCall(k) /\ FirstReads(k) /\ k.op = "guest" /\ k.inv = i
      BY <3>1 DEF IsCall, FirstReads, Idle
    <3>. QED BY <2>3, <2>5, <3>1, <3>2
  <2>6. CASE Begin(w, [Idle EXCEPT !.op = "guest", !.pc = "storeStamp", !.inv = i, !.stamp = begun + 1,
                                   !.used = used])
    <3>1. PICK k : k = [Idle EXCEPT !.op = "guest", !.pc = "storeStamp", !.inv = i, !.stamp = begun + 1,
                                    !.used = used]
      OBVIOUS
    <3>2. IsCall(k) /\ FirstReads(k) /\ k.op = "guest" /\ k.inv = i
      BY <3>1 DEF IsCall, FirstReads, Idle
    <3>. QED BY <2>3, <2>6, <3>1, <3>2
  <2>. QED BY <2>2, <2>4, <2>5, <2>6
<1>3. ASSUME NEW i \in Invitations, Edit(w, i), UNCHANGED catalogVars PROVE \E k : Started(w, k)
  <2>1. PICK body \in Bodies(galleries[i]) :
            Begin(w, [Idle EXCEPT !.op = "edit", !.pc = "readInvitation", !.inv = i, !.given = body])
    BY <1>3 DEF Edit
  <2>2. PICK k : k = [Idle EXCEPT !.op = "edit", !.pc = "readInvitation", !.inv = i, !.given = body]
    OBVIOUS
  <2>3. /\ IsCall(k) /\ k.op = "edit" /\ k.pc = "readInvitation" /\ k.inv = i /\ k.file = 0
        /\ k.todo = {} /\ k.used = {} /\ k.given = body
    BY ONLY <2>2 DEF IsCall, Idle
  <2>4. FirstReads(k)
    BY <2>3 DEF FirstReads
  <2>5. Recorded(k) /\ UNCHANGED <<stores, refs, window, catalogVars>>
    BY <1>3, <2>3 DEF Recorded, Edit, TypeInv, StoresOK
  <2>6. Begin(w, k)
    BY <2>1, <2>2
  <2>. QED BY <2>3, <2>4, <2>5, <2>6 DEF Started
<1>4. ASSUME NEW i \in Invitations, NEW f \in Spare, AddMoment(w, i, f), UNCHANGED catalogVars
      PROVE \E k : Started(w, k)
  <2>1. PICK k : k = [Idle EXCEPT !.op = "moment", !.pc = "push", !.inv = i, !.file = f]
    OBVIOUS
  <2>2. IsCall(k) /\ FirstReads(k) /\ k.op = "moment"
    BY <2>1 DEF IsCall, Idle, FirstReads
  <2>3. Started(w, k)
    BY <1>4, <2>1, <2>2, SilentStart DEF AddMoment
  <2>. QED BY <2>3
<1>5. ASSUME NEW f \in Files, DeleteMedia(w, f), UNCHANGED catalogVars PROVE \E k : Started(w, k)
  <2>1. PICK call : call = [Idle EXCEPT !.op = "delete"]
    OBVIOUS
  <2>2. IsCall(call) /\ call.op = "delete" /\ call.used = {} /\ call.given = None
    BY <2>1 DEF IsCall, Idle
  <2>3. PICK k : k = Deleting(call, {f}, "idle")
    OBVIOUS
  <2>4. /\ IsCall(k) /\ k.op = "delete" /\ k.pc = "deleteObject" /\ k.todo = {f} /\ k.file = f
        /\ k.used = {} /\ k.given = None
    BY <2>2, <2>3, DeletingCall
  <2>5. f \in Rows
    BY <1>5 DEF DeleteMedia, Rows
  <2>6. FirstReads(k)
    BY <2>4, <2>5 DEF FirstReads
  <2>7. Recorded(k) /\ UNCHANGED <<stores, refs, window, catalogVars>>
    BY <1>5, <2>4 DEF Recorded, DeleteMedia, TypeInv, StoresOK
  <2>8. Begin(w, k)
    BY <1>5, <2>1, <2>3 DEF DeleteMedia
  <2>. QED BY <2>4, <2>6, <2>7, <2>8 DEF Started
<1>6. ASSUME CleanupOrphans(w), UNCHANGED catalogVars PROVE \E k : Started(w, k)
  <2>1. PICK used : used = GalleryFiles
    OBVIOUS
  <2>2. PICK k : k = [Idle EXCEPT !.op = "clean", !.pc = "readTemplates", !.used = used]
    OBVIOUS
  <2>3. /\ IsCall(k) /\ k.op = "clean" /\ k.pc = "readTemplates" /\ k.file = 0 /\ k.todo = {}
        /\ k.used = used /\ k.given = None
    BY ONLY <2>2 DEF IsCall, Idle
  <2>4. Begin(w, k) /\ UNCHANGED mediaVars
    BY <1>6, <2>1, <2>2 DEF CleanupOrphans, GalleryFiles
  <2>5. FirstReads(k)
    BY <2>1, <2>3 DEF FirstReads
  <2>6. Started(w, k)
    BY <1>6, <2>3, <2>4, <2>5, SilentStart
  <2>. QED BY <2>6
<1>7. ASSUME RemoveAvatar(w), UNCHANGED catalogVars PROVE \E k : Started(w, k)
  <2>1. PICK k : k = [Idle EXCEPT !.op = "noAvatar", !.pc = "setAvatar"]
    OBVIOUS
  <2>2. IsCall(k) /\ FirstReads(k) /\ k.op = "noAvatar"
    BY <2>1 DEF IsCall, Idle, FirstReads
  <2>3. Started(w, k)
    BY <1>7, <2>1, <2>2, SilentStart DEF RemoveAvatar
  <2>. QED BY <2>3
<1>8. ASSUME RunScript(w), UNCHANGED catalogVars PROVE \E k : Started(w, k)
  <2>1. PICK local : local = {templates[t].preview : t \in DOMAIN templates} \cap LocalFiles
    OBVIOUS
  <2>2. PICK call : call = [Idle EXCEPT !.op = "previews", !.todo = local, !.view = templates]
    OBVIOUS
  <2>3. /\ IsCall(call) /\ call.op = "previews" /\ call.todo = local /\ call.view = templates
        /\ call.file = 0 /\ call.used = {} /\ call.given = None
    BY <2>2 DEF IsCall, Idle
  <2>4. PICK k : k = NextLocal(call)
    OBVIOUS
  <2>5. k # Idle
    <3>1. k.op = "previews"
      BY ONLY <2>3, <2>4 DEF NextLocal, IsCall, Idle
    <3>. QED BY <3>1 DEF Idle
  <2>6. /\ IsCall(k) /\ k.op = "previews" /\ k.pc \in {"putObject", "readInvitations"}
        /\ k.view = templates /\ k.file = 0 /\ k.todo \subseteq local /\ k.used = {} /\ k.given = None
    BY <2>3, <2>4, <2>5, NextLocalCall
  <2>7. FirstReads(k)
    BY <2>1, <2>6 DEF FirstReads
  <2>8. Recorded(k) /\ UNCHANGED <<stores, refs, window, catalogVars>>
    BY <1>8, <2>6 DEF Recorded, RunScript, TypeInv, StoresOK
  <2>9. Begin(w, k)
    BY <1>8, <2>1, <2>2, <2>4 DEF RunScript
  <2>. QED BY <2>6, <2>7, <2>8, <2>9 DEF Started
<1>9. ASSUME NEW f \in Spare, CreateTemplate(w, f), UNCHANGED catalogVars PROVE \E k : Started(w, k)
  <2>1. PICK k : k = [Idle EXCEPT !.op = "newTemplate", !.pc = "insertTemplate", !.file = f]
    OBVIOUS
  <2>2. IsCall(k) /\ FirstReads(k) /\ k.op = "newTemplate"
    BY <2>1 DEF IsCall, Idle, FirstReads
  <2>3. Started(w, k)
    BY <1>9, <2>1, <2>2, SilentStart DEF CreateTemplate
  <2>. QED BY <2>3
<1>10. ASSUME NEW t \in DOMAIN templates, NEW f \in Spare \cup {None}, NEW b,
              UpdateTemplate(w, t, f, b), UNCHANGED catalogVars
       PROVE \E k : Started(w, k)
  <2>1. PICK call : call = [Idle EXCEPT !.op = "template", !.tmpl = t, !.given = f, !.active = b]
    OBVIOUS
  <2>2. IsCall(call) /\ call.op = "template" /\ call.tmpl = t /\ call.given = f /\ call.file = 0 /\ call.used = {}
    BY ONLY <2>1 DEF IsCall, Idle
  <2>3. PICK todo : todo = IF f \in {None, templates[t].preview} THEN {} ELSE {templates[t].preview}
    OBVIOUS
  <2>4. PICK k : k = Deleting(call, todo, "writeTemplate")
    OBVIOUS
  <2>5. /\ IsCall(k) /\ k.op = "template" /\ k.tmpl = t /\ k.given = f /\ k.used = {} /\ k.todo = todo
        /\ todo = {} => k.pc = "writeTemplate" /\ k.file = 0
        /\ todo # {} => k.pc = "deleteObject" /\ k.file \in todo
    BY <2>2, <2>4, DeletingCall
  <2>6. FirstReads(k)
    BY <2>3, <2>5 DEF FirstReads
  <2>7. Begin(w, k) /\ UNCHANGED mediaVars
    BY <1>10, <2>1, <2>3, <2>4 DEF UpdateTemplate
  <2>8. Started(w, k)
    BY <1>10, <2>5, <2>6, <2>7, SilentStart
  <2>. QED BY <2>8
<1>11. ASSUME NEW key \in ShelfKeys, Look(w, key) PROVE \E k : Started(w, k)
  <2>1. PICK view : view = View(key)
    OBVIOUS
  <2>2. PICK k : k = [Idle EXCEPT !.op = "look", !.pc = "fillShelf", !.given = key, !.view = view]
    OBVIOUS
  <2>3. /\ IsCall(k) /\ k.op = "look" /\ k.pc = "fillShelf" /\ k.given = key /\ k.view = view
        /\ k.file = 0 /\ k.todo = {} /\ k.used = {}
    BY ONLY <2>2 DEF IsCall, Idle
  <2>4. FirstReads(k)
    <3>1. key \in Detail => view # {}
      BY <1>11, <2>1 DEF Look
    <3>. QED BY <2>1, <2>3, <3>1 DEF FirstReads
  <2>5. Begin(w, k) /\ UNCHANGED mediaVars /\ UNCHANGED catalogVars
    BY <1>11, <2>1, <2>2 DEF Look
  <2>6. Started(w, k)
    BY <2>3, <2>4, <2>5, SilentStart
  <2>. QED BY <2>6
<1>12. ASSUME NEW p, NEW text, Review(w, p, text) PROVE \E k : Started(w, k)
  <2>1. PICK k : k = [Idle EXCEPT !.op = "review", !.pc = "readReview", !.given = <<p, text>>]
    OBVIOUS
  <2>2. IsCall(k) /\ FirstReads(k) /\ k.op = "review"
    BY <2>1 DEF IsCall, Idle, FirstReads
  <2>3. Started(w, k)
    BY <1>12, <2>1, <2>2, SilentStart DEF Review
  <2>. QED BY <2>3
<1>13. ASSUME NEW p, RemoveReview(w, p) PROVE \E k : Started(w, k)
  <2>1. PICK k : k = [Idle EXCEPT !.op = "removeReview", !.pc = "remove", !.given = <<p, None>>]
    OBVIOUS
  <2>2. IsCall(k) /\ FirstReads(k) /\ k.op = "removeReview"
    BY <2>1 DEF IsCall, Idle, FirstReads
  <2>3. Started(w, k)
    BY <1>13, <2>1, <2>2, SilentStart DEF RemoveReview
  <2>. QED BY <2>3
<1>. DEFINE Found == \E k : Started(w, k)
<1>. SUFFICES Found
  OBVIOUS
<1>. HIDE DEF Found
<1>14. ASSUME MediaStart(w), UNCHANGED catalogVars PROVE Found
  <2>1. CASE \E op \in {"upload", "avatar"} : UploadMedia(w, op)
    BY <1>1, <1>14, <2>1 DEF Found
  <2>2. CASE \E i \in Invitations : GuestUpload(w, i) \/ Edit(w, i)
    BY <1>2, <1>3, <1>14, <2>2 DEF Found
  <2>3. CASE \E i \in Invitations, k \in Spare : AddMoment(w, i, k)
    BY <1>4, <1>14, <2>3 DEF Found
  <2>4. CASE \E k \in Files : DeleteMedia(w, k)
    BY <1>5, <1>14, <2>4 DEF Found
  <2>5. CASE CleanupOrphans(w) \/ RemoveAvatar(w) \/ RunScript(w)
    BY <1>6, <1>7, <1>8, <1>14, <2>5 DEF Found
  <2>6. CASE \E k \in Spare : CreateTemplate(w, k)
    BY <1>9, <1>14, <2>6 DEF Found
  <2>7. CASE \E t \in DOMAIN templates :
                \/ \E k \in Spare : UpdateTemplate(w, t, k, None)
                \/ \E b \in BOOLEAN : UpdateTemplate(w, t, None, b)
    BY <1>10, <1>14, <2>7 DEF Found
  <2>. QED BY ONLY <1>14, <2>1, <2>2, <2>3, <2>4, <2>5, <2>6, <2>7 DEF MediaStart
<1>15. ASSUME NEW key \in ShelfKeys, Look(w, key) PROVE Found
  BY <1>11, <1>15 DEF Found
<1>16. ASSUME NEW p, NEW text, Review(w, p, text) PROVE Found
  BY <1>12, <1>16 DEF Found
<1>17. ASSUME NEW p, RemoveReview(w, p) PROVE Found
  BY <1>13, <1>17 DEF Found
<1>. QED BY ONLY <1>14, <1>15, <1>16, <1>17, Start(w) DEF Start
-----------------------------------------------------------------------------
(* One call at a time *)

\* The steps at which calls begin and to which none returns.
FirstSteps == {"storeStamp", "readTemplates", "readInvitation", "readReview", "remove", "fillShelf",
               "insertTemplate"}

\* Call c goes on as k.
GoesOn(c, k) ==
    /\ k.op \in {"none", c.op} \/ (c.op = "previews" /\ k.op = "photos")
    /\ k.pc \notin FirstSteps /\ k.seen \subseteq c.seen
    /\ k.op \in {"none", "photos"} \/ k.inv = c.inv
    /\ k.pc = "upsert" => c.pc = "readReview"

\* And it has read nothing new.
Keeps(c, k) ==
    /\ k.todo \subseteq c.todo /\ k.file \in {0, c.file} \cup c.todo
    /\ k.op = "none" \/ (k.op = c.op /\ k.given = c.given)
    /\ k.pc \notin {"readOld", "writeMoments"}

\* The steps that read.
Reads(w) ==
    \/ PutObject(w) \/ ReadInvitation(w) \/ ReadTemplates(w) \/ ReadOld(w)
    \/ ReadInvitations(w) \/ ReadMoments(w)

\* One call in progress moves on.
Moved(w) ==
    \E k : /\ calls' = [calls EXCEPT ![w] = k] /\ GoesOn(calls[w], k)
           /\ Reads(w) \/ Keeps(calls[w], k)
           /\ ~At(w, "idle") /\ (disturbed' = disturbed \/ disturbed' = TRUE)

LEMMA GotoMoves ==
  ASSUME TypeInv, NEW w \in Workers, NEW pc, Goto(w, pc), ~At(w, "idle"),
         pc \notin FirstSteps \cup {"readOld", "writeMoments"}, pc = "upsert" => At(w, "readReview")
  PROVE  Moved(w)
<1>1. PICK k : k = [calls[w] EXCEPT !.pc = pc]
  OBVIOUS
<1>2. /\ k.pc = pc /\ k.op = calls[w].op /\ k.seen = calls[w].seen /\ k.todo = calls[w].todo
      /\ k.file = calls[w].file /\ k.given = calls[w].given /\ k.inv = calls[w].inv
  BY <1>1, Mine DEF IsCall, Idle
<1>3. GoesOn(calls[w], k) /\ Keeps(calls[w], k)
  BY <1>2 DEF GoesOn, Keeps, At
<1>. QED BY <1>1, <1>3 DEF Moved, Goto, Continue

LEMMA IdleGoesOn == \A c : GoesOn(c, Idle) /\ Keeps(c, Idle)
  BY DEF GoesOn, Keeps, Idle, FirstSteps

LEMMA ReturnMoves ==
  ASSUME NEW w \in Workers, Return(w), ~At(w, "idle")
  PROVE  Moved(w)
<1>. HIDE DEF Idle
<1>. QED BY IdleGoesOn DEF Moved, Return, Continue

LEMMA DeletingGoesOn ==
  ASSUME NEW c, NEW call, IsCall(call), call.op = c.op, call.seen = c.seen, call.file = c.file,
         call.given = c.given, call.inv = c.inv, NEW todo,
         NEW write \in {"write", "writeTemplate", "idle"}
  PROVE  /\ GoesOn(c, Deleting(call, todo, write))
         /\ todo \subseteq c.todo => Keeps(c, Deleting(call, todo, write))
<1>1. PICK k : k = Deleting(call, todo, write)
  OBVIOUS
<1>2. /\ k.pc \in {write, "deleteObject"} /\ k.op = c.op /\ k.seen = c.seen /\ k.todo = todo
      /\ k.file \in {c.file} \cup todo /\ k.given = c.given /\ k.inv = c.inv
  BY <1>1, DeletingCall
<1>3. GoesOn(c, k)
  BY <1>2 DEF GoesOn, FirstSteps
<1>4. todo \subseteq c.todo => Keeps(c, k)
  BY <1>2 DEF Keeps
<1>. QED BY <1>1, <1>3, <1>4

LEMMA DeletingMoves ==
  ASSUME TypeInv, NEW w \in Workers, NEW todo, NEW write \in {"write", "writeTemplate", "idle"},
         ~At(w, "idle"), calls' = [calls EXCEPT ![w] = Deleting(calls[w], todo, write)],
         disturbed' = disturbed \/ disturbed' = TRUE, Reads(w) \/ todo \subseteq calls[w].todo
  PROVE  Moved(w)
<1>1. PICK k : k = Deleting(calls[w], todo, write)
  OBVIOUS
<1>2. GoesOn(calls[w], k) /\ (todo \subseteq calls[w].todo => Keeps(calls[w], k))
  BY <1>1, Mine, DeletingGoesOn
<1>. QED BY <1>1, <1>2 DEF Moved

LEMMA NextLocalMoves ==
  ASSUME TypeInv, NEW w \in Workers, ~At(w, "idle"),
         calls' = [calls EXCEPT ![w] = NextLocal(calls[w])],
         disturbed' = disturbed \/ disturbed' = TRUE
  PROVE  Moved(w)
<1>1. PICK k : k = NextLocal(calls[w])
  OBVIOUS
<1>2. CASE k = Idle
  BY <1>1, <1>2, IdleGoesOn DEF Moved
<1>3. CASE k # Idle
  <2>1. /\ k.pc \in {"putObject", "readInvitations"} /\ k.op = calls[w].op /\ k.seen = calls[w].seen
        /\ k.todo \subseteq calls[w].todo /\ k.file = calls[w].file /\ k.given = calls[w].given
        /\ k.inv = calls[w].inv
    BY <1>1, <1>3, Mine, NextLocalCall
  <2>2. GoesOn(calls[w], k) /\ Keeps(calls[w], k)
    BY <2>1 DEF GoesOn, Keeps, FirstSteps
  <2>. QED BY <1>1, <2>2 DEF Moved
<1>. QED BY <1>2, <1>3

LEMMA StepMoves ==
  ASSUME TypeInv, NEW w \in Workers, Step(w)
  PROVE  Moved(w)
<1>. USE DEF At, FirstSteps
<1>0. /\ IsCall(calls[w]) /\ OnItsWay(calls[w])
      /\ calls[w].pc \in {"deleteObject", "deleteRow"} => calls[w].file \in calls[w].todo
  BY Mine DEF Fits, HasRead
<1>1. CASE StoreStamp(w)
  <2>1. PICK k : k = [calls[w] EXCEPT !.pc = "readGallery", !.used = {}, !.stamp = 0]
    OBVIOUS
  <2>2. /\ k.pc = "readGallery" /\ k.op = calls[w].op /\ k.seen = calls[w].seen
        /\ k.todo = calls[w].todo /\ k.file = calls[w].file /\ k.given = calls[w].given
        /\ k.inv = calls[w].inv
    BY <1>0, <2>1 DEF IsCall, Idle
  <2>3. GoesOn(calls[w], k) /\ Keeps(calls[w], k)
    BY <2>2 DEF GoesOn, Keeps
  <2>. QED BY <1>1, <2>1, <2>3 DEF StoreStamp, Continue, Moved
<1>2. CASE ReadGallery(w)
  BY <1>2, GotoMoves, ReturnMoves DEF ReadGallery
<1>3. CASE PutObject(w)
  <2>1. PICK k : k = [calls[w] EXCEPT !.pc = "insertRow", !.file = drawn']
    OBVIOUS
  <2>2. k.pc = "insertRow" /\ k.op = calls[w].op /\ k.seen = calls[w].seen /\ k.inv = calls[w].inv
    BY <1>0, <2>1 DEF IsCall, Idle
  <2>3. GoesOn(calls[w], k)
    BY <2>2 DEF GoesOn
  <2>. QED BY <1>3, <2>1, <2>3 DEF PutObject, Continue, Moved, Reads
<1>4. CASE InsertRow(w)
  <2>1. AfterRow(calls[w].op) \in {"push", "setAvatar", "idle"}
    BY DEF AfterRow
  <2>. QED BY <1>4, <2>1, GotoMoves, ReturnMoves DEF InsertRow
<1>5. CASE Push(w) \/ SetAvatar(w) \/ WriteInvitation(w) \/ FillShelf(w) \/ DropDetail(w) \/ DropReviews(w)
  BY <1>5, ReturnMoves DEF Push, SetAvatar, WriteInvitation, FillShelf, DropDetail, DropReviews, DropList
<1>6. CASE DeleteObject(w) \/ InsertTemplate(w) \/ WriteTemplate(w) \/ DropAll(w) \/ Upsert(w) \/ Remove(w)
  BY <1>6, GotoMoves DEF DeleteObject, InsertTemplate, WriteTemplate, DropAll, DropList, Upsert, Remove
<1>7. CASE DropActive(w) \/ ReadReview(w)
  BY <1>7, GotoMoves, ReturnMoves DEF DropActive, DropList, ReadReview
<1>8. CASE ReadInvitation(w)
  <2>1. PICK todo : Continue(w, Deleting(calls[w], todo, "write"))
    BY <1>8 DEF ReadInvitation
  <2>2. calls' = [calls EXCEPT ![w] = Deleting(calls[w], todo, "write")] /\ disturbed' = disturbed
        /\ ~At(w, "idle") /\ Reads(w)
    BY <1>8, <2>1 DEF ReadInvitation, Continue, Reads
  <2>. QED BY <2>2, DeletingMoves
<1>9. CASE DeleteRow(w)
  <2>1. AfterDelete(calls[w].op) \in {"write", "writeTemplate", "idle"}
    BY DEF AfterDelete
  <2>2. PICK todo, write : /\ write \in {"write", "writeTemplate", "idle"} /\ todo \subseteq calls[w].todo
                           /\ Return(w) \/ Continue(w, Deleting(calls[w], todo, write))
    BY <1>9, <2>1 DEF DeleteRow
  <2>3. ~At(w, "idle")
    BY <1>9 DEF DeleteRow
  <2>4. CASE Return(w)
    BY <2>3, <2>4, ReturnMoves
  <2>5. CASE Continue(w, Deleting(calls[w], todo, write))
    BY <2>2, <2>3, <2>5, DeletingMoves DEF Continue
  <2>. QED BY <2>2, <2>4, <2>5
<1>10. CASE RequestFails(w)
  <2>1. ~At(w, "idle") /\ disturbed' = TRUE
    BY <1>0, <1>10 DEF RequestFails, OnItsWay, Script
  <2>2. PICK next : next = AfterFailure(calls[w])
    OBVIOUS
  <2>3. calls' = [calls EXCEPT ![w] = IF next.pc = "idle" THEN Idle ELSE next]
    BY <1>10, <2>2 DEF RequestFails
  <2>4. CASE next.pc = "idle"
    BY <2>1, <2>3, <2>4, IdleGoesOn DEF Moved
  <2>5. CASE next.pc # "idle"
    <3>1. calls' = [calls EXCEPT ![w] = next]
      BY <2>3, <2>5
    <3>3. \/ next = Idle \/ next = NextLocal(calls[w]) \/ next = [calls[w] EXCEPT !.pc = "deleteRow"]
          \/ next = Deleting(calls[w], calls[w].todo \ {calls[w].file}, AfterDelete(calls[w].op))
      BY <2>2 DEF AfterFailure
    <3>4. AfterDelete(calls[w].op) \in {"write", "writeTemplate", "idle"}
      BY DEF AfterDelete
    <3>5. CASE next = [calls[w] EXCEPT !.pc = "deleteRow"]
      <4>1. /\ next.pc = "deleteRow" /\ next.op = calls[w].op /\ next.seen = calls[w].seen
            /\ next.todo = calls[w].todo /\ next.file = calls[w].file
            /\ next.given = calls[w].given /\ next.inv = calls[w].inv
        BY <1>0, <3>5 DEF IsCall, Idle
      <4>2. GoesOn(calls[w], next) /\ Keeps(calls[w], next)
        BY <4>1 DEF GoesOn, Keeps
      <4>. QED BY <2>1, <3>1, <4>2 DEF Moved
    <3>6. CASE next = NextLocal(calls[w])
      BY <2>1, <3>1, <3>6, NextLocalMoves
    <3>7. CASE next = Deleting(calls[w], calls[w].todo \ {calls[w].file}, AfterDelete(calls[w].op))
      <4>1. PICK todo, write : /\ todo = calls[w].todo \ {calls[w].file} /\ write = AfterDelete(calls[w].op)
        OBVIOUS
      <4>2. calls' = [calls EXCEPT ![w] = Deleting(calls[w], todo, write)]
            /\ todo \subseteq calls[w].todo /\ write \in {"write", "writeTemplate", "idle"}
        BY <3>1, <3>4, <3>7, <4>1
      <4>. QED BY <2>1, <4>2, DeletingMoves
    <3>8. CASE next = Idle
      BY <2>5, <3>8 DEF Idle
    <3>. QED BY <3>3, <3>5, <3>6, <3>7, <3>8
  <2>. QED BY <2>4, <2>5
<1>11. CASE ReadTemplates(w)
  <2>1. PICK used : used = calls[w].used \cup {templates[t].preview : t \in DOMAIN templates}
    OBVIOUS
  <2>2. PICK k : k = [calls[w] EXCEPT !.pc = "readOld", !.used = used]
    OBVIOUS
  <2>3. k.pc = "readOld" /\ k = [calls[w] EXCEPT !.pc = "readOld",
                                     !.used = @ \cup {templates[t].preview : t \in DOMAIN templates}]
        /\ k.op = calls[w].op /\ k.seen = calls[w].seen /\ k.inv = calls[w].inv
    BY <1>0, <2>1, <2>2 DEF IsCall, Idle
  <2>4. GoesOn(calls[w], k)
    BY <2>3 DEF GoesOn
  <2>. QED BY <1>11, <2>3, <2>4 DEF ReadTemplates, Continue, Moved, Reads
<1>12. CASE ReadOld(w)
  <2>1. PICK call : call = [calls[w] EXCEPT !.used = {}]
    OBVIOUS
  <2>2. /\ IsCall(call) /\ call.op = calls[w].op /\ call.seen = calls[w].seen
        /\ call.file = calls[w].file /\ call.given = calls[w].given /\ call.inv = calls[w].inv
    BY <1>0, <2>1 DEF IsCall, Idle
  <2>3. PICK todo : Return(w) \/ Continue(w, Deleting(call, todo, "idle"))
    BY <1>12, <2>1 DEF ReadOld
  <2>4. PICK k : k = Deleting(call, todo, "idle")
    OBVIOUS
  <2>5. GoesOn(calls[w], k)
    BY <2>2, <2>4, DeletingGoesOn
  <2>6. CASE Continue(w, k)
    BY <1>12, <2>5, <2>6 DEF ReadOld, Continue, Moved, Reads
  <2>. QED BY <1>12, <2>3, <2>4, <2>6, ReturnMoves DEF ReadOld
<1>13. CASE ReadInvitations(w)
  <2>1. PICK view : view = [i \in Invitations |-> galleries[i].moments]
    OBVIOUS
  <2>2. PICK call : call = [calls[w] EXCEPT !.op = "photos", !.todo = LocalPhotos, !.view = view]
    OBVIOUS
  <2>3. IsCall(call) /\ call.op = "photos" /\ call.seen = calls[w].seen /\ calls[w].op = "previews"
    BY <1>0, <1>13, <2>2 DEF IsCall, Idle, OnItsWay, ReadInvitations
  <2>4. PICK k : k = NextLocal(call)
    OBVIOUS
  <2>5. Continue(w, k)
    BY <1>13, <2>1, <2>2, <2>4 DEF ReadInvitations
  <2>6. k = Idle \/ (k.op = "photos" /\ k.seen = calls[w].seen /\ k.pc = "putObject")
    BY <2>3, <2>4, NextLocalCall
  <2>7. GoesOn(calls[w], k)
    BY <2>3, <2>6, IdleGoesOn DEF GoesOn
  <2>. QED BY <1>13, <2>5, <2>7 DEF ReadInvitations, Continue, Moved, Reads
<1>14. CASE ScriptRow(w)
  <2>1. PICK k : /\ k \in {[calls[w] EXCEPT !.pc = "writePreview"], [calls[w] EXCEPT !.pc = "readMoments"],
                           NextLocal(calls[w])}
                 /\ calls' = [calls EXCEPT ![w] = k] /\ disturbed' = disturbed
    BY <1>14 DEF ScriptRow, Continue
  <2>2. CASE k = NextLocal(calls[w])
    BY <1>14, <2>1, <2>2, NextLocalMoves DEF ScriptRow
  <2>3. CASE k # NextLocal(calls[w])
    <3>1. /\ k.pc \in {"writePreview", "readMoments"} /\ k.op = calls[w].op
          /\ k.seen = calls[w].seen /\ k.todo = calls[w].todo /\ k.file = calls[w].file
          /\ k.given = calls[w].given /\ k.inv = calls[w].inv
      BY <1>0, <2>1, <2>3 DEF IsCall, Idle
    <3>2. GoesOn(calls[w], k) /\ Keeps(calls[w], k)
      BY <3>1 DEF GoesOn, Keeps
    <3>. QED BY <1>14, <2>1, <3>2 DEF ScriptRow, Moved
  <2>. QED BY <2>2, <2>3
<1>15. CASE WritePreview(w) \/ WriteMoments(w)
  <2>1. Continue(w, NextLocal(calls[w])) /\ ~At(w, "idle")
    BY <1>15 DEF WritePreview, WriteMoments
  <2>. QED BY <2>1, NextLocalMoves DEF Continue
<1>16. CASE ReadMoments(w)
  <2>1. PICK i, moments, raw :
            Continue(w, [calls[w] EXCEPT !.pc = "writeMoments", !.inv = i, !.given = moments, !.used = raw])
    BY <1>16 DEF ReadMoments
  <2>2. PICK k : k = [calls[w] EXCEPT !.pc = "writeMoments", !.inv = i, !.given = moments, !.used = raw]
    OBVIOUS
  <2>3. k.pc = "writeMoments" /\ k.op = calls[w].op /\ k.seen = calls[w].seen /\ k.op = "photos"
    BY <1>0, <1>16, <2>2 DEF IsCall, Idle, ReadMoments, OnItsWay
  <2>4. GoesOn(calls[w], k)
    BY <2>3 DEF GoesOn
  <2>. QED BY <1>16, <2>1, <2>2, <2>4 DEF ReadMoments, Continue, Moved, Reads
<1>. QED BY ONLY <1>1, <1>2, <1>3, <1>4, <1>5, <1>6, <1>7, <1>8, <1>9, <1>10, <1>11, <1>12, <1>13, <1>14,
                 <1>15, <1>16, Step(w) DEF Step, MediaStep

\* As long as nothing is disturbed, at most one call is in progress.
Alone == ~disturbed => \A v, w \in Workers : v # w => At(v, "idle") \/ At(w, "idle")

LEMMA InitAlone == CatalogInit => Alone
  BY DEF CatalogInit, Init, Alone, At, Idle

LEMMA NextAlone ==
  ASSUME TypeInv, Alone, [Next]_vars
  PROVE  Alone'
<1>1. ASSUME NEW w \in Workers, NEW k, Begin(w, k) PROVE Alone'
  <2>1. disturbed' = (disturbed \/ ~Quiet) /\ \A v \in Workers : v # w => calls'[v] = calls[v]
    BY <1>1 DEF Begin
  <2>. QED BY <2>1 DEF Alone, At, Quiet
<1>2. ASSUME NEW w \in Workers, Moved(w) PROVE Alone'
  BY <1>2 DEF Moved, Alone, At, TypeInv
<1>3. ASSUME NEW w \in Workers, Start(w) PROVE Alone'
  BY <1>1, <1>3, StartsAt DEF Started
<1>4. ASSUME NEW w \in Workers, Step(w) PROVE Alone'
  BY <1>2, <1>4, StepMoves
<1>5. CASE \E w \in Workers : Fail(w)
  BY <1>5 DEF Fail, Alone
<1>6. CASE \/ TimePasses /\ UNCHANGED catalogVars
           \/ \E key \in ShelfKeys : ShelfExpires(key)
  <2>1. UNCHANGED <<calls, disturbed>>
    BY <1>6 DEF TimePasses, GrowOld, MinutePasses, ShelfExpires, TimeOut
  <2>. QED BY <2>1 DEF Alone, At
<1>7. CASE UNCHANGED vars
  BY <1>7 DEF vars, Alone, At
<1>. QED BY <1>3, <1>4, <1>5, <1>6, <1>7 DEF Next

\* What a call that begins holds, with the files it has seen.
LEMMA Begun ==
  ASSUME TypeInv, NEW w \in Workers, NEW k, Begin(w, k), IsCall(k)
  PROVE  /\ calls'[w].op = k.op /\ calls'[w].pc = k.pc /\ calls'[w].inv = k.inv
         /\ calls'[w].file = k.file /\ calls'[w].given = k.given /\ calls'[w].todo = k.todo
         /\ calls'[w].used = k.used /\ calls'[w].from = k.from /\ calls'[w].view = k.view
         /\ calls'[w].tmpl = k.tmpl /\ calls'[w].active = k.active /\ calls'[w].stamp = k.stamp
         /\ calls'[w].seen = IF k = Idle THEN {} ELSE Rows \ Held
         /\ \A v \in Workers : v # w => calls'[v] = calls[v]
         /\ calls[w].pc = "idle" /\ disturbed' = (disturbed \/ ~Quiet) /\ begun' = begun + 1
<1>1. DOMAIN calls = Workers
  BY DEF TypeInv
<1>2. CASE k = Idle
  <2>1. calls' = [calls EXCEPT ![w] = k] /\ k.seen = {}
    BY <1>2 DEF Begin, Idle
  <2>. QED BY <1>1, <1>2, <2>1 DEF Begin, At
<1>3. CASE k # Idle
  <2>1. PICK q : q = [k EXCEPT !.seen = Rows \ Held]
    OBVIOUS
  <2>2. /\ q.op = k.op /\ q.pc = k.pc /\ q.inv = k.inv /\ q.file = k.file /\ q.given = k.given
        /\ q.todo = k.todo /\ q.used = k.used /\ q.from = k.from /\ q.view = k.view
        /\ q.tmpl = k.tmpl /\ q.active = k.active /\ q.stamp = k.stamp /\ q.seen = Rows \ Held
    BY <2>1 DEF IsCall, Idle
  <2>3. calls' = [calls EXCEPT ![w] = q]
    BY <1>3, <2>1 DEF Begin
  <2>4. calls[w].pc = "idle" /\ disturbed' = (disturbed \/ ~Quiet) /\ begun' = begun + 1
    BY DEF Begin, At
  <2>. QED BY <1>1, <1>3, <2>2, <2>3, <2>4
<1>. QED BY <1>2, <1>3
-----------------------------------------------------------------------------
(* The window of uploads *)

\* The uploads of the last minute.
InWin(i) == {s \in granted[i] : InWindow(s)}

\* What the cached time stamps say of them; a cache in memory is behind by what
\* the call in progress has read.
WindowOK ==
    /\ cache = None => \A i \in Invitations : granted[i] = {}
    /\ cache # "memory" => \A w \in Workers : ~At(w, "storeStamp")
    /\ cache = "redis" \/ ~disturbed =>
           \A i \in Invitations : /\ InWin(i) \subseteq stamps[i]
                                  /\ Cardinality(InWin(i)) <= UploadLimit
    /\ ~disturbed =>
           \A w \in Workers : At(w, "storeStamp") =>
               /\ InWin(calls[w].inv) \subseteq calls[w].used
               /\ Cardinality(calls[w].used) + 1 <= UploadLimit

WindowInv == TypeInv /\ Alone /\ WindowOK

LEMMA StampsFinite ==
  ASSUME NEW b \in Nat, NEW S, S \subseteq 1 .. b
  PROVE  IsFiniteSet(S) /\ Cardinality(S) \in Nat
<1>1. IsFiniteSet(1 .. b)
  BY FS_Interval
<1>. QED BY <1>1, FS_Subset, FS_CardinalityType

\* One upload more.
LEMMA OneUpload ==
  ASSUME NEW b \in Nat, NEW S, S \subseteq 1 .. b, NEW now, NEW T, T \subseteq S \cup {now},
         Cardinality(S) + 1 <= UploadLimit
  PROVE  Cardinality(T) <= UploadLimit
<1>1. IsFiniteSet(S) /\ Cardinality(S) \in Nat
  BY StampsFinite
<1>2. IsFiniteSet(S \cup {now}) /\ Cardinality(S \cup {now}) <= Cardinality(S) + 1
  <2>1. /\ IsFiniteSet(S \cup {now})
        /\ Cardinality(S \cup {now}) \in {Cardinality(S), Cardinality(S) + 1}
    BY <1>1, FS_AddElement
  <2>. QED BY ONLY <1>1, <2>1
<1>3. IsFiniteSet(T) /\ Cardinality(T) <= Cardinality(S \cup {now})
  BY <1>2, FS_Subset
<1>4. Cardinality(T) \in Nat /\ Cardinality(S \cup {now}) \in Nat /\ UploadLimit \in Nat
  BY <1>2, <1>3, FS_CardinalityType, MediaAssumption
<1>. QED BY ONLY <1>1, <1>2, <1>3, <1>4, Cardinality(S) + 1 <= UploadLimit

LEMMA InitWindow == CatalogInit => WindowInv
<1> SUFFICES ASSUME CatalogInit PROVE WindowInv
  OBVIOUS
<1>1. \A i \in Invitations : InWin(i) = {}
  BY DEF CatalogInit, Init, InWin
<1>2. Cardinality({}) = 0 /\ UploadLimit \in Nat
  BY FS_EmptySet, MediaAssumption
<1>3. \A w \in Workers : ~At(w, "storeStamp")
  BY DEF CatalogInit, Init, At, Idle
<1>4. cache = None /\ \A i \in Invitations : granted[i] = {}
  BY DEF CatalogInit, Init
<1>5. WindowOK
  <2>1. \A i \in Invitations : InWin(i) \subseteq stamps[i] /\ Cardinality(InWin(i)) <= UploadLimit
    BY <1>1, <1>2
  <2>. QED BY ONLY <1>3, <1>4, <2>1 DEF WindowOK
<1>. QED BY <1>5, InitTypeInv, InitAlone DEF WindowInv

\* A step that leaves the window alone and brings no call to its second half.
LEMMA WindowStays ==
  ASSUME WindowInv, UNCHANGED window, disturbed => disturbed',
         \A w \in Workers : calls'[w] = calls[w] \/ calls'[w].pc # "storeStamp"
  PROVE  WindowOK'
<1>1. \A i : InWin(i)' = InWin(i)
  BY DEF InWin, InWindow, window
<1>2. cache' = cache /\ stamps' = stamps /\ granted' = granted
  BY DEF window
<1>. QED BY <1>1, <1>2 DEF WindowInv, WindowOK, At

LEMMA GuestUploadWindow ==
  ASSUME WindowInv, NEW w \in Workers, NEW i \in Invitations, GuestUpload(w, i)
  PROVE  WindowOK'
<1>1. PICK now : now = begun + 1
  OBVIOUS
<1>2. PICK recent : recent = {s \in stamps[i] : InWindow(s)}
  OBVIOUS
<1>3. PICK n : n = Cardinality(recent)
  OBVIOUS
<1>4. oldest' = oldest /\ cache \in {None, cache'}
  BY DEF GuestUpload
<1>5. begun \in Nat /\ recent \subseteq 1 .. begun /\ n \in Nat /\ UploadLimit \in Nat
      /\ stamps \in [Invitations -> SUBSET (1 .. begun)] /\ granted \in [Invitations -> SUBSET (1 .. begun)]
  <2>1. begun \in Nat /\ stamps \in [Invitations -> SUBSET (1 .. begun)]
        /\ granted \in [Invitations -> SUBSET (1 .. begun)]
    BY DEF WindowInv, TypeInv, StoresOK
  <2>2. recent \subseteq 1 .. begun
    BY <1>2, <2>1
  <2>. QED BY <1>3, <2>1, <2>2, StampsFinite, MediaAssumption
<1>6. cache = "redis" \/ ~disturbed \/ cache = None =>
          /\ \A j \in Invitations : InWin(j) \subseteq stamps[j] /\ Cardinality(InWin(j)) <= UploadLimit
          /\ InWin(i) \subseteq recent
  <2>1. cache = None => \A j \in Invitations : InWin(j) = {}
    BY DEF WindowInv, WindowOK, InWin
  <2>2. Cardinality({}) <= UploadLimit
    BY <1>5, FS_EmptySet
  <2>3. cache = "redis" \/ ~disturbed \/ cache = None =>
            \A j \in Invitations : InWin(j) \subseteq stamps[j] /\ Cardinality(InWin(j)) <= UploadLimit
    BY <2>1, <2>2 DEF WindowInv, WindowOK
  <2>4. InWin(i) \subseteq stamps[i] => InWin(i) \subseteq recent
    BY <1>2 DEF InWin
  <2>. QED BY <2>3, <2>4
<1>7. CASE /\ cache' = "redis"
           /\ stamps' = [stamps EXCEPT ![i] = recent \cup {now}]
           /\ granted' = [granted EXCEPT ![i] = IF TooMany(n + 1) THEN @ ELSE @ \cup {now}]
           /\ Begin(w, IF TooMany(n + 1) THEN Idle
                       ELSE [Idle EXCEPT !.op = "guest", !.pc = "readGallery", !.inv = i])
  <2>1. PICK k : k = IF TooMany(n + 1) THEN Idle
                     ELSE [Idle EXCEPT !.op = "guest", !.pc = "readGallery", !.inv = i]
    OBVIOUS
  <2>2. IsCall(k) /\ k.pc \in {"idle", "readGallery"}
    BY <2>1 DEF IsCall, Idle
  <2>3. Begin(w, k)
    BY <1>7, <2>1
  <2>4. cache # "memory" /\ (cache = "redis" \/ cache = None)
    BY <1>4, <1>7, MediaAssumption
  <2>5. \A v \in Workers : ~At(v, "storeStamp")'
    <3>1. \A v \in Workers : calls[v].pc # "storeStamp"
      BY <2>4 DEF WindowInv, WindowOK, At
    <3>2. calls'[w].pc = k.pc /\ \A v \in Workers : v # w => calls'[v] = calls[v]
      BY <2>2, <2>3, Begun DEF WindowInv
    <3>. QED BY <2>2, <3>1, <3>2 DEF At
  <2>6. ASSUME NEW j \in Invitations, j # i
        PROVE  InWin(j)' \subseteq stamps'[j] /\ Cardinality(InWin(j)') <= UploadLimit
    <3>1. InWin(j)' = InWin(j) /\ stamps'[j] = stamps[j]
      BY <1>4, <1>5, <1>7, <2>6 DEF InWin, InWindow
    <3>. QED BY <1>6, <2>4, <3>1
  <2>7. InWin(i)' \subseteq recent \cup {now} /\ stamps'[i] = recent \cup {now}
    <3>1. granted'[i] \subseteq granted[i] \cup {now} /\ stamps'[i] = recent \cup {now}
      BY <1>5, <1>7
    <3>2. InWin(i)' \subseteq InWin(i) \cup {now}
      BY <1>4, <3>1 DEF InWin, InWindow
    <3>. QED BY <1>6, <2>4, <3>1, <3>2
  <2>8. Cardinality(InWin(i)') <= UploadLimit
    <3>1. CASE TooMany(n + 1)
      <4>1. InWin(i)' = InWin(i)
        BY <1>4, <1>5, <1>7, <3>1 DEF InWin, InWindow
      <4>. QED BY <1>6, <2>4, <4>1
    <3>2. CASE ~TooMany(n + 1)
      <4>1. Cardinality(recent) + 1 <= UploadLimit
        BY <1>3, <1>5, <3>2 DEF TooMany
      <4>. QED BY <1>5, <2>7, <4>1, OneUpload
    <3>. QED BY <3>1, <3>2
  <2>9. cache' # None /\ cache' # "memory"
    BY <1>7, MediaAssumption
  <2>. QED BY <2>5, <2>6, <2>7, <2>8, <2>9 DEF WindowOK
<1>8. CASE /\ cache' = "memory" /\ ~TooMany(n + 1)
           /\ Begin(w, [Idle EXCEPT !.op = "guest", !.pc = "storeStamp", !.inv = i,
                                    !.stamp = now, !.used = recent])
           /\ UNCHANGED <<stamps, granted>>
  <2>1. PICK k : k = [Idle EXCEPT !.op = "guest", !.pc = "storeStamp", !.inv = i,
                                  !.stamp = now, !.used = recent]
    OBVIOUS
  <2>2. IsCall(k) /\ k.inv = i /\ k.used = recent
    BY <2>1 DEF IsCall, Idle
  <2>3. /\ calls'[w].inv = i /\ calls'[w].used = recent
        /\ \A v \in Workers : v # w => calls'[v] = calls[v]
        /\ disturbed' = (disturbed \/ ~Quiet)
    <3>1. Begin(w, k)
      BY <1>8, <2>1
    <3>. QED BY <2>2, <3>1, Begun DEF WindowInv
  <2>4. cache' # None /\ cache' # "redis"
    BY <1>8, MediaAssumption
  <2>5. \A j : InWin(j)' = InWin(j)
    BY <1>4, <1>8 DEF InWin, InWindow
  <2>6. ~disturbed' => \A j \in Invitations : InWin(j)' \subseteq stamps'[j] /\ Cardinality(InWin(j)') <= UploadLimit
    BY <1>6, <1>8, <2>3, <2>5
  <2>7. ~disturbed' => \A v \in Workers : At(v, "storeStamp")' => v = w
    BY <2>3 DEF Quiet, At
  <2>8. ~disturbed' => InWin(i)' \subseteq recent /\ Cardinality(recent) + 1 <= UploadLimit
    <3>1. Cardinality(recent) + 1 <= UploadLimit
      <4>1. ~(n + 1 > UploadLimit)
        BY <1>8 DEF TooMany
      <4>. QED BY ONLY <1>3, <1>5, <4>1
    <3>2. ~disturbed' => ~disturbed
      BY <2>3
    <3>. QED BY <1>6, <2>5, <3>1, <3>2
  <2>9. ~disturbed' => \A v \in Workers : At(v, "storeStamp")' =>
               /\ InWin(calls[v].inv)' \subseteq calls'[v].used
               /\ Cardinality(calls'[v].used) + 1 <= UploadLimit
    BY <2>3, <2>7, <2>8
  <2>. QED BY <1>8, <2>4, <2>6, <2>9 DEF WindowOK
<1>9. \/ /\ cache' = "redis"
         /\ stamps' = [stamps EXCEPT ![i] = recent \cup {now}]
         /\ granted' = [granted EXCEPT ![i] = IF TooMany(n + 1) THEN @ ELSE @ \cup {now}]
         /\ Begin(w, IF TooMany(n + 1) THEN Idle
                     ELSE [Idle EXCEPT !.op = "guest", !.pc = "readGallery", !.inv = i])
      \/ /\ cache' = "memory" /\ ~TooMany(n + 1)
         /\ Begin(w, [Idle EXCEPT !.op = "guest", !.pc = "storeStamp", !.inv = i,
                                  !.stamp = now, !.used = recent])
         /\ UNCHANGED <<stamps, granted>>
  BY <1>1, <1>2, <1>3 DEF GuestUpload
<1>. QED BY <1>7, <1>8, <1>9

LEMMA StoreStampWindow ==
  ASSUME WindowInv, NEW w \in Workers, StoreStamp(w)
  PROVE  WindowOK'
<1>1. PICK i : i = calls[w].inv
  OBVIOUS
<1>2. PICK now : now = calls[w].stamp
  OBVIOUS
<1>3. PICK used : used = calls[w].used
  OBVIOUS
<1>4. PICK k : k = [calls[w] EXCEPT !.pc = "readGallery", !.used = {}, !.stamp = 0]
  OBVIOUS
<1>5. k.pc = "readGallery"
  BY <1>4, Mine DEF WindowInv, IsCall, Idle
<1>6. Fits(calls[w], begun, Len(templates)) /\ calls[w].op = "guest"
  <2>1. IsCall(calls[w]) /\ OnItsWay(calls[w]) /\ HasRead(calls[w], begun, Len(templates))
    BY Mine DEF WindowInv
  <2>2. calls[w].pc = "storeStamp"
    BY DEF StoreStamp, At
  <2>. QED BY <2>1, <2>2 DEF Fits, OnItsWay
<1>7. i \in Invitations /\ used \subseteq 1 .. begun
  BY <1>1, <1>3, <1>6 DEF Fits, HasRead, StoreStamp, At
<1>8. begun \in Nat /\ stamps \in [Invitations -> SUBSET (1 .. begun)]
      /\ granted \in [Invitations -> SUBSET (1 .. begun)] /\ DOMAIN calls = Workers
  BY DEF WindowInv, TypeInv, StoresOK
<1>9. /\ stamps' = [stamps EXCEPT ![i] = used \cup {now}]
      /\ granted' = [granted EXCEPT ![i] = @ \cup {now}]
      /\ calls' = [calls EXCEPT ![w] = k] /\ disturbed' = disturbed
      /\ cache' = cache /\ oldest' = oldest /\ At(w, "storeStamp")
  BY <1>1, <1>2, <1>3, <1>4 DEF StoreStamp, Continue
<1>10. cache' = "memory"
  BY <1>8, <1>9 DEF WindowInv, WindowOK, TypeInv, StoresOK
<1>11. CASE ~disturbed
  <2>1. InWin(i) \subseteq used /\ Cardinality(used) + 1 <= UploadLimit
    BY <1>1, <1>3, <1>9, <1>11 DEF WindowInv, WindowOK
  <2>2. InWin(i)' \subseteq used \cup {now} /\ stamps'[i] = used \cup {now}
    <3>1. granted'[i] = granted[i] \cup {now} /\ stamps'[i] = used \cup {now}
      BY <1>7, <1>8, <1>9
    <3>. QED BY <1>9, <2>1, <3>1 DEF InWin, InWindow
  <2>3. Cardinality(InWin(i)') <= UploadLimit
    BY <1>7, <1>8, <2>1, <2>2, OneUpload
  <2>4. ASSUME NEW j \in Invitations, j # i
        PROVE  InWin(j)' \subseteq stamps'[j] /\ Cardinality(InWin(j)') <= UploadLimit
    <3>1. InWin(j)' = InWin(j) /\ stamps'[j] = stamps[j]
      BY <1>8, <1>9, <2>4 DEF InWin, InWindow
    <3>2. InWin(j) \subseteq stamps[j] /\ Cardinality(InWin(j)) <= UploadLimit
      BY <1>11 DEF WindowInv, WindowOK
    <3>. QED BY <3>1, <3>2
  <2>5. \A v \in Workers : ~At(v, "storeStamp")'
    BY <1>5, <1>8, <1>9, <1>11 DEF At, Alone, WindowInv
  <2>. QED BY <1>10, <2>2, <2>3, <2>4, <2>5, MediaAssumption DEF WindowOK
<1>12. CASE disturbed
  BY <1>9, <1>10, <1>12, MediaAssumption DEF WindowOK
<1>. QED BY <1>11, <1>12

LEMMA MinutePassesWindow ==
  ASSUME WindowInv, NEW now \in 1 .. MaxCalls, MinutePasses(now)
  PROVE  WindowOK'
<1>1. /\ oldest' = now /\ now > oldest /\ oldest \in Nat
      /\ UNCHANGED <<cache, stamps, granted, calls, disturbed>>
  BY DEF MinutePasses, TimeOut, InWindow, WindowInv, TypeInv, StoresOK
<1>2. begun \in Nat /\ granted \in [Invitations -> SUBSET (1 .. begun)]
  BY DEF WindowInv, TypeInv, StoresOK
<1>3. ASSUME NEW j \in Invitations PROVE InWin(j)' \subseteq InWin(j) /\ InWin(j) \subseteq 1 .. begun
  <2>1. \A s \in 1 .. begun : s > now => s > oldest
    BY <1>1, <1>2
  <2>. QED BY <1>1, <1>2, <2>1 DEF InWin, InWindow
<1>4. ASSUME NEW j \in Invitations, Cardinality(InWin(j)) <= UploadLimit
      PROVE  Cardinality(InWin(j)') <= UploadLimit
  <2>1. IsFiniteSet(InWin(j)) /\ Cardinality(InWin(j)) \in Nat
    BY <1>2, <1>3, StampsFinite
  <2>2. IsFiniteSet(InWin(j)') /\ Cardinality(InWin(j)') <= Cardinality(InWin(j))
    BY <1>3, <2>1, FS_Subset
  <2>. QED BY <1>4, <2>1, <2>2, FS_CardinalityType, MediaAssumption
<1>5. \A w \in Workers : At(w, "storeStamp") => calls[w].inv \in Invitations
  BY Mine DEF At, WindowInv, Fits, HasRead, OnItsWay
<1>. QED BY <1>1, <1>3, <1>4, <1>5 DEF WindowInv, WindowOK, At

LEMMA NextWindow == WindowInv /\ [Next]_vars => WindowInv'
<1> SUFFICES ASSUME WindowInv, [Next]_vars PROVE WindowOK'
  BY NextTypeInv, NextAlone DEF WindowInv
<1>1. ASSUME NEW w \in Workers, Start(w) PROVE WindowOK'
  <2>1. PICK k : Started(w, k)
    BY <1>1, StartsAt DEF WindowInv
  <2>2. CASE \E i \in Invitations : GuestUpload(w, i)
    BY <2>2, GuestUploadWindow
  <2>3. CASE UNCHANGED window /\ k.op # "guest"
    <3>1. Begin(w, k) /\ IsCall(k) /\ k.pc # "storeStamp"
      BY <2>1, <2>3 DEF Started, FirstReads, Idle
    <3>2. /\ calls'[w].pc # "storeStamp" /\ \A v \in Workers : v # w => calls'[v] = calls[v]
          /\ disturbed => disturbed'
      BY <3>1, Begun DEF WindowInv
    <3>. QED BY <2>3, <3>2, WindowStays
  <2>. QED BY <2>1, <2>2, <2>3 DEF Started
<1>2. ASSUME NEW w \in Workers, Step(w) PROVE WindowOK'
  <2>1. CASE StoreStamp(w)
    BY <2>1, StoreStampWindow
  <2>2. CASE ~StoreStamp(w)
    <3>1. UNCHANGED window
      BY <1>2, <2>2 DEF Step, MediaStep, mediaVars, ReadGallery, PutObject, InsertRow, Push, SetAvatar,
           ReadInvitation, DeleteObject, DeleteRow, RequestFails, WriteInvitation, ReadTemplates,
           ReadOld, ReadInvitations, ScriptRow, WritePreview, ReadMoments, WriteMoments,
           InsertTemplate, WriteTemplate, FillShelf, DropAll, DropActive, DropDetail, DropList,
           ReadReview, Upsert, Remove, DropReviews
    <3>2. Moved(w)
      BY <1>2, StepMoves DEF WindowInv
    <3>3. \A v \in Workers : calls'[v] = calls[v] \/ calls'[v].pc # "storeStamp"
      BY <3>2 DEF Moved, GoesOn, FirstSteps, WindowInv, TypeInv
    <3>4. disturbed => disturbed'
      BY <3>2 DEF Moved
    <3>. QED BY <3>1, <3>3, <3>4, WindowStays
  <2>. QED BY <2>1, <2>2
<1>3. CASE \E w \in Workers : Fail(w)
  <2>1. PICK w \in Workers : Fail(w)
    BY <1>3
  <2>2. UNCHANGED window /\ disturbed' /\ calls' = [calls EXCEPT ![w] = Idle]
    BY <2>1 DEF Fail, mediaVars
  <2>3. \A v \in Workers : calls'[v] = calls[v] \/ calls'[v].pc # "storeStamp"
    BY <2>2 DEF Idle, WindowInv, TypeInv
  <2>. QED BY <2>2, <2>3, WindowStays
<1>4. CASE (\E k \in Files : GrowOld(k)) \/ (\E key \in ShelfKeys : ShelfExpires(key))
  <2>1. UNCHANGED <<window, calls, disturbed>>
    BY <1>4 DEF GrowOld, ShelfExpires, TimeOut, mediaVars
  <2>. QED BY <2>1, WindowStays
<1>5. CASE \E now \in 1 .. MaxCalls : MinutePasses(now)
  BY <1>5, MinutePassesWindow
<1>6. CASE UNCHANGED vars
  <2>1. UNCHANGED <<window, calls, disturbed>>
    BY <1>6 DEF vars, mediaVars
  <2>. QED BY <2>1, WindowStays
<1>. QED BY <1>1, <1>2, <1>3, <1>4, <1>5, <1>6 DEF Next, TimePasses

\* In Redis a guest never gets more uploads than the limit in a minute, whatever
\* calls overlap; without Redis that holds as long as calls come one at a time
\* (checkUploadLimit of src/src/invitation/invitation.service.ts).
THEOREM UploadsHold == Spec => []UploadsInWindow
<1>1. WindowInv => UploadsInWindow
  BY DEF WindowInv, WindowOK, UploadsInWindow, InWin
<1>. QED BY InitWindow, NextWindow, <1>1, PTL DEF Spec
-----------------------------------------------------------------------------
(* Reviews that an administrator removed *)

\* A review that was found writable stays so while its call is alone.
RemovedOK ==
    ~disturbed =>
        /\ \A p \in Purchases : reviews[p].removed => reviews[p].text = Placeholder
        /\ \A w \in Workers : At(w, "upsert") => ~reviews[calls[w].given[1]].removed

RemovedInv == TypeInv /\ Alone /\ RemovedOK

LEMMA InitRemoved == CatalogInit => RemovedInv
<1>1. CatalogInit => RemovedOK
  BY DEF CatalogInit, Init, RemovedOK, At, Idle, NoReview
<1>. QED BY <1>1, InitTypeInv, InitAlone DEF RemovedInv

LEMMA RemovedStays ==
  ASSUME RemovedInv, UNCHANGED reviews, disturbed => disturbed',
         \A w \in Workers : calls'[w] = calls[w] \/ calls'[w].pc # "upsert"
  PROVE  RemovedOK'
  BY DEF RemovedInv, RemovedOK, At

\* While a call is alone, no other one is at its upsert.
LEMMA AloneMoves ==
  ASSUME TypeInv, Alone, NEW w \in Workers, Moved(w), ~disturbed
  PROVE  \A v \in Workers : v # w => calls'[v] = calls[v] /\ calls[v].pc = "idle"
  BY DEF Moved, Alone, At, TypeInv

LEMMA ReviewWritten ==
  ASSUME RemovedInv, NEW w \in Workers, Upsert(w) \/ Remove(w)
  PROVE  RemovedOK'
<1>1. CASE disturbed
  BY <1>1 DEF Upsert, Remove, Goto, Continue, RemovedOK
<1>2. CASE ~disturbed
  <2>1. PICK p : p = calls[w].given[1]
    OBVIOUS
  <2>2. p \in Purchases
    BY <2>1, Mine DEF RemovedInv, Fits, HasRead, OnItsWay, Upsert, Remove, At
  <2>3. reviews \in [Purchases -> Reviews \cup {NoReview}]
    BY DEF RemovedInv, TypeInv, StoresOK
  <2>4. Moved(w)
    BY StepMoves DEF RemovedInv, Step
  <2>5. calls'[w].pc = "dropReviews"
    BY Mine DEF RemovedInv, TypeInv, Upsert, Remove, Goto, Continue, IsCall, Idle
  <2>6. \A v \in Workers : ~At(v, "upsert")'
    BY <1>2, <2>4, <2>5, AloneMoves DEF RemovedInv, At
  <2>7. \A q \in Purchases : q # p => reviews'[q] = reviews[q]
    BY <2>1, <2>3 DEF Upsert, Remove
  <2>8. reviews'[p].removed => reviews'[p].text = Placeholder
    <3>1. CASE Upsert(w)
      <4>1. ~reviews[p].removed
        BY <1>2, <2>1, <3>1 DEF RemovedInv, RemovedOK, Upsert
      <4>2. PICK r : r = reviews[p]
        OBVIOUS
      <4>3. r \in Reviews \cup {NoReview}
        BY <2>2, <2>3, <4>2
      <4>4. PICK text : text = calls[w].given[2]
        OBVIOUS
      <4>5. reviews'[p] = [r EXCEPT !.text = text]
        BY <2>1, <2>2, <2>3, <3>1, <4>2, <4>4 DEF Upsert
      <4>6. reviews'[p].removed = r.removed
        BY <4>3, <4>5 DEF Reviews, NoReview
      <4>. QED BY <4>1, <4>2, <4>6
    <3>2. CASE Remove(w)
      BY <2>1, <2>2, <2>3, <3>2 DEF Remove
    <3>. QED BY <3>1, <3>2
  <2>9. \A q \in Purchases : reviews'[q].removed => reviews'[q].text = Placeholder
    BY <1>2, <2>7, <2>8 DEF RemovedInv, RemovedOK
  <2>. QED BY <2>6, <2>9 DEF RemovedOK
<1>. QED BY <1>1, <1>2

LEMMA ReviewRead ==
  ASSUME RemovedInv, NEW w \in Workers, ReadReview(w)
  PROVE  RemovedOK'
<1>1. PICK pc \in {"idle", "upsert"} :
          /\ pc = "upsert" => Writable(calls[w].given[1])
          /\ calls' = [calls EXCEPT ![w] = IF pc = "idle" THEN Idle ELSE [calls[w] EXCEPT !.pc = pc]]
          /\ UNCHANGED <<reviews, disturbed>>
  BY DEF ReadReview, Goto, Return, Continue, catalogVars
<1>2. CASE pc = "idle"
  <2>1. \A v \in Workers : calls'[v] = calls[v] \/ calls'[v].pc # "upsert"
    BY <1>1, <1>2 DEF Idle, RemovedInv, TypeInv
  <2>. QED BY <1>1, <2>1, RemovedStays
<1>3. CASE pc = "upsert"
  <2>1. calls'[w].given = calls[w].given /\ \A v \in Workers : v # w => calls'[v] = calls[v]
    BY <1>1, <1>3, Mine DEF IsCall, Idle, RemovedInv, TypeInv
  <2>2. ~reviews'[calls'[w].given[1]].removed
    BY <1>1, <1>3, <2>1 DEF Writable
  <2>. QED BY <1>1, <2>1, <2>2 DEF RemovedInv, RemovedOK, At
<1>. QED BY <1>1, <1>2, <1>3

LEMMA NextRemoved == RemovedInv /\ [Next]_vars => RemovedInv'
<1> SUFFICES ASSUME RemovedInv, [Next]_vars PROVE RemovedOK'
  BY NextTypeInv, NextAlone DEF RemovedInv
<1>1. ASSUME NEW w \in Workers, Start(w) PROVE RemovedOK'
  <2>1. PICK k : Started(w, k)
    BY <1>1, StartsAt DEF RemovedInv
  <2>2. Begin(w, k) /\ IsCall(k) /\ k.pc # "upsert"
    BY <2>1 DEF Started, FirstReads, Idle
  <2>3. /\ calls'[w].pc # "upsert" /\ \A v \in Workers : v # w => calls'[v] = calls[v]
        /\ disturbed => disturbed'
    BY <2>2, Begun DEF RemovedInv
  <2>. QED BY <2>1, <2>3, RemovedStays DEF Started, catalogVars
<1>2. ASSUME NEW w \in Workers, Step(w), ~Upsert(w), ~Remove(w), ~ReadReview(w) PROVE RemovedOK'
  <2>1. Moved(w)
    BY <1>2, StepMoves DEF RemovedInv
  <2>2. UNCHANGED reviews
    BY <1>2 DEF Step, catalogVars, FillShelf, DropAll, DropActive, DropDetail, DropList, DropReviews
  <2>3. ~At(w, "readReview")
    BY <1>2, Mine DEF At, RemovedInv, OnItsWay, Step, MediaStep, StoreStamp, ReadGallery, PutObject,
       InsertRow, Push, SetAvatar, ReadInvitation, DeleteObject, DeleteRow, RequestFails,
       WriteInvitation, ReadTemplates, ReadOld, ReadInvitations, ScriptRow, WritePreview, ReadMoments,
       WriteMoments, InsertTemplate, WriteTemplate, FillShelf, DropAll, DropActive, DropDetail,
       DropList, DropReviews, Script
  <2>4. \A v \in Workers : calls'[v] = calls[v] \/ calls'[v].pc # "upsert"
    BY <2>1, <2>3 DEF Moved, GoesOn, RemovedInv, TypeInv, At
  <2>5. disturbed => disturbed'
    BY <2>1 DEF Moved
  <2>. QED BY <2>2, <2>4, <2>5, RemovedStays
<1>3. CASE \E w \in Workers : Fail(w)
  BY <1>3 DEF Fail, RemovedOK
<1>4. CASE \/ TimePasses /\ UNCHANGED catalogVars
           \/ \E key \in ShelfKeys : ShelfExpires(key)
  <2>1. UNCHANGED <<reviews, calls, disturbed>>
    BY <1>4 DEF TimePasses, GrowOld, MinutePasses, ShelfExpires, TimeOut, catalogVars
  <2>. QED BY <2>1, RemovedStays
<1>5. CASE UNCHANGED vars
  <2>1. UNCHANGED <<reviews, calls, disturbed>>
    BY <1>5 DEF vars, catalogVars
  <2>. QED BY <2>1, RemovedStays
<1>. QED BY <1>1, <1>2, <1>3, <1>4, <1>5, ReviewWritten, ReviewRead DEF Next

\* "This review was deleted by an admin and cannot be recreated"
\* (testimonial.service.ts:48), as long as calls come one at a time.
THEOREM RemovedHolds == Spec => []RemovedStaysRemoved
<1>1. RemovedInv => RemovedStaysRemoved
  BY DEF RemovedInv, RemovedOK, RemovedStaysRemoved
<1>. QED BY InitRemoved, NextRemoved, <1>1, PTL DEF Spec
-----------------------------------------------------------------------------
(* The cached lists *)

\* The keys that a call has changed and will drop.
Owes(c, key) ==
    \/ c.pc = "dropAll" /\ key \in {<<"all", 0>>, <<"active", 0>>}
    \/ c.pc = "dropActive" /\ key = <<"active", 0>>
    \/ c.pc \in {"dropAll", "dropActive", "dropDetail"} /\ c.op = "template" /\ key = <<"id", c.tmpl>>
    \/ c.pc = "dropReviews" /\ key = <<"reviews", 0>>

Ids == DOMAIN templates

\* The details of a template are shown once it is there.
DetailsExist ==
    /\ \A t \in TemplateIds : shelf[<<"id", t>>] # None => t \in Ids
    /\ \A w \in Workers, t \in TemplateIds :
          At(w, "fillShelf") /\ calls[w].given = <<"id", t>> => t \in Ids

\* A call that is alone drops what it changed and fills in what the database holds.
Informed ==
    ~disturbed /\ ~migrated =>
        /\ \A key \in ShelfKeys :
              shelf[key] \in {None, View(key)} \/ \E w \in Workers : Owes(calls[w], key)
        /\ \A w \in Workers : At(w, "fillShelf") => calls[w].view = View(calls[w].given)
        /\ \A w \in Workers : calls[w].op \notin Script

FreshInv == TypeInv /\ Alone /\ DetailsExist /\ Informed

LEMMA InitFresh == CatalogInit => FreshInv
<1> SUFFICES ASSUME CatalogInit PROVE DetailsExist /\ Informed
  BY InitTypeInv, InitAlone DEF FreshInv
<1>1. \A key \in ShelfKeys : shelf[key] = None
  BY DEF CatalogInit
<1>2. \A t \in TemplateIds : <<"id", t>> \in ShelfKeys
  BY DEF ShelfKeys, Detail
<1>3. \A w \in Workers : calls[w].pc = "idle" /\ calls[w].op = "none"
  BY DEF CatalogInit, Init, Idle
<1>. QED BY <1>1, <1>2, <1>3 DEF DetailsExist, Informed, At, Script

LEMMA FreshHolds == FreshInv => CatalogFresh
  BY DEF FreshInv, Informed, CatalogFresh, Quiet, At, Owes

\* What the lists show rests on the two tables.
LEMMA SameView ==
  ASSUME UNCHANGED <<templates, reviews>>
  PROVE  \A key : View(key)' = View(key)
  BY DEF View

\* The lists that a change of a table leaves as they were.
LEMMA OtherViews ==
  /\ UNCHANGED reviews => View(<<"reviews", 0>>)' = View(<<"reviews", 0>>)
  /\ UNCHANGED templates =>
         \A key \in ShelfKeys : key # <<"reviews", 0>> => View(key)' = View(key)
  /\ \A t : (t \in Ids <=> t \in Ids') /\ (t \in Ids => templates'[t] = templates[t])
                => View(<<"id", t>>)' = View(<<"id", t>>)
<1>1. UNCHANGED reviews => View(<<"reviews", 0>>)' = View(<<"reviews", 0>>)
  BY DEF View
<1>2. ASSUME UNCHANGED templates, NEW key \in ShelfKeys, key # <<"reviews", 0>>
      PROVE  View(key)' = View(key)
  <2>1. key[1] \in {"all", "active", "id"}
    BY <1>2 DEF ShelfKeys, Detail
  <2>. QED BY <1>2, <2>1 DEF View
<1>3. ASSUME NEW t, t \in Ids <=> t \in Ids', t \in Ids => templates'[t] = templates[t]
      PROVE  View(<<"id", t>>)' = View(<<"id", t>>)
  <2>1. View(<<"id", t>>) = {<<s, templates[s]>> : s \in Ids \cap {t}}
    BY DEF View, Ids
  <2>2. View(<<"id", t>>)' = {<<s, templates'[s]>> : s \in Ids' \cap {t}}
    BY DEF View, Ids
  <2>. QED BY <1>3, <2>1, <2>2
<1>. QED BY <1>1, <1>2, <1>3

\* A call that is alone goes on: each key is fresh, gone or owed.
LEMMA FreshGoesOn ==
  ASSUME FreshInv, NEW w \in Workers, Moved(w), migrated' = migrated,
         ~disturbed /\ ~migrated =>
             \A key \in ShelfKeys :
                 \/ shelf'[key] \in {None, View(key)'} \/ Owes(calls'[w], key)
                 \/ ~Owes(calls[w], key) /\ shelf'[key] = shelf[key] /\ View(key)' = View(key)
  PROVE  Informed'
<1>. SUFFICES ASSUME ~disturbed', ~migrated' PROVE Informed'
  BY DEF Informed
<1>1. ~disturbed /\ ~migrated
  BY DEF Moved
<1>2. \A v \in Workers : v # w => calls'[v] = calls[v] /\ calls[v].pc = "idle"
  BY <1>1, AloneMoves DEF FreshInv
<1>. DEFINE V(key) == View(key)
<1>. HIDE DEF V
<1>3. \A key \in ShelfKeys : shelf[key] \in {None, V(key)} \/ Owes(calls[w], key)
  <2>1. \A v \in Workers : v # w => \A key : ~Owes(calls[v], key)
    BY <1>2 DEF Owes
  <2>. QED BY <1>1, <2>1 DEF FreshInv, Informed, V
<1>4. \A key \in ShelfKeys : shelf'[key] \in {None, V(key)'} \/ Owes(calls'[w], key)
  BY <1>1, <1>3 DEF V
<1>5. calls'[w].pc # "fillShelf" /\ calls'[w].op \notin Script
  BY <1>1 DEF Moved, GoesOn, FirstSteps, FreshInv, Informed, TypeInv, Script
<1>6. \A v \in Workers : ~At(v, "fillShelf")'
  BY <1>2, <1>5 DEF At
<1>7. \A v \in Workers : calls'[v].op \notin Script
  BY <1>1, <1>2, <1>5 DEF FreshInv, Informed
<1>8. \A key \in ShelfKeys : shelf'[key] \in {None, V(key)'} \/ \E v \in Workers : Owes(calls[v], key)'
  BY <1>4 DEF Owes
<1>. QED BY <1>6, <1>7, <1>8 DEF Informed, V

LEMMA DetailsStay ==
  ASSUME FreshInv, Ids \subseteq Ids',
         \A t \in TemplateIds : shelf'[<<"id", t>>] \in {None, shelf[<<"id", t>>]},
         \A w \in Workers : calls'[w].pc = "fillShelf" => calls'[w] = calls[w]
  PROVE  DetailsExist'
  BY DEF FreshInv, DetailsExist, At, TemplateIds

\* Nothing happens to tables, keys and calls.
LEMMA FreshStays ==
  ASSUME FreshInv, UNCHANGED <<templates, reviews, calls, disturbed, migrated>>,
         \A key \in ShelfKeys : shelf'[key] \in {None, shelf[key]}
  PROVE  DetailsExist' /\ Informed'
<1>1. DetailsExist'
  <2>1. \A t \in TemplateIds : <<"id", t>> \in ShelfKeys
    BY DEF ShelfKeys, Detail
  <2>. QED BY <2>1, DetailsStay DEF Ids
<1>2. \A key \in ShelfKeys : View(key)' = View(key)
  BY OtherViews
<1>. DEFINE V(key) == View(key)
<1>. HIDE DEF V
<1>3. \A key \in ShelfKeys : V(key)' = V(key)
  BY <1>2 DEF V
<1>4. ASSUME ~disturbed, ~migrated
      PROVE  /\ \A w \in Workers : At(w, "fillShelf") => calls[w].view = V(calls[w].given)
             /\ \A key \in ShelfKeys : shelf[key] \in {None, V(key)} \/ \E w \in Workers : Owes(calls[w], key)
             /\ \A w \in Workers : calls[w].op \notin Script
  BY <1>4 DEF FreshInv, Informed, V
<1>5. \A w \in Workers : At(w, "fillShelf") => calls[w].given \in ShelfKeys
  BY Mine DEF FreshInv, OnItsWay, HasRead, At
<1>. QED BY <1>1, <1>3, <1>4, <1>5 DEF Informed, V, At, Owes

\* No step leads to filling in a key.
LEMMA NotFilling ==
  ASSUME TypeInv, NEW w \in Workers, Moved(w)
  PROVE  \A v \in Workers : calls'[v].pc = "fillShelf" => calls'[v] = calls[v]
  BY DEF Moved, GoesOn, FirstSteps, TypeInv

LEMMA SilentFresh ==
  ASSUME FreshInv, NEW w \in Workers, Moved(w), UNCHANGED <<templates, reviews, shelf, migrated>>,
         calls[w].pc \notin {"dropAll", "dropActive", "dropDetail", "dropReviews"}
  PROVE  DetailsExist' /\ Informed'
<1>1. DetailsExist'
  BY NotFilling, DetailsStay DEF FreshInv, Ids
<1>2. \A key \in ShelfKeys : View(key)' = View(key) /\ shelf'[key] = shelf[key] /\ ~Owes(calls[w], key)
  BY OtherViews DEF Owes
<1>3. Informed'
  BY <1>2, FreshGoesOn
<1>. QED BY <1>1, <1>3

LEMMA MediaStepFresh ==
  ASSUME FreshInv, NEW w \in Workers, MediaStep(w), UNCHANGED catalogVars,
         ~InsertTemplate(w), ~WriteTemplate(w), ~WritePreview(w)
  PROVE  DetailsExist' /\ Informed'
<1>1. UNCHANGED <<templates, reviews, shelf, migrated>>
  BY DEF MediaStep, catalogVars, mediaVars, refs, history, StoreStamp, ReadGallery, PutObject,
     InsertRow, Push, SetAvatar, ReadInvitation, DeleteObject, DeleteRow, RequestFails,
     WriteInvitation, ReadTemplates, ReadOld, ReadInvitations, ScriptRow, ReadMoments, WriteMoments
<1>2. Moved(w)
  BY StepMoves DEF FreshInv, Step
<1>3. calls[w].pc \notin {"dropAll", "dropActive", "dropDetail", "dropReviews"}
  BY Mine DEF At, FreshInv, OnItsWay, MediaStep, StoreStamp, ReadGallery, PutObject, Script,
     InsertRow, Push, SetAvatar, ReadInvitation, DeleteObject, DeleteRow, RequestFails,
     WriteInvitation, ReadTemplates, ReadOld, ReadInvitations, ScriptRow, ReadMoments, WriteMoments
<1>. QED BY <1>1, <1>2, <1>3, SilentFresh

LEMMA WritePreviewFresh ==
  ASSUME FreshInv, NEW w \in Workers, WritePreview(w), UNCHANGED catalogVars
  PROVE  DetailsExist' /\ Informed'
<1>1. Moved(w)
  BY StepMoves DEF FreshInv, Step, MediaStep
<1>2. calls[w].op \in Script
  BY Mine DEF FreshInv, OnItsWay, WritePreview, At, Script
<1>3. Ids' = Ids /\ migrated' = migrated /\ shelf' = shelf
  BY DEF WritePreview, Ids, history, catalogVars
<1>4. DetailsExist'
  BY <1>1, <1>3, NotFilling, DetailsStay DEF FreshInv
<1>5. disturbed \/ migrated
  BY <1>2 DEF FreshInv, Informed
<1>6. Informed'
  BY <1>1, <1>3, <1>5 DEF Informed, Moved
<1>. QED BY <1>4, <1>6

\* A new template shows in both lists; nobody has asked for it yet.
LEMMA InsertTemplateFresh ==
  ASSUME FreshInv, NEW w \in Workers, InsertTemplate(w), UNCHANGED catalogVars
  PROVE  DetailsExist' /\ Informed'
<1>1. Moved(w)
  BY StepMoves DEF FreshInv, Step, MediaStep
<1>2. PICK row : templates' = Append(templates, row)
  BY DEF InsertTemplate
<1>3. templates \in Seq(TemplateRows)
  BY DEF FreshInv, TypeInv, StoresOK
<1>4. /\ Len(templates) \in Nat /\ Ids = 1 .. Len(templates) /\ Ids' = 1 .. Len(templates) + 1
      /\ \A t \in Ids : templates'[t] = templates[t]
  BY <1>2, <1>3 DEF Ids
<1>5. UNCHANGED <<reviews, shelf, migrated>>
  BY DEF InsertTemplate, catalogVars, history
<1>6. DetailsExist'
  <2>1. Ids \subseteq Ids'
    BY <1>4
  <2>. QED BY <1>1, <1>5, <2>1, NotFilling, DetailsStay DEF FreshInv
<1>7. calls'[w].pc = "dropAll" /\ calls[w].pc = "insertTemplate"
  BY Mine DEF FreshInv, TypeInv, InsertTemplate, Goto, Continue, IsCall, Idle, At
<1>8. ASSUME NEW key \in ShelfKeys
      PROVE  \/ shelf'[key] \in {None, View(key)'} \/ Owes(calls'[w], key)
             \/ ~Owes(calls[w], key) /\ shelf'[key] = shelf[key] /\ View(key)' = View(key)
  <2>1. ~Owes(calls[w], key) /\ shelf'[key] = shelf[key]
    BY <1>5, <1>7 DEF Owes
  <2>2. CASE key \in {<<"all", 0>>, <<"active", 0>>}
    BY <1>7, <2>2 DEF Owes
  <2>3. CASE key = <<"reviews", 0>>
    BY <1>5, <2>1, <2>3, OtherViews
  <2>4. CASE key \in Detail
    <3>1. PICK t \in TemplateIds : key = <<"id", t>>
      BY <2>4 DEF Detail
    <3>2. CASE t = Len(templates) + 1
      <4>1. t \notin Ids
        BY <1>4, <3>2
      <4>. QED BY <1>5, <3>1, <4>1 DEF FreshInv, DetailsExist
    <3>3. CASE t # Len(templates) + 1
      <4>1. t \in Nat
        BY MediaAssumption DEF TemplateIds
      <4>2. t \in Ids <=> t \in Ids'
        BY <1>4, <3>3, <4>1
      <4>. QED BY <1>4, <2>1, <3>1, <4>2, OtherViews
    <3>. QED BY <3>2, <3>3
  <2>. QED BY <2>2, <2>3, <2>4 DEF ShelfKeys
<1>9. Informed'
  BY <1>1, <1>5, <1>8, FreshGoesOn
<1>. QED BY <1>6, <1>9

LEMMA WriteTemplateFresh ==
  ASSUME FreshInv, NEW w \in Workers, WriteTemplate(w), UNCHANGED catalogVars
  PROVE  DetailsExist' /\ Informed'
<1>1. Moved(w)
  BY StepMoves DEF FreshInv, Step, MediaStep
<1>2. PICK row, i : templates' = [templates EXCEPT ![i] = row] /\ i = calls[w].tmpl
  BY DEF WriteTemplate
<1>3. Ids' = Ids /\ \A t \in Ids : t # i => templates'[t] = templates[t]
  BY <1>2 DEF Ids
<1>5. UNCHANGED <<reviews, shelf, migrated>>
  BY DEF WriteTemplate, catalogVars, history
<1>6. DetailsExist'
  BY <1>1, <1>3, <1>5, NotFilling, DetailsStay DEF FreshInv
<1>7. /\ calls'[w].pc = "dropAll" /\ calls[w].pc = "writeTemplate"
      /\ calls'[w].op = "template" /\ calls'[w].tmpl = i
  <2>1. IsCall(calls[w]) /\ calls[w].pc = "writeTemplate" /\ calls[w].op = "template"
    BY Mine DEF FreshInv, OnItsWay, WriteTemplate, At
  <2>2. calls' = [calls EXCEPT ![w] = [calls[w] EXCEPT !.pc = "dropAll"]]
    BY DEF WriteTemplate, Goto, Continue
  <2>. QED BY <1>2, <2>1, <2>2 DEF FreshInv, TypeInv, IsCall, Idle
<1>8. ASSUME NEW key \in ShelfKeys
      PROVE  \/ shelf'[key] \in {None, View(key)'} \/ Owes(calls'[w], key)
             \/ ~Owes(calls[w], key) /\ shelf'[key] = shelf[key] /\ View(key)' = View(key)
  <2>1. ~Owes(calls[w], key) /\ shelf'[key] = shelf[key]
    BY <1>5, <1>7 DEF Owes
  <2>2. CASE key \in {<<"all", 0>>, <<"active", 0>>}
    BY <1>7, <2>2 DEF Owes
  <2>3. CASE key = <<"reviews", 0>>
    BY <1>5, <2>1, <2>3, OtherViews
  <2>4. CASE key \in Detail
    <3>1. PICK t \in TemplateIds : key = <<"id", t>>
      BY <2>4 DEF Detail
    <3>2. CASE t = i
      BY <1>7, <3>1, <3>2 DEF Owes
    <3>3. CASE t # i
      BY <1>3, <2>1, <3>1, <3>3, OtherViews
    <3>. QED BY <3>2, <3>3
  <2>. QED BY <2>2, <2>3, <2>4 DEF ShelfKeys
<1>9. Informed'
  BY <1>1, <1>5, <1>8, FreshGoesOn
<1>. QED BY <1>6, <1>9

LEMMA ReviewFresh ==
  ASSUME FreshInv, NEW w \in Workers, Upsert(w) \/ Remove(w)
  PROVE  DetailsExist' /\ Informed'
<1>1. Moved(w)
  BY StepMoves DEF FreshInv, Step
<1>2. UNCHANGED <<templates, shelf, migrated>>
  BY DEF Upsert, Remove, mediaVars, refs, history
<1>3. DetailsExist'
  BY <1>1, <1>2, NotFilling, DetailsStay DEF FreshInv, Ids
<1>4. calls'[w].pc = "dropReviews" /\ calls[w].pc \in {"upsert", "remove"}
  BY Mine DEF FreshInv, TypeInv, Upsert, Remove, Goto, Continue, IsCall, Idle, At
<1>5. ASSUME NEW key \in ShelfKeys
      PROVE  \/ shelf'[key] \in {None, View(key)'} \/ Owes(calls'[w], key)
             \/ ~Owes(calls[w], key) /\ shelf'[key] = shelf[key] /\ View(key)' = View(key)
  <2>1. ~Owes(calls[w], key) /\ shelf'[key] = shelf[key]
    BY <1>2, <1>4 DEF Owes
  <2>2. CASE key = <<"reviews", 0>>
    BY <1>4, <2>2 DEF Owes
  <2>3. CASE key # <<"reviews", 0>>
    BY <1>2, <2>1, <2>3, OtherViews
  <2>. QED BY <2>2, <2>3
<1>6. Informed'
  BY <1>1, <1>2, <1>5, FreshGoesOn
<1>. QED BY <1>3, <1>6

\* A key is dropped; the call goes on to the next one it owes.
LEMMA DropFresh ==
  ASSUME FreshInv, NEW w \in Workers, DropAll(w) \/ DropActive(w) \/ DropDetail(w) \/ DropReviews(w)
  PROVE  DetailsExist' /\ Informed'
<1>1. Moved(w)
  BY StepMoves DEF FreshInv, Step
<1>2. UNCHANGED <<templates, reviews, migrated>> /\ DOMAIN shelf = ShelfKeys
  BY DEF DropAll, DropActive, DropDetail, DropReviews, DropList, mediaVars, refs, history, FreshInv,
     TypeInv, StoresOK
<1>3. /\ calls[w].pc \in {"dropAll", "dropActive", "dropDetail", "dropReviews"}
      /\ IsCall(calls[w]) /\ calls[w].pc = "dropDetail" => calls[w].op = "template"
  BY Mine DEF DropAll, DropActive, DropDetail, DropReviews, DropList, At, FreshInv, OnItsWay
<1>4. PICK gone : /\ shelf' = [shelf EXCEPT ![gone] = None]
                  /\ gone = IF calls[w].pc = "dropAll" THEN <<"all", 0>>
                            ELSE IF calls[w].pc = "dropActive" THEN <<"active", 0>>
                            ELSE IF calls[w].pc = "dropDetail" THEN <<"id", calls[w].tmpl>>
                            ELSE <<"reviews", 0>>
  BY DEF DropAll, DropActive, DropDetail, DropReviews, DropList, At
<1>5. \A key \in ShelfKeys : shelf'[key] = IF key = gone THEN None ELSE shelf[key]
  BY <1>2, <1>4
<1>6. DetailsExist'
  <2>1. \A t \in TemplateIds : <<"id", t>> \in ShelfKeys
    BY DEF ShelfKeys, Detail
  <2>. QED BY <1>1, <1>2, <1>5, <2>1, NotFilling, DetailsStay DEF FreshInv, Ids
<1>7. /\ calls[w].pc = "dropAll" => calls'[w] = [calls[w] EXCEPT !.pc = "dropActive"]
      /\ calls[w].pc = "dropActive" /\ calls[w].op = "template" =>
             calls'[w] = [calls[w] EXCEPT !.pc = "dropDetail"]
  BY DEF DropAll, DropActive, DropDetail, DropReviews, DropList, At, Goto, Continue, FreshInv, TypeInv
<1>8. /\ calls[w].pc = "dropAll" => /\ calls'[w].pc = "dropActive" /\ calls'[w].op = calls[w].op
                                    /\ calls'[w].tmpl = calls[w].tmpl
      /\ calls[w].pc = "dropActive" /\ calls[w].op = "template" =>
             /\ calls'[w].pc = "dropDetail" /\ calls'[w].op = calls[w].op
             /\ calls'[w].tmpl = calls[w].tmpl
  <2>1. ASSUME NEW pc, NEW k, k = [calls[w] EXCEPT !.pc = pc]
        PROVE  k.pc = pc /\ k.op = calls[w].op /\ k.tmpl = calls[w].tmpl
    BY <1>3, <2>1 DEF IsCall, Idle
  <2>. QED BY <1>7, <2>1
<1>9. \A key \in ShelfKeys : View(key)' = View(key)
  BY <1>2, OtherViews
<1>10. ASSUME NEW key \in ShelfKeys
       PROVE  \/ shelf'[key] \in {None, View(key)'} \/ Owes(calls'[w], key)
              \/ ~Owes(calls[w], key) /\ shelf'[key] = shelf[key] /\ View(key)' = View(key)
  <2>1. CASE key = gone
    BY <1>5, <2>1
  <2>2. CASE key # gone
    <3>1. Owes(calls[w], key) => Owes(calls'[w], key)
      BY <1>3, <1>4, <1>8, <2>2 DEF Owes
    <3>. QED BY <1>5, <1>9, <2>2, <3>1
  <2>. QED BY <2>1, <2>2
<1>11. Informed'
  BY <1>1, <1>2, <1>10, FreshGoesOn
<1>. QED BY <1>6, <1>11

LEMMA FillFresh ==
  ASSUME FreshInv, NEW w \in Workers, FillShelf(w)
  PROVE  DetailsExist' /\ Informed'
<1>1. Moved(w)
  BY StepMoves DEF FreshInv, Step
<1>2. UNCHANGED <<templates, reviews, migrated>> /\ DOMAIN shelf = ShelfKeys /\ At(w, "fillShelf")
  BY DEF FillShelf, mediaVars, refs, history, FreshInv, TypeInv, StoresOK
<1>3. PICK key : key = calls[w].given /\ shelf' = [shelf EXCEPT ![key] = calls[w].view]
  BY DEF FillShelf
<1>4. \A q \in ShelfKeys : shelf'[q] = IF q = key THEN calls[w].view ELSE shelf[q]
  BY <1>2, <1>3
<1>5. calls'[w] = Idle /\ Idle.pc = "idle"
  BY DEF FillShelf, Return, Continue, FreshInv, TypeInv, Idle
<1>6. \A v \in Workers : v # w => calls'[v] = calls[v]
  BY DEF FillShelf, Return, Continue, FreshInv, TypeInv
<1>7. DetailsExist'
  <2>1. \A t \in TemplateIds : <<"id", t>> \in ShelfKeys
    BY DEF ShelfKeys, Detail
  <2>2. ASSUME NEW t \in TemplateIds, shelf'[<<"id", t>>] # None PROVE t \in Ids
    BY <1>2, <1>3, <1>4, <2>1, <2>2 DEF FreshInv, DetailsExist
  <2>3. ASSUME NEW v \in Workers, NEW t \in TemplateIds, calls'[v].pc = "fillShelf",
               calls'[v].given = <<"id", t>>
        PROVE  t \in Ids
    BY <1>5, <1>6, <2>3 DEF FreshInv, DetailsExist, At
  <2>. QED BY <1>2, <2>2, <2>3 DEF DetailsExist, At, Ids
<1>8. ASSUME ~disturbed, ~migrated, NEW q \in ShelfKeys
      PROVE  \/ shelf'[q] \in {None, View(q)'} \/ Owes(calls'[w], q)
             \/ ~Owes(calls[w], q) /\ shelf'[q] = shelf[q] /\ View(q)' = View(q)
  <2>1. View(q)' = View(q) /\ ~Owes(calls[w], q)
    BY <1>2, OtherViews DEF Owes, At
  <2>2. q = key => shelf'[q] = View(q)
    BY <1>2, <1>3, <1>4, <1>8 DEF FreshInv, Informed
  <2>. QED BY <1>4, <2>1, <2>2
<1>9. Informed'
  BY <1>1, <1>2, <1>8, FreshGoesOn
<1>. QED BY <1>7, <1>9

LEMMA StartFresh ==
  ASSUME FreshInv, NEW w \in Workers, Start(w)
  PROVE  DetailsExist' /\ Informed'
<1>1. PICK k : Started(w, k)
  BY StartsAt DEF FreshInv
<1>2. /\ Begin(w, k) /\ IsCall(k) /\ FirstReads(k) /\ Recorded(k)
      /\ UNCHANGED <<templates, reviews, shelf>>
  BY <1>1 DEF Started, refs, catalogVars
<1>3. /\ calls'[w].op = k.op /\ calls'[w].pc = k.pc /\ calls'[w].given = k.given
      /\ calls'[w].view = k.view /\ \A v \in Workers : v # w => calls'[v] = calls[v]
      /\ disturbed' = (disturbed \/ ~Quiet)
  BY <1>2, Begun DEF FreshInv
<1>4. k.pc = "fillShelf" => /\ k.given \in ShelfKeys /\ k.view = View(k.given)
                            /\ k.given \in Detail => k.view # {}
  BY <1>2 DEF FirstReads, Idle
<1>5. ASSUME NEW t \in TemplateIds, k.pc = "fillShelf", k.given = <<"id", t>>
      PROVE  t \in Ids
  <2>1. View(<<"id", t>>) # {}
    BY <1>4, <1>5 DEF Detail
  <2>2. View(<<"id", t>>) = {<<s, templates[s]>> : s \in Ids \cap {t}}
    BY DEF View, Ids
  <2>. QED BY <2>1, <2>2
<1>6. DetailsExist'
  BY <1>2, <1>3, <1>5 DEF FreshInv, DetailsExist, At, Ids
<1>7. ASSUME ~disturbed', ~migrated' PROVE Informed'
  <2>1. Quiet /\ ~disturbed /\ ~migrated /\ k.op # "previews"
    BY <1>2, <1>3, <1>7 DEF Recorded
  <2>2. \A key \in ShelfKeys : View(key)' = View(key)
    BY <1>2, OtherViews
  <2>. DEFINE V(key) == View(key)
  <2>. HIDE DEF V
  <2>3. \A key \in ShelfKeys : V(key)' = V(key)
    BY <2>2 DEF V
  <2>4. /\ \A key \in ShelfKeys : shelf[key] \in {None, V(key)}
        /\ \A v \in Workers : calls[v].op \notin Script /\ calls[v].pc = "idle"
    BY <2>1 DEF FreshInv, Informed, V, Quiet, Owes
  <2>5. \A v \in Workers : At(v, "fillShelf")' => calls'[v].view = V(calls[v].given)'
    <3>1. ASSUME NEW v \in Workers, calls'[v].pc = "fillShelf" PROVE v = w /\ k.pc = "fillShelf"
      BY <1>3, <2>4, <3>1
    <3>2. k.pc = "fillShelf" => k.view = V(k.given) /\ k.given \in ShelfKeys
      BY <1>4 DEF V
    <3>. QED BY <1>3, <2>3, <3>1, <3>2 DEF At
  <2>6. k.op \notin Script
    BY <1>2, <2>1 DEF FirstReads, Script, Idle
  <2>7. \A v \in Workers : calls'[v].op \notin Script
    BY <1>3, <2>4, <2>6
  <2>. QED BY <1>2, <2>3, <2>4, <2>5, <2>7 DEF Informed, V
<1>. QED BY <1>6, <1>7 DEF Informed

LEMMA NextFresh == FreshInv /\ [Next]_vars => FreshInv'
<1> SUFFICES ASSUME FreshInv, [Next]_vars PROVE DetailsExist' /\ Informed'
  BY NextTypeInv, NextAlone DEF FreshInv
<1>1. ASSUME NEW w \in Workers, MediaStep(w), UNCHANGED catalogVars PROVE DetailsExist' /\ Informed'
  BY <1>1, MediaStepFresh, WritePreviewFresh, InsertTemplateFresh, WriteTemplateFresh
<1>2. ASSUME NEW w \in Workers, ReadReview(w) PROVE DetailsExist' /\ Informed'
  <2>1. UNCHANGED <<templates, reviews, shelf, migrated>> /\ calls[w].pc = "readReview"
    BY <1>2 DEF ReadReview, mediaVars, catalogVars, refs, history, At
  <2>2. Moved(w)
    BY <1>2, StepMoves DEF FreshInv, Step
  <2>. QED BY <2>1, <2>2, SilentFresh
<1>3. ASSUME NEW w \in Workers, Fail(w) PROVE DetailsExist' /\ Informed'
  <2>1. Informed'
    BY <1>3 DEF Fail, Informed
  <2>2. /\ Ids' = Ids /\ shelf' = shelf
        /\ \A v \in Workers : calls'[v].pc = "fillShelf" => calls'[v] = calls[v]
    BY <1>3 DEF Fail, mediaVars, refs, catalogVars, Ids, FreshInv, TypeInv, Idle
  <2>. QED BY <2>1, <2>2, DetailsStay
<1>4. CASE \/ TimePasses /\ UNCHANGED catalogVars
           \/ \E key \in ShelfKeys : ShelfExpires(key)
  <2>1. UNCHANGED <<templates, reviews, calls, disturbed, migrated>>
    BY <1>4 DEF TimePasses, GrowOld, MinutePasses, ShelfExpires, TimeOut, catalogVars, mediaVars,
       refs, history
  <2>2. \A key \in ShelfKeys : shelf'[key] \in {None, shelf[key]}
    BY <1>4 DEF ShelfExpires, catalogVars, FreshInv, TypeInv, StoresOK
  <2>. QED BY <2>1, <2>2, FreshStays
<1>5. CASE UNCHANGED vars
  <2>1. UNCHANGED <<templates, reviews, calls, disturbed, migrated, shelf>>
    BY <1>5 DEF vars, catalogVars, mediaVars, refs, history
  <2>. QED BY <2>1, FreshStays
<1>6. ASSUME NEW w \in Workers, Step(w) PROVE DetailsExist' /\ Informed'
  BY <1>1, <1>2, <1>6, FillFresh, DropFresh, ReviewFresh DEF Step
<1>. QED BY <1>3, <1>4, <1>5, <1>6, StartFresh DEF Next

\* The cached lists and details are what the database holds whenever no call is in
\* progress, as long as calls come one at a time and the script has not run
\* (the caches of the template and testimonial services).
THEOREM FreshCatalog == Spec => []CatalogFresh
  BY InitFresh, NextFresh, FreshHolds, PTL DEF Spec
-----------------------------------------------------------------------------
(* Galleries that nobody edits *)

\* Who edits is on record, and what guests pushed to any other gallery is there.
Linked ==
    /\ \A w \in Workers : calls[w].op = "edit" => calls[w].inv \in edited
    /\ \A i \in Invitations \ edited : \A k : <<i, k>> \in guests => k \in galleries[i].moments

LinkedInv == TypeInv /\ Linked

LEMMA StepHistory ==
  ASSUME NEW w \in Workers, Step(w)
  PROVE  /\ edited \subseteq edited' /\ deleted \subseteq deleted'
         /\ ~Push(w) => guests' = guests
  BY DEF Step, MediaStep, mediaVars, catalogVars, history, ReadGallery, PutObject, InsertRow, Push,
     SetAvatar, ReadInvitation, DeleteObject, DeleteRow, RequestFails, WriteInvitation, ReadTemplates,
     ReadOld, ReadInvitations, ScriptRow, WritePreview, ReadMoments, WriteMoments, InsertTemplate,
     WriteTemplate, StoreStamp, FillShelf, DropAll, DropActive, DropDetail, DropList, ReadReview,
     Upsert, Remove, DropReviews

LEMMA StepGalleries ==
  ASSUME NEW w \in Workers, Step(w), ~Push(w), ~WriteInvitation(w), ~WriteMoments(w)
  PROVE  galleries' = galleries
  BY DEF Step, MediaStep, mediaVars, refs, ReadGallery, PutObject, InsertRow,
     SetAvatar, ReadInvitation, DeleteObject, DeleteRow, RequestFails, ReadTemplates,
     ReadOld, ReadInvitations, ScriptRow, WritePreview, ReadMoments, InsertTemplate,
     WriteTemplate, StoreStamp, FillShelf, DropAll, DropActive, DropDetail, DropList, ReadReview,
     Upsert, Remove, DropReviews

\* Only a push changes a gallery that nobody edits.
LEMMA GalleryKept ==
  ASSUME LinkedInv, NEW w \in Workers, Step(w), NEW i \in Invitations \ edited'
  PROVE  galleries'[i] = galleries[i] \/ (Push(w) /\ calls[w].inv = i)
<1>1. galleries \in [Invitations -> Galleries]
  BY DEF LinkedInv, TypeInv, StoresOK
<1>2. CASE Push(w)
  BY <1>1, <1>2 DEF Push
<1>3. CASE WriteInvitation(w)
  <2>1. calls[w].op = "edit" /\ edited' = edited
    BY <1>3, Mine DEF LinkedInv, OnItsWay, WriteInvitation, At, history
  <2>2. calls[w].inv \in edited
    BY <2>1 DEF LinkedInv, Linked
  <2>3. calls[w].inv # i
    BY <2>1, <2>2
  <2>. QED BY <1>1, <1>3, <2>3 DEF WriteInvitation
<1>4. CASE WriteMoments(w)
  <2>1. calls[w].inv # i
    BY <1>4 DEF WriteMoments
  <2>. QED BY <1>1, <1>4, <2>1 DEF WriteMoments
<1>. QED BY <1>2, <1>3, <1>4, StepGalleries

\* The gallery a photo is pushed to.
LEMMA PushedTo ==
  ASSUME TypeInv, NEW w \in Workers, Push(w)
  PROVE  LET i == calls[w].inv
             f == calls[w].file
         IN /\ i \in Invitations /\ f \in Files
            /\ galleries'[i].moments = galleries[i].moments \cup {f}
            /\ galleries'[i].images = galleries[i].images /\ galleries'[i].hidden = galleries[i].hidden
            /\ galleries'[i].music = galleries[i].music
            /\ \A j \in Invitations : j # i => galleries'[j] = galleries[j]
            /\ guests' = IF calls[w].op = "guest" THEN guests \cup {<<i, f>>} ELSE guests
            /\ edited' = edited /\ calls' = [calls EXCEPT ![w] = Idle]
<1>1. galleries \in [Invitations -> Galleries]
  BY DEF TypeInv, StoresOK
<1>2. PICK i, f : i = calls[w].inv /\ f = calls[w].file
  OBVIOUS
<1>3. IsCall(calls[w]) /\ OnItsWay(calls[w]) /\ HasRead(calls[w], begun, Len(templates))
      /\ calls[w].pc = "push"
  BY Mine DEF Push, At
<1>4. i \in Invitations /\ f \in Files
  BY <1>2, <1>3 DEF OnItsWay, HasRead
<1>5. PICK g \in Galleries : g = galleries[i]
  BY <1>1, <1>4
<1>6. galleries' = [galleries EXCEPT ![i] = [g EXCEPT !.moments = g.moments \cup {f}]]
  BY <1>1, <1>2, <1>4, <1>5 DEF Push
<1>7. galleries'[i] = [g EXCEPT !.moments = g.moments \cup {f}]
  BY <1>1, <1>4, <1>6
<1>8. /\ galleries'[i].moments = galleries[i].moments \cup {f}
      /\ galleries'[i].images = galleries[i].images /\ galleries'[i].hidden = galleries[i].hidden
      /\ galleries'[i].music = galleries[i].music
  BY <1>5, <1>7 DEF Galleries
<1>9. \A j \in Invitations : j # i => galleries'[j] = galleries[j]
  BY <1>1, <1>6
<1>10. guests' = (IF calls[w].op = "guest" THEN guests \cup {<<i, f>>} ELSE guests)
       /\ edited' = edited /\ calls' = [calls EXCEPT ![w] = Idle]
  BY <1>2 DEF Push, Return, Continue
<1>. QED BY <1>2, <1>4, <1>8, <1>9, <1>10

LEMMA InitLinked == CatalogInit => LinkedInv
<1>1. CatalogInit => Linked
  BY DEF CatalogInit, Init, Linked, Idle
<1>. QED BY <1>1, InitTypeInv DEF LinkedInv

LEMMA NextLinked == LinkedInv /\ [Next]_vars => LinkedInv'
<1> SUFFICES ASSUME LinkedInv, [Next]_vars PROVE Linked'
  BY NextTypeInv DEF LinkedInv
<1>1. ASSUME NEW w \in Workers, Start(w) PROVE Linked'
  <2>1. PICK k : Started(w, k)
    BY <1>1, StartsAt DEF LinkedInv
  <2>2. Begin(w, k) /\ IsCall(k) /\ Recorded(k) /\ galleries' = galleries
    BY <2>1 DEF Started, refs
  <2>3. /\ calls'[w].op = k.op /\ calls'[w].inv = k.inv
        /\ \A v \in Workers : v # w => calls'[v] = calls[v]
    BY <2>2, Begun DEF LinkedInv
  <2>4. edited \subseteq edited' /\ (k.op = "edit" => k.inv \in edited') /\ guests' = guests
    BY <2>2 DEF Recorded
  <2>. QED BY <2>2, <2>3, <2>4 DEF Linked, LinkedInv
<1>2. ASSUME NEW w \in Workers, Step(w) PROVE Linked'
  <2>1. Moved(w)
    BY <1>2, StepMoves DEF LinkedInv
  <2>2. edited \subseteq edited' /\ (~Push(w) => guests' = guests)
    BY <1>2, StepHistory
  <2>3. \A v \in Workers : calls'[v].op = "edit" => calls'[v].inv \in edited'
    BY <2>1, <2>2 DEF Moved, GoesOn, LinkedInv, Linked, TypeInv
  <2>4. ASSUME NEW i \in Invitations \ edited', NEW f, <<i, f>> \in guests'
        PROVE  f \in galleries'[i].moments
    <3>1. i \notin edited
      BY <2>2
    <3>2. CASE Push(w)
      <4>1. PICK j, g : j = calls[w].inv /\ g = calls[w].file
        OBVIOUS
      <4>2. /\ galleries'[j].moments = galleries[j].moments \cup {g}
            /\ \A h \in Invitations : h # j => galleries'[h] = galleries[h]
            /\ guests' \subseteq guests \cup {<<j, g>>}
        BY <3>2, <4>1, PushedTo DEF LinkedInv
      <4>3. CASE <<i, f>> \in guests
        BY <3>1, <4>2, <4>3 DEF LinkedInv, Linked
      <4>4. CASE <<i, f>> = <<j, g>>
        BY <4>2, <4>4
      <4>. QED BY <2>4, <4>2, <4>3, <4>4
    <3>3. CASE ~Push(w)
      BY <1>2, <2>2, <2>4, <3>1, <3>3, GalleryKept DEF LinkedInv, Linked
    <3>. QED BY <3>2, <3>3
  <2>. QED BY <2>3, <2>4 DEF Linked
<1>3. CASE \E w \in Workers : Fail(w)
  <2>1. PICK w \in Workers : Fail(w)
    BY <1>3
  <2>2. UNCHANGED <<galleries, guests, edited>> /\ calls' = [calls EXCEPT ![w] = Idle]
    BY <2>1 DEF Fail, mediaVars, refs, history
  <2>3. Idle.op # "edit"
    BY DEF Idle
  <2>. HIDE DEF Idle
  <2>. QED BY <2>2, <2>3 DEF Linked, LinkedInv, TypeInv
<1>4. CASE \/ TimePasses /\ UNCHANGED catalogVars
           \/ \E key \in ShelfKeys : ShelfExpires(key)
  <2>1. UNCHANGED <<galleries, guests, edited, calls>>
    BY <1>4 DEF TimePasses, GrowOld, MinutePasses, ShelfExpires, TimeOut, mediaVars, refs, history
  <2>. QED BY <2>1 DEF Linked, LinkedInv
<1>5. CASE UNCHANGED vars
  <2>1. UNCHANGED <<galleries, guests, edited, calls>>
    BY <1>5 DEF vars, mediaVars, refs, history
  <2>. QED BY <2>1 DEF Linked, LinkedInv
<1>. QED BY <1>1, <1>2, <1>3, <1>4, <1>5 DEF Next
-----------------------------------------------------------------------------
(* The number of photos *)

\* The calls of guests that found room in gallery i.
Inflight(i) == {w \in Workers : /\ calls[w].op = "guest" /\ calls[w].inv = i
                                /\ calls[w].pc \in {"putObject", "insertRow", "push"}}

RoomFor == GuestLimit + IF disturbed THEN Cardinality(Workers) - 1 ELSE 0

\* The photos of guests and those that gallery i held at first.
Counted(i) == GuestPhotos(i) \cup InitGallery[i].moments

\* Nothing but an edit takes the first photos out.
FirstKept == \A i \in Invitations \ edited : InitGallery[i].moments \subseteq galleries[i].moments

\* Each of the calls has been counted.
Roomy(i) ==
    GuestPhotos(i) \cup Inflight(i) # {} =>
        Cardinality(Counted(i)) + Cardinality(Inflight(i)) <= RoomFor

RoomKept == \A i \in Invitations \ edited : Roomy(i)

RoomInv == LinkedInv /\ Alone /\ FirstKept /\ RoomKept

LEMMA PhotosFinite ==
  ASSUME TypeInv, FirstKept, NEW i \in Invitations \ edited
  PROVE  /\ IsFiniteSet(Counted(i)) /\ IsFiniteSet(galleries[i].moments)
         /\ Cardinality(Counted(i)) \in Nat /\ Cardinality(galleries[i].moments) \in Nat
         /\ Cardinality(Counted(i)) <= Cardinality(galleries[i].moments)
         /\ IsFiniteSet(Inflight(i)) /\ Cardinality(Inflight(i)) \in Nat
         /\ Cardinality(Workers) \in Nat /\ GuestLimit \in Nat
<1>1. IsFiniteSet(Files)
  <2>1. InitFiles \in Nat /\ MaxCalls \in Nat /\ Cardinality(LocalFiles) \in Nat
    BY LocalFinite, MediaAssumption
  <2>2. MaxCalls * (1 + Cardinality(LocalFiles)) \in Nat
    BY ONLY <2>1
  <2>. QED BY ONLY <2>1, <2>2, FS_Interval DEF Files
<1>2. galleries[i].moments \subseteq Files
  BY DEF TypeInv, StoresOK, Galleries
<1>3. IsFiniteSet(galleries[i].moments)
  BY <1>1, <1>2, FS_Subset
<1>4. Counted(i) \subseteq galleries[i].moments
  BY DEF GuestPhotos, Counted, FirstKept
<1>5. /\ IsFiniteSet(Counted(i))
      /\ Cardinality(Counted(i)) <= Cardinality(galleries[i].moments)
  BY <1>3, <1>4, FS_Subset
<1>6. Inflight(i) \subseteq Workers /\ IsFiniteSet(Workers) /\ GuestLimit \in Nat
  BY MediaAssumption DEF Inflight
<1>7. IsFiniteSet(Inflight(i))
  BY <1>6, FS_Subset
<1>. QED BY <1>3, <1>5, <1>6, <1>7, FS_CardinalityType

\* Room is only ever added.
LEMMA RoomGrows ==
  ASSUME NEW w \in Workers, disturbed' = disturbed \/ disturbed' = TRUE, disturbed \in BOOLEAN
  PROVE  RoomFor \in Int /\ RoomFor' \in Int /\ RoomFor <= RoomFor'
<1>1. IsFiniteSet(Workers) /\ GuestLimit \in Nat
  BY MediaAssumption
<1>2. Workers # {}
  OBVIOUS
<1>3. Cardinality(Workers) \in Nat /\ Cardinality(Workers) # 0
  BY <1>1, <1>2, FS_CardinalityType, FS_EmptySet
<1>4. /\ RoomFor \in {GuestLimit + 0, GuestLimit + (Cardinality(Workers) - 1)}
      /\ RoomFor' \in {GuestLimit + 0, GuestLimit + (Cardinality(Workers) - 1)}
      /\ disturbed => RoomFor' = GuestLimit + (Cardinality(Workers) - 1)
      /\ ~disturbed => RoomFor = GuestLimit + 0
  BY DEF RoomFor
<1>. QED BY ONLY <1>1, <1>3, <1>4

\* No photo and no call more for gallery i.
LEMMA NoMorePhotos ==
  ASSUME RoomInv, TypeInv', NEW w \in Workers, disturbed' = disturbed \/ disturbed' = TRUE,
         NEW i \in Invitations \ edited, GuestPhotos(i)' \subseteq GuestPhotos(i),
         Inflight(i)' \subseteq Inflight(i)
  PROVE  Roomy(i)'
<1>1. /\ IsFiniteSet(Counted(i)) /\ IsFiniteSet(Inflight(i))
      /\ Cardinality(Counted(i)) \in Nat /\ Cardinality(Inflight(i)) \in Nat
  BY PhotosFinite DEF RoomInv, LinkedInv
<1>2. Counted(i)' \subseteq Counted(i)
  BY DEF Counted
<1>3. Cardinality(Counted(i)') <= Cardinality(Counted(i)) /\ IsFiniteSet(Counted(i)')
  BY <1>1, <1>2, FS_Subset
<1>4. Cardinality(Inflight(i)') <= Cardinality(Inflight(i)) /\ IsFiniteSet(Inflight(i)')
  BY <1>1, FS_Subset
<1>5. Cardinality(Counted(i)') \in Nat /\ Cardinality(Inflight(i)') \in Nat
  BY <1>3, <1>4, FS_CardinalityType
<1>6. RoomFor \in Int /\ RoomFor' \in Int /\ RoomFor <= RoomFor'
  BY RoomGrows DEF RoomInv, LinkedInv, TypeInv, StoresOK
<1>7. ASSUME GuestPhotos(i)' \cup Inflight(i)' # {}
      PROVE  Cardinality(Counted(i)') + Cardinality(Inflight(i)') <= RoomFor'
  <2>1. GuestPhotos(i) \cup Inflight(i) # {}
    BY <1>7
  <2>2. Cardinality(Counted(i)) + Cardinality(Inflight(i)) <= RoomFor
    BY <2>1 DEF RoomInv, RoomKept, Roomy
  <2>. QED BY ONLY <1>1, <1>3, <1>4, <1>5, <1>6, <2>2
<1>. QED BY <1>7 DEF Roomy

LEMMA InitRoom == CatalogInit => RoomInv
<1> SUFFICES ASSUME CatalogInit PROVE FirstKept /\ RoomKept
  BY InitLinked, InitAlone DEF RoomInv
<1>1. \A i : GuestPhotos(i) = {} /\ Inflight(i) = {}
  BY DEF CatalogInit, Init, GuestPhotos, Inflight, Idle
<1>2. FirstKept
  BY DEF CatalogInit, Init, FirstKept
<1>. QED BY <1>1, <1>2 DEF RoomKept, Roomy

\* A photo takes the place of the call that pushes it.
LEMMA PushRoom ==
  ASSUME RoomInv, TypeInv', NEW w \in Workers, Push(w), NEW i \in Invitations \ edited
  PROVE  Roomy(i)'
<1>1. PICK j, f : j = calls[w].inv /\ f = calls[w].file
  OBVIOUS
<1>2. /\ j \in Invitations /\ galleries'[j].moments = galleries[j].moments \cup {f}
      /\ \A h \in Invitations : h # j => galleries'[h] = galleries[h]
      /\ guests' = IF calls[w].op = "guest" THEN guests \cup {<<j, f>>} ELSE guests
      /\ calls' = [calls EXCEPT ![w] = Idle]
  BY <1>1, PushedTo DEF RoomInv, LinkedInv
<1>3. disturbed' = disturbed /\ calls[w].pc = "push"
  BY DEF Push, Return, Continue, At
<1>4. Inflight(i)' \subseteq Inflight(i) \ {w}
  BY <1>2 DEF Inflight, Idle, RoomInv, LinkedInv, TypeInv
<1>5. CASE calls[w].op = "guest" /\ j = i
  <2>1. Counted(i)' \subseteq Counted(i) \cup {f}
    BY <1>2, <1>5 DEF GuestPhotos, Counted
  <2>2. w \in Inflight(i)
    BY <1>1, <1>3, <1>5 DEF Inflight
  <2>3. /\ IsFiniteSet(Counted(i)) /\ IsFiniteSet(Inflight(i))
        /\ Cardinality(Counted(i)) \in Nat /\ Cardinality(Inflight(i)) \in Nat
    BY PhotosFinite DEF RoomInv, LinkedInv
  <2>4. /\ IsFiniteSet(Counted(i) \cup {f})
        /\ Cardinality(Counted(i) \cup {f}) \in {Cardinality(Counted(i)), Cardinality(Counted(i)) + 1}
    BY <2>3, FS_AddElement
  <2>5. Cardinality(Counted(i)') <= Cardinality(Counted(i) \cup {f}) /\ IsFiniteSet(Counted(i)')
    BY <2>1, <2>4, FS_Subset
  <2>6. IsFiniteSet(Inflight(i) \ {w}) /\ Cardinality(Inflight(i) \ {w}) = Cardinality(Inflight(i)) - 1
    BY <2>2, <2>3, FS_RemoveElement
  <2>7. Cardinality(Inflight(i)') <= Cardinality(Inflight(i) \ {w}) /\ IsFiniteSet(Inflight(i)')
    BY <1>4, <2>6, FS_Subset
  <2>8. Cardinality(Counted(i)') \in Nat /\ Cardinality(Inflight(i)') \in Nat
    BY <2>5, <2>7, FS_CardinalityType
  <2>9. Cardinality(Counted(i)) + Cardinality(Inflight(i)) <= RoomFor
    BY <2>2 DEF RoomInv, RoomKept, Roomy
  <2>10. RoomFor \in Int /\ RoomFor' \in Int /\ RoomFor <= RoomFor'
    BY <1>3, RoomGrows DEF RoomInv, LinkedInv, TypeInv, StoresOK
  <2>11. Cardinality(Counted(i)') + Cardinality(Inflight(i)') <= RoomFor'
    BY ONLY <2>3, <2>4, <2>5, <2>6, <2>7, <2>8, <2>9, <2>10
  <2>. QED BY <2>11 DEF Roomy
<1>6. CASE ~(calls[w].op = "guest" /\ j = i)
  <2>1. \A k : <<i, k>> \in guests' => <<i, k>> \in guests
    BY <1>2, <1>6
  <2>2. \A k : <<i, k>> \in guests => k \in galleries[i].moments
    BY DEF RoomInv, LinkedInv, Linked
  <2>3. GuestPhotos(i)' \subseteq GuestPhotos(i)
    BY <2>1, <2>2 DEF GuestPhotos
  <2>. QED BY <1>3, <1>4, <2>3, NoMorePhotos
<1>. QED BY <1>5, <1>6

\* A call that finds room is counted.
LEMMA ReadGalleryRoom ==
  ASSUME RoomInv, TypeInv', NEW w \in Workers, Step(w), ReadGallery(w), NEW i \in Invitations \ edited
  PROVE  Roomy(i)'
<1>1. /\ disturbed' = disturbed /\ galleries' = galleries /\ guests' = guests
      /\ At(w, "readGallery") /\ (~Full(calls[w].inv) \/ calls' = [calls EXCEPT ![w] = Idle])
  BY DEF ReadGallery, Goto, Return, Continue, mediaVars, refs, history
<1>2. GuestPhotos(i)' = GuestPhotos(i) /\ Counted(i)' = Counted(i)
  BY <1>1 DEF GuestPhotos, Counted
<1>3. Moved(w)
  BY StepMoves DEF RoomInv, LinkedInv
<1>4. Inflight(i)' \subseteq Inflight(i) \cup {w} /\ (calls[w].inv # i => Inflight(i)' \subseteq Inflight(i))
  BY <1>3 DEF Inflight, Moved, GoesOn, RoomInv, LinkedInv, TypeInv
<1>5. CASE calls[w].inv = i /\ ~Full(i)
  <2>1. /\ Cardinality(Counted(i)) \in Nat /\ Cardinality(galleries[i].moments) \in Nat
        /\ Cardinality(Counted(i)) <= Cardinality(galleries[i].moments)
        /\ Cardinality(Workers) \in Nat /\ GuestLimit \in Nat
    BY PhotosFinite DEF RoomInv, LinkedInv
  <2>2. ~(Cardinality(galleries[i].moments) >= GuestLimit)
    BY <1>5 DEF Full
  <2>3. Cardinality(Counted(i)) + 1 <= GuestLimit
    BY ONLY <2>1, <2>2
  <2>4. CASE disturbed
    <3>1. Inflight(i)' \subseteq Workers /\ IsFiniteSet(Workers)
      BY MediaAssumption DEF Inflight
    <3>2. Cardinality(Inflight(i)') <= Cardinality(Workers) /\ Cardinality(Inflight(i)') \in Nat
      BY <3>1, FS_Subset, FS_CardinalityType
    <3>3. RoomFor' = GuestLimit + (Cardinality(Workers) - 1)
      BY <1>1, <2>4 DEF RoomFor
    <3>4. Cardinality(Counted(i)') + Cardinality(Inflight(i)') <= RoomFor'
      BY ONLY <1>2, <2>1, <2>3, <3>2, <3>3
    <3>. QED BY <3>4 DEF Roomy
  <2>5. CASE ~disturbed
    <3>1. \A v \in Workers : v # w => calls'[v] = calls[v] /\ calls[v].pc = "idle"
      BY <1>3, <2>5, AloneMoves DEF RoomInv, LinkedInv
    <3>2. Inflight(i)' \subseteq {w}
      BY <3>1 DEF Inflight
    <3>3. IsFiniteSet({w}) /\ Cardinality({w}) = 1
      BY FS_Singleton
    <3>4. Cardinality(Inflight(i)') <= 1 /\ Cardinality(Inflight(i)') \in Nat
      BY <3>2, <3>3, FS_Subset, FS_CardinalityType
    <3>5. RoomFor' = GuestLimit + 0
      BY <1>1, <2>5 DEF RoomFor
    <3>6. Cardinality(Counted(i)') + Cardinality(Inflight(i)') <= RoomFor'
      BY ONLY <1>2, <2>1, <2>3, <3>4, <3>5
    <3>. QED BY <3>6 DEF Roomy
  <2>. QED BY <2>4, <2>5
<1>6. CASE ~(calls[w].inv = i /\ ~Full(i))
  <2>1. Inflight(i)' \subseteq Inflight(i)
    <3>1. CASE calls[w].inv # i
      BY <1>4, <3>1
    <3>2. CASE calls' = [calls EXCEPT ![w] = Idle]
      BY <3>2 DEF Inflight, Idle, RoomInv, LinkedInv, TypeInv
    <3>. QED BY <1>1, <1>6, <3>1, <3>2
  <2>. QED BY <1>1, <1>2, <2>1, NoMorePhotos
<1>. QED BY <1>5, <1>6

LEMMA NextFirst == LinkedInv /\ FirstKept /\ [Next]_vars => FirstKept'
<1> SUFFICES ASSUME LinkedInv, FirstKept, [Next]_vars PROVE FirstKept'
  OBVIOUS
<1>1. ASSUME NEW w \in Workers, Start(w) PROVE FirstKept'
  <2>1. PICK k : Started(w, k)
    BY <1>1, StartsAt DEF LinkedInv
  <2>2. galleries' = galleries /\ edited \subseteq edited'
    BY <2>1 DEF Started, refs, Recorded
  <2>. QED BY <2>2 DEF FirstKept
<1>2. ASSUME NEW w \in Workers, Step(w) PROVE FirstKept'
  <2>1. edited \subseteq edited'
    BY <1>2, StepHistory
  <2>2. CASE Push(w)
    <3>1. PICK j, f : j = calls[w].inv /\ f = calls[w].file
      OBVIOUS
    <3>0. TypeInv
      BY DEF LinkedInv
    <3>2. /\ galleries'[j].moments = galleries[j].moments \cup {f}
          /\ \A h \in Invitations : h # j => galleries'[h] = galleries[h]
      BY <2>2, <3>0, <3>1, PushedTo
    <3>. QED BY <2>1, <3>2 DEF FirstKept
  <2>3. CASE ~Push(w)
    <3>1. ASSUME NEW i \in Invitations \ edited' PROVE galleries'[i] = galleries[i]
      BY <1>2, <2>3, GalleryKept
    <3>. QED BY <2>1, <3>1 DEF FirstKept
  <2>. QED BY <2>2, <2>3
<1>3. CASE UNCHANGED <<galleries, edited>>
  BY <1>3 DEF FirstKept
<1>4. ASSUME NEW w \in Workers, Fail(w) PROVE FirstKept'
  BY <1>3, <1>4 DEF Fail, mediaVars, refs, history
<1>5. CASE \/ TimePasses /\ UNCHANGED catalogVars
           \/ \E key \in ShelfKeys : ShelfExpires(key)
  BY <1>3, <1>5 DEF TimePasses, GrowOld, MinutePasses, ShelfExpires, TimeOut, mediaVars, refs, history
<1>6. CASE UNCHANGED vars
  BY <1>3, <1>6 DEF vars, mediaVars, refs, history
<1>. QED BY <1>1, <1>2, <1>4, <1>5, <1>6 DEF Next

LEMMA NextRoom == RoomInv /\ [Next]_vars => RoomInv'
<1> SUFFICES ASSUME RoomInv, [Next]_vars, TypeInv', Linked' PROVE RoomKept'
  BY NextLinked, NextAlone, NextFirst DEF RoomInv, LinkedInv
<1>1. ASSUME NEW w \in Workers, Start(w) PROVE RoomKept'
  <2>1. PICK k : Started(w, k)
    BY <1>1, StartsAt DEF RoomInv, LinkedInv
  <2>2. Begin(w, k) /\ IsCall(k) /\ FirstReads(k) /\ Recorded(k) /\ galleries' = galleries
    BY <2>1 DEF Started, refs
  <2>3. /\ calls'[w].op = k.op /\ calls'[w].pc = k.pc
        /\ \A v \in Workers : v # w => calls'[v] = calls[v]
        /\ disturbed' = (disturbed \/ ~Quiet)
    BY <2>2, Begun DEF RoomInv, LinkedInv
  <2>4. edited \subseteq edited' /\ guests' = guests
    BY <2>2 DEF Recorded
  <2>5. ~(k.op = "guest" /\ k.pc \in {"putObject", "insertRow", "push"})
    BY <2>2 DEF FirstReads, Idle
  <2>6. \A i : GuestPhotos(i)' = GuestPhotos(i) /\ Inflight(i)' \subseteq Inflight(i)
    BY <2>2, <2>3, <2>4, <2>5 DEF GuestPhotos, Inflight
  <2>7. disturbed' = disturbed \/ disturbed' = TRUE
    BY <2>3 DEF RoomInv, LinkedInv, TypeInv, StoresOK
  <2>. QED BY <2>4, <2>6, <2>7, NoMorePhotos DEF RoomKept
<1>2. ASSUME NEW w \in Workers, Step(w) PROVE RoomKept'
  <2>1. edited \subseteq edited' /\ (~Push(w) => guests' = guests)
    BY <1>2, StepHistory
  <2>2. CASE Push(w)
    BY <2>1, <2>2, PushRoom DEF RoomKept
  <2>3. CASE ReadGallery(w)
    BY <1>2, <2>1, <2>3, ReadGalleryRoom DEF RoomKept
  <2>4. CASE ~Push(w) /\ ~ReadGallery(w)
    <3>1. Moved(w)
      BY <1>2, StepMoves DEF RoomInv, LinkedInv
    <3>2. calls[w].op = "guest" =>
              calls'[w].pc = "readGallery" \/ calls[w].pc \in {"putObject", "insertRow", "push"}
      <4>1. CASE StoreStamp(w)
        BY <4>1, Mine DEF StoreStamp, Continue, RoomInv, LinkedInv, TypeInv, IsCall, Idle
      <4>2. CASE ~StoreStamp(w)
        <5>1. (~At(w, "storeStamp") /\ ~At(w, "readGallery")) \/ calls[w].op # "guest"
          BY <1>2, <2>4, <4>2, Mine DEF RoomInv, LinkedInv, At, OnItsWay, Step, MediaStep, PutObject,
             InsertRow, SetAvatar, ReadInvitation, DeleteObject, DeleteRow, RequestFails, Script,
             WriteInvitation, ReadTemplates, ReadOld, ReadInvitations, ScriptRow, WritePreview,
             ReadMoments, WriteMoments, InsertTemplate, WriteTemplate, FillShelf, DropAll, DropActive,
             DropDetail, DropList, ReadReview, Upsert, Remove, DropReviews
        <5>2. OnItsWay(calls[w]) /\ ~At(w, "idle")
          BY <3>1, Mine DEF Moved, RoomInv, LinkedInv
        <5>. QED BY <5>1, <5>2 DEF OnItsWay, At
      <4>. QED BY <4>1, <4>2
    <3>3. ASSUME NEW i \in Invitations \ edited'
          PROVE  GuestPhotos(i)' = GuestPhotos(i) /\ Inflight(i)' \subseteq Inflight(i)
      <4>1. galleries'[i] = galleries[i] /\ guests' = guests
        BY <1>2, <2>1, <2>4, GalleryKept DEF RoomInv
      <4>2. Inflight(i)' \subseteq Inflight(i)
        BY <3>1, <3>2 DEF Inflight, Moved, GoesOn, RoomInv, LinkedInv, TypeInv
      <4>. QED BY <4>1, <4>2 DEF GuestPhotos
    <3>4. disturbed' = disturbed \/ disturbed' = TRUE
      BY <3>1 DEF Moved
    <3>. QED BY <2>1, <3>3, <3>4, NoMorePhotos DEF RoomKept
  <2>. QED BY <2>2, <2>3, <2>4
<1>3. ASSUME NEW w \in Workers, Fail(w) PROVE RoomKept'
  <2>1. /\ UNCHANGED <<galleries, guests, edited>> /\ calls' = [calls EXCEPT ![w] = Idle]
        /\ disturbed' = TRUE
    BY <1>3 DEF Fail, mediaVars, refs, history
  <2>2. \A i : GuestPhotos(i)' = GuestPhotos(i) /\ Inflight(i)' \subseteq Inflight(i)
    BY <2>1 DEF GuestPhotos, Inflight, Idle, RoomInv, LinkedInv, TypeInv
  <2>. QED BY <2>1, <2>2, NoMorePhotos DEF RoomKept
<1>4. CASE UNCHANGED <<galleries, guests, edited, calls, disturbed>>
  <2>1. \A i : GuestPhotos(i)' = GuestPhotos(i) /\ Inflight(i)' = Inflight(i)
    BY <1>4 DEF GuestPhotos, Inflight
  <2>2. RoomFor' = RoomFor
    BY <1>4 DEF RoomFor
  <2>3. \A i : Roomy(i)' = Roomy(i)
    BY <2>1, <2>2 DEF Roomy, Counted
  <2>. QED BY <1>4, <2>3 DEF RoomInv, RoomKept
<1>5. CASE \/ TimePasses /\ UNCHANGED catalogVars
           \/ \E key \in ShelfKeys : ShelfExpires(key)
  BY <1>4, <1>5 DEF TimePasses, GrowOld, MinutePasses, ShelfExpires, TimeOut, mediaVars, refs, history
<1>6. CASE UNCHANGED vars
  BY <1>4, <1>6 DEF vars, mediaVars, refs, history
<1>. QED BY <1>1, <1>2, <1>3, <1>5, <1>6 DEF Next

\* A gallery whose lists nobody edits takes photos of guests up to its limit, the
\* photos it held before included, and at most one more for each other call that
\* can be in progress (guestUpload of src/src/invitation/invitation.service.ts).
THEOREM PhotosBounded == Spec => []GuestPhotosBounded
<1>1. RoomInv => GuestPhotosBounded
  <2> SUFFICES ASSUME RoomInv, NEW i \in Invitations \ edited, GuestPhotos(i) # {}
               PROVE  Cardinality(Counted(i)) <= RoomFor
    BY DEF GuestPhotosBounded, RoomFor, Counted
  <2>1. Cardinality(Counted(i)) + Cardinality(Inflight(i)) <= RoomFor
    BY DEF RoomInv, RoomKept, Roomy
  <2>2. /\ Cardinality(Counted(i)) \in Nat /\ Cardinality(Inflight(i)) \in Nat
        /\ Cardinality(Workers) \in Nat /\ GuestLimit \in Nat
    BY PhotosFinite DEF RoomInv, LinkedInv
  <2>3. RoomFor \in Int
    BY <2>2 DEF RoomFor
  <2>. QED BY ONLY <2>1, <2>2, <2>3
<1>. QED BY InitRoom, NextRoom, <1>1, PTL DEF Spec
-----------------------------------------------------------------------------
(* The photos of guests *)

ListsOf(g) == g.images \cup g.moments \cup g.hidden \cup {g.music}

InBody(f, b) ==
    \/ b.images # None /\ f \in b.images
    \/ b.moments # None /\ f \in b.moments
    \/ b.hidden # None /\ f \in b.hidden
    \/ b.music = f

\* Call c will neither delete file f nor put it anywhere but in the galleries H; a
\* clean-up knows that it is in use or will find it too young.
Untouched(c, f, H) ==
    /\ c.file # f /\ f \notin c.todo
    /\ c.op = "edit" => ~InBody(f, c.given)
    /\ c.op = "template" => c.given # f
    /\ c.pc = "writeMoments" /\ f \in c.given => c.inv \in H
    /\ c.pc \in {"readTemplates", "readOld"} => f \in c.used \/ (f \notin c.seen /\ media[f] # "old")

\* Only the galleries H show file f.
InOnly(f, H) ==
    /\ \A i \in Invitations \ H : f \notin ListsOf(galleries[i])
    /\ \A t \in Ids : templates[t].preview # f

\* No day passes on file f while the calls in progress last.
Young(f) == media[f] # "old" /\ \A w \in Workers : f \notin calls[w].seen

\* The call of a guest has stored file f and not shown it yet.
Carries(w, f) ==
    calls[w].op = "guest" /\ calls[w].pc \in {"insertRow", "push"} /\ calls[w].file = f

\* A file that is still to come, one that a guest's call carries, and a guest's photo.
ToCome(f) ==
    f > drawn => /\ media[f] = "none" /\ Young(f) /\ InOnly(f, {})
                 /\ \A w \in Workers : Untouched(calls[w], f, {})

Carried(f) ==
    \A w \in Workers : Carries(w, f) =>
        /\ f \in objects /\ (At(w, "push") => media[f] # "none") /\ Young(f) /\ InOnly(f, {})
        /\ \A v \in Workers : v # w => Untouched(calls[v], f, {})

Shown(f) ==
    \A i \in Invitations \ edited : <<i, f>> \in guests =>
        /\ f \in objects /\ media[f] # "none" /\ InOnly(f, {i})
        /\ \A w \in Workers : Untouched(calls[w], f, {i})

PhotosKept == \A f \in Files \ deleted : ToCome(f) /\ Carried(f) /\ Shown(f)

PhotosInv == LinkedInv /\ PhotosKept

LEMMA PhotosSafe == PhotosInv => GuestPhotosSafe
  BY DEF PhotosInv, PhotosKept, Shown, GuestPhotosSafe, GuestPhotos, Rows, LinkedInv, TypeInv,
     StoresOK

LEMMA IdleUntouched == \A f \in Files : \A H : Untouched(Idle, f, H)
<1>1. \A f \in Files : f # 0
  BY DEF Files
<1>. QED BY <1>1 DEF Untouched, Idle

\* A body holds files of the gallery that the owner looked at and files in no use.
LEMMA BodyHolds ==
  ASSUME NEW g \in Galleries, NEW b \in Bodies(g), NEW f \in Files, InBody(f, b)
  PROVE  f \in Spare \/ f \in ListsOf(g)
<1>. DEFINE S == Spare
<1>1. PICK k : \/ k \in S /\ b = [NotGiven EXCEPT !.images = g.images \cup {k}]
               \/ b = [NotGiven EXCEPT !.images = g.images \ {k}]
               \/ k \in g.moments /\ b = [NotGiven EXCEPT !.moments = g.moments \ {k}, !.hidden = g.hidden \cup {k}]
               \/ b = [NotGiven EXCEPT !.moments = g.moments \ {k}]
               \/ b = [NotGiven EXCEPT !.hidden = g.hidden \ {k}]
               \/ k \in S /\ b = [NotGiven EXCEPT !.music = k]
  BY DEF Bodies
<1>. HIDE DEF S
<1>2. None # f
  BY MediaAssumption
<1>3. f \in S \/ f \in ListsOf(g)
  <2>1. CASE k \in S /\ b = [NotGiven EXCEPT !.images = g.images \cup {k}]
    BY <1>2, <2>1 DEF NotGiven, InBody, ListsOf
  <2>2. CASE b = [NotGiven EXCEPT !.images = g.images \ {k}]
    BY <1>2, <2>2 DEF NotGiven, InBody, ListsOf
  <2>3. CASE k \in g.moments /\ b = [NotGiven EXCEPT !.moments = g.moments \ {k}, !.hidden = g.hidden \cup {k}]
    BY <1>2, <2>3 DEF NotGiven, InBody, ListsOf
  <2>4. CASE b = [NotGiven EXCEPT !.moments = g.moments \ {k}]
    BY <1>2, <2>4 DEF NotGiven, InBody, ListsOf
  <2>5. CASE b = [NotGiven EXCEPT !.hidden = g.hidden \ {k}]
    BY <1>2, <2>5 DEF NotGiven, InBody, ListsOf
  <2>6. CASE k \in S /\ b = [NotGiven EXCEPT !.music = k]
    BY <1>2, <2>6 DEF NotGiven, InBody, ListsOf
  <2>. QED BY ONLY <1>1, <2>1, <2>2, <2>3, <2>4, <2>5, <2>6
<1>. QED BY <1>3 DEF S

LEMMA InitPhotos == CatalogInit => PhotosInv
<1> SUFFICES ASSUME CatalogInit, NEW f \in Files PROVE ToCome(f) /\ Carried(f) /\ Shown(f)
  BY InitLinked DEF PhotosInv, PhotosKept
<1>. USE DEF CatalogInit, Init
<1>1. \A w \in Workers : calls[w] = Idle /\ ~Carries(w, f) /\ f \notin calls[w].seen
  BY DEF Carries, Idle
<1>2. ToCome(f)
  <2> SUFFICES ASSUME f > drawn
               PROVE  /\ media[f] = "none" /\ Young(f) /\ InOnly(f, {})
                      /\ \A w \in Workers : Untouched(calls[w], f, {})
    BY DEF ToCome
  <2>1. f \notin 0 .. InitFiles
    BY MediaAssumption
  <2>2. media[f] = "none" /\ Young(f)
    BY <1>1, <2>1, MediaAssumption DEF Young
  <2>3. InOnly(f, {})
    BY <2>1, ReferencesAssumption, MediaAssumption DEF InOnly, ListsOf, Ids
  <2>. QED BY <1>1, <2>2, <2>3, IdleUntouched
<1>3. Carried(f)
  BY <1>1 DEF Carried
<1>4. Shown(f)
  BY DEF Shown
<1>. QED BY <1>2, <1>3, <1>4

\* Nothing that the invariant is about changes but the calls of w, which ends.
LEMMA PhotosStay ==
  ASSUME PhotosInv, UNCHANGED <<objects, media, drawn, galleries, templates, guests, edited, deleted>>,
         \A v \in Workers : calls'[v] = calls[v] \/ calls'[v] = Idle
  PROVE  PhotosKept'
<1>. SUFFICES ASSUME NEW f \in Files \ deleted PROVE ToCome(f)' /\ Carried(f)' /\ Shown(f)'
  BY DEF PhotosKept
<1>1. ToCome(f) /\ Carried(f) /\ Shown(f)
  BY DEF PhotosInv, PhotosKept
<1>2. \A H : InOnly(f, H)' <=> InOnly(f, H)
  BY DEF InOnly, Ids
<1>3. ASSUME NEW v \in Workers, NEW H, Untouched(calls[v], f, H) PROVE Untouched(calls[v], f, H)'
  <2>1. CASE calls'[v] = calls[v]
    BY <1>3, <2>1 DEF Untouched
  <2>2. CASE calls'[v] = Idle
    <3>1. Untouched(Idle, f, H)
      BY IdleUntouched
    <3>. HIDE DEF Idle
    <3>. QED BY <2>2, <3>1 DEF Untouched
  <2>. QED BY <2>1, <2>2
<1>4. Idle.seen = {} /\ Idle.op = "none"
  BY DEF Idle
<1>. HIDE DEF Idle
<1>5. Young(f) => Young(f)'
  BY <1>4 DEF Young
<1>6. \A v \in Workers : Carries(v, f)' => Carries(v, f) /\ calls'[v] = calls[v]
  BY <1>4 DEF Carries
<1>7. ToCome(f)'
  BY <1>1, <1>2, <1>3, <1>5 DEF ToCome
<1>8. Carried(f)'
  BY <1>1, <1>2, <1>3, <1>5, <1>6 DEF Carried, At
<1>9. Shown(f)'
  BY <1>1, <1>2, <1>3 DEF Shown
<1>. QED BY <1>7, <1>8, <1>9

\* No such file is a local one, none is unnumbered, and those that are not to come
\* have been drawn.
LEMMA Numbered ==
  ASSUME TypeInv, NEW f \in Files
  PROVE  /\ f # 0 /\ f # None
         /\ f > drawn => f \notin LocalFiles
         /\ media[f] # "none" => f \notin LocalFiles
         /\ \A w \in Workers : Carries(w, f) => f \notin LocalFiles
         /\ f \in objects => ~(f > drawn)
<1>1. f # 0 /\ f # None /\ f \in Nat
  BY MediaAssumption DEF Files
<1>2. drawn \in Nat /\ InitFiles \in Nat /\ InitFiles <= drawn /\ LocalFiles \subseteq 1 .. InitFiles
      /\ objects \subseteq 1 .. drawn
  BY MediaAssumption DEF TypeInv, StoresOK
<1>3. f > drawn => f \notin LocalFiles
  BY <1>1, <1>2
<1>4. media[f] # "none" => f \notin LocalFiles
  BY DEF TypeInv, StoresOK
<1>5. \A w \in Workers : Carries(w, f) => f \notin LocalFiles
  BY Mine DEF Carries, HasRead
<1>6. f \in objects => ~(f > drawn)
  BY <1>1, <1>2
<1>. QED BY <1>1, <1>3, <1>4, <1>5, <1>6

\* What a call that begins may touch.
LEMMA StartUntouched ==
  ASSUME LinkedInv, NEW w \in Workers, NEW k, Started(w, k), NEW f \in Files \ deleted', NEW H,
         H \cap edited' = {}, InOnly(f, H), f \notin Spare, f \notin LocalFiles,
         f \in GalleryFiles \/ (f \notin Rows \ Held /\ media[f] # "old")
  PROVE  Untouched(calls[w], f, H)'
<1>1. /\ Begin(w, k) /\ IsCall(k) /\ FirstReads(k) /\ Recorded(k)
      /\ UNCHANGED <<media, galleries, templates>>
  BY DEF Started, stores, refs
<1>2. /\ calls'[w].op = k.op /\ calls'[w].pc = k.pc /\ calls'[w].inv = k.inv
      /\ calls'[w].file = k.file /\ calls'[w].given = k.given /\ calls'[w].todo = k.todo
      /\ calls'[w].used = k.used /\ calls'[w].seen \subseteq Rows \ Held
  BY <1>1, Begun DEF LinkedInv
<1>3. f # 0 /\ f # None
  BY Numbered DEF LinkedInv
<1>4. \A t \in DOMAIN templates : templates[t].preview # f
  BY DEF InOnly, Ids
<1>5. k.file # f /\ f \notin k.todo
  BY <1>1, <1>3, <1>4 DEF FirstReads, Recorded, Idle
<1>6. k.op = "edit" => ~InBody(f, k.given)
  <2>1. ASSUME k.op = "edit" PROVE k.inv \in Invitations /\ k.given \in Bodies(galleries[k.inv])
                                   /\ k.inv \notin H
    BY <1>1, <2>1 DEF FirstReads, Recorded, Idle
  <2>2. ASSUME k.op = "edit" PROVE f \notin ListsOf(galleries[k.inv]) /\ galleries[k.inv] \in Galleries
    BY <2>1, <2>2 DEF InOnly, LinkedInv, TypeInv, StoresOK
  <2>. QED BY <2>1, <2>2, BodyHolds
<1>7. k.op = "template" => k.given # f
  BY <1>1, <1>3 DEF FirstReads, Idle
<1>8. k.pc # "writeMoments" /\ k.pc # "readOld"
  BY <1>1 DEF FirstReads, Idle
<1>9. k.pc = "readTemplates" => k.used = GalleryFiles
  BY <1>1 DEF FirstReads, Idle
<1>. QED BY <1>1, <1>2, <1>5, <1>6, <1>7, <1>8, <1>9 DEF Untouched

LEMMA StartPhotos ==
  ASSUME PhotosInv, NEW w \in Workers, Start(w)
  PROVE  PhotosKept'
<1>1. PICK k : Started(w, k)
  BY StartsAt DEF PhotosInv, LinkedInv
<1>2. /\ Begin(w, k) /\ IsCall(k) /\ FirstReads(k) /\ Recorded(k)
      /\ UNCHANGED <<objects, media, drawn, galleries, templates>>
  BY <1>1 DEF Started, stores, refs
<1>3. /\ calls'[w].op = k.op /\ calls'[w].pc = k.pc /\ calls'[w].seen \subseteq Rows \ Held
      /\ calls[w].pc = "idle" /\ \A v \in Workers : v # w => calls'[v] = calls[v]
  BY <1>2, Begun DEF PhotosInv, LinkedInv
<1>4. edited \subseteq edited' /\ deleted \subseteq deleted' /\ guests' = guests
  BY <1>2 DEF Recorded
<1>. SUFFICES ASSUME NEW f \in Files \ deleted' PROVE ToCome(f)' /\ Carried(f)' /\ Shown(f)'
  BY DEF PhotosKept
<1>5. ToCome(f) /\ Carried(f) /\ Shown(f)
  BY <1>4 DEF PhotosInv, PhotosKept
<1>6. \A H : InOnly(f, H)' <=> InOnly(f, H)
  BY <1>2 DEF InOnly, Ids
<1>7. \A v \in Workers : v # w => \A H : Untouched(calls[v], f, H)' <=> Untouched(calls[v], f, H)
  BY <1>2, <1>3 DEF Untouched
<1>8. Young(f) /\ f \notin Rows \ Held => Young(f)'
  BY <1>2, <1>3 DEF Young
<1>9. ToCome(f)'
  <2>. SUFFICES ASSUME f > drawn
                PROVE  /\ media'[f] = "none" /\ Young(f)' /\ InOnly(f, {})'
                       /\ \A v \in Workers : Untouched(calls[v], f, {})'
    BY <1>2 DEF ToCome
  <2>1. /\ media[f] = "none" /\ Young(f) /\ InOnly(f, {})
        /\ \A v \in Workers : Untouched(calls[v], f, {})
    BY <1>5 DEF ToCome
  <2>2. f \notin Rows /\ f \notin Spare /\ f \notin LocalFiles
    BY <2>1, Numbered DEF Rows, Spare, PhotosInv, LinkedInv
  <2>3. Untouched(calls[w], f, {})'
    BY <1>1, <2>1, <2>2, StartUntouched DEF PhotosInv
  <2>. QED BY <1>2, <1>6, <1>7, <1>8, <2>1, <2>2, <2>3
<1>10. Carried(f)'
  <2>. SUFFICES ASSUME NEW u \in Workers, Carries(u, f)'
                PROVE  /\ f \in objects' /\ (At(u, "push")' => media'[f] # "none") /\ Young(f)'
                       /\ InOnly(f, {})' /\ \A v \in Workers : v # u => Untouched(calls[v], f, {})'
    BY DEF Carried
  <2>1. u # w
    BY <1>2, <1>3 DEF Carries, FirstReads, Idle
  <2>2. Carries(u, f) /\ calls'[u] = calls[u]
    BY <1>3, <2>1 DEF Carries
  <2>3. /\ f \in objects /\ (At(u, "push") => media[f] # "none") /\ Young(f) /\ InOnly(f, {})
        /\ \A v \in Workers : v # u => Untouched(calls[v], f, {})
    BY <1>5, <2>2 DEF Carried
  <2>4. f \in Held
    BY <2>2 DEF Carries, Held
  <2>5. f \notin Spare /\ f \notin LocalFiles /\ f \notin Rows \ Held /\ media[f] # "old"
    BY <2>2, <2>3, <2>4, Numbered DEF Spare, Young, PhotosInv, LinkedInv
  <2>6. Untouched(calls[w], f, {})'
    BY <1>1, <2>3, <2>5, StartUntouched DEF PhotosInv
  <2>. QED BY <1>2, <1>6, <1>7, <1>8, <2>2, <2>3, <2>5, <2>6 DEF At
<1>11. Shown(f)'
  <2>. SUFFICES ASSUME NEW i \in Invitations \ edited', <<i, f>> \in guests'
                PROVE  /\ f \in objects' /\ media'[f] # "none" /\ InOnly(f, {i})'
                       /\ \A v \in Workers : Untouched(calls[v], f, {i})'
    BY DEF Shown
  <2>1. /\ f \in objects /\ media[f] # "none" /\ InOnly(f, {i}) /\ f \in galleries[i].moments
        /\ \A v \in Workers : Untouched(calls[v], f, {i})
    BY <1>4, <1>5 DEF Shown, PhotosInv, LinkedInv, Linked
  <2>2. f \in GalleryFiles
    <3>1. PICK g : g = galleries[i]
      OBVIOUS
    <3>2. f \in g.moments /\ g \in {galleries[j] : j \in Invitations}
      BY <2>1, <3>1
    <3>. QED BY <3>2 DEF GalleryFiles
  <2>4. f \notin Spare
    BY <2>2 DEF GalleryFiles, Spare, InUse
  <2>3. Untouched(calls[w], f, {i})'
    <3>1. f \notin LocalFiles
      BY <2>1, Numbered DEF PhotosInv, LinkedInv
    <3>. QED BY <1>1, <2>1, <2>2, <2>4, <3>1, StartUntouched DEF PhotosInv
  <2>. QED BY <1>2, <1>6, <1>7, <2>1, <2>3
<1>. QED BY <1>9, <1>10, <1>11

\* What a step does to the stores, outside the file its call holds.
LEMMA StepStores ==
  ASSUME TypeInv, NEW w \in Workers, Step(w), NEW f \in Files, calls[w].file # f
  PROVE  /\ f \in objects => f \in objects'
         /\ media'[f] = media[f]
         /\ IF PutObject(w) THEN drawn' = drawn + 1 ELSE drawn' = drawn
<1>1. media \in [Files -> {"none", "new", "old"}]
  BY DEF TypeInv, StoresOK
<1>2. CASE PutObject(w)
  BY <1>2 DEF PutObject
<1>3. CASE ~PutObject(w)
  BY <1>1, <1>3 DEF Step, MediaStep, mediaVars, stores, ReadGallery, InsertRow, Push,
     SetAvatar, ReadInvitation, DeleteObject, DeleteRow, RequestFails, WriteInvitation, ReadTemplates,
     ReadOld, ReadInvitations, ScriptRow, WritePreview, ReadMoments, WriteMoments, InsertTemplate,
     WriteTemplate, StoreStamp, FillShelf, DropAll, DropActive, DropDetail, DropList, ReadReview,
     Upsert, Remove, DropReviews
<1>. QED BY <1>2, <1>3

LEMMA StepTemplates ==
  ASSUME NEW w \in Workers, Step(w), ~WritePreview(w), ~InsertTemplate(w), ~WriteTemplate(w)
  PROVE  templates' = templates
  BY DEF Step, MediaStep, mediaVars, refs, ReadGallery, PutObject, InsertRow, Push,
     SetAvatar, ReadInvitation, DeleteObject, DeleteRow, RequestFails, WriteInvitation, ReadTemplates,
     ReadOld, ReadInvitations, ScriptRow, ReadMoments, WriteMoments, StoreStamp, FillShelf, DropAll,
     DropActive, DropDetail, DropList, ReadReview, Upsert, Remove, DropReviews

\* No step shows a file that its call does not touch.
LEMMA StepInOnly ==
  ASSUME LinkedInv, NEW w \in Workers, Step(w), NEW f \in Files, NEW H,
         InOnly(f, H), Untouched(calls[w], f, H)
  PROVE  InOnly(f, H)'
<1>1. galleries \in [Invitations -> Galleries] /\ templates \in Seq(TemplateRows)
  BY DEF LinkedInv, TypeInv, StoresOK
<1>2. IsCall(calls[w]) /\ OnItsWay(calls[w]) /\ HasRead(calls[w], begun, Len(templates))
  BY Mine DEF LinkedInv
<1>3. ASSUME NEW i \in Invitations \ H PROVE f \notin ListsOf(galleries'[i])
  <2>1. f \notin ListsOf(galleries[i])
    BY DEF InOnly
  <2>2. CASE Push(w)
    <3>1. CASE calls[w].inv = i
      <4>1. /\ galleries'[i].moments = galleries[i].moments \cup {calls[w].file}
            /\ galleries'[i].images = galleries[i].images /\ galleries'[i].hidden = galleries[i].hidden
            /\ galleries'[i].music = galleries[i].music
        BY <2>2, <3>1, PushedTo DEF LinkedInv
      <4>2. calls[w].file # f
        BY DEF Untouched
      <4>. QED BY <2>1, <4>1, <4>2 DEF ListsOf
    <3>2. CASE calls[w].inv # i
      BY <2>1, <2>2, <3>2, PushedTo DEF LinkedInv
    <3>. QED BY <3>1, <3>2
  <2>3. CASE WriteInvitation(w)
    <3>1. PICK j, b, g : j = calls[w].inv /\ b = calls[w].given /\ g = galleries[i]
      OBVIOUS
    <3>2. galleries' = [galleries EXCEPT ![j] = Merged(@, b)]
      BY <2>3, <3>1 DEF WriteInvitation
    <3>3. ~InBody(f, b)
      BY <1>2, <2>3, <3>1 DEF Untouched, WriteInvitation, At, OnItsWay
    <3>4. f \notin ListsOf(Merged(g, b))
      BY <2>1, <3>1, <3>3 DEF ListsOf, Merged, Given, InBody
    <3>5. galleries'[i] = IF i = j THEN Merged(g, b) ELSE g
      BY <1>1, <3>1, <3>2
    <3>. QED BY <2>1, <3>1, <3>4, <3>5
  <2>4. CASE WriteMoments(w)
    <3>1. PICK call, g : call = calls[w] /\ g = galleries[i]
      OBVIOUS
    <3>2. PICK moved : moved = {IF k = call.from THEN call.file ELSE k : k \in call.given}
      OBVIOUS
    <3>m. PICK raw : raw = call.used \cup {IF k = call.from THEN call.file ELSE k :
                                               k \in call.given \cap {call.from}}
      OBVIOUS
    <3>3. galleries' = [galleries EXCEPT ![call.inv] = [@ EXCEPT !.moments = moved, !.raw = raw]]
      BY <2>4, <3>1, <3>2, <3>m DEF WriteMoments
    <3>4. CASE call.inv = i
      <4>1. f \notin call.given /\ call.file # f
        BY <2>4, <3>1, <3>4 DEF Untouched, WriteMoments, At
      <4>2. f \notin moved
        BY <3>2, <4>1
      <4>3. galleries'[i] = [g EXCEPT !.moments = moved, !.raw = raw] /\ g \in Galleries
        BY <1>1, <3>1, <3>3, <3>4
      <4>4. /\ galleries'[i].moments = moved /\ galleries'[i].images = g.images
            /\ galleries'[i].hidden = g.hidden /\ galleries'[i].music = g.music
        BY <4>3 DEF Galleries
      <4>. QED BY <2>1, <3>1, <4>2, <4>4 DEF ListsOf
    <3>5. CASE call.inv # i
      BY <1>1, <2>1, <3>3, <3>5
    <3>. QED BY <3>4, <3>5
  <2>. QED BY <2>1, <2>2, <2>3, <2>4, StepGalleries
<1>4. \A t \in Ids' : templates'[t].preview # f
  <2>1. \A t \in Ids : templates[t].preview # f
    BY DEF InOnly
  <2>2. calls[w].file # f
    BY DEF Untouched
  <2>3. CASE WritePreview(w)
    <3>1. PICK shown : templates' = [t \in DOMAIN templates |->
                IF t \in shown THEN [templates[t] EXCEPT !.preview = calls[w].file] ELSE templates[t]]
      <4>1. PICK shown : shown = {t \in DOMAIN templates : t \in DOMAIN calls[w].view
                                      /\ calls[w].view[t].preview = calls[w].from}
        OBVIOUS
      <4>2. templates' = [t \in DOMAIN templates |->
                IF t \in shown THEN [templates[t] EXCEPT !.preview = calls[w].file] ELSE templates[t]]
        BY <2>3, <4>1 DEF WritePreview
      <4>. QED BY <4>2
    <3>2. ASSUME NEW t \in Ids' PROVE templates'[t].preview # f
      <4>1. PICK row \in TemplateRows : row = templates[t] /\ row.preview # f
        BY <1>1, <2>1, <3>1 DEF Ids
      <4>2. templates'[t] \in {row, [row EXCEPT !.preview = calls[w].file]}
        BY <3>1, <4>1 DEF Ids
      <4>. QED BY <2>2, <4>1, <4>2 DEF TemplateRows
    <3>. QED BY <3>2
  <2>4. CASE InsertTemplate(w)
    <3>1. PICK row : templates' = Append(templates, row) /\ row.preview = calls[w].file
      BY <2>4 DEF InsertTemplate
    <3>2. \A t \in Ids' : templates'[t] = row \/ (t \in Ids /\ templates'[t] = templates[t])
      BY <1>1, <3>1 DEF Ids
    <3>. QED BY <2>1, <2>2, <3>1, <3>2
  <2>5. CASE WriteTemplate(w)
    <3>1. PICK t0, given : t0 = calls[w].tmpl /\ given = calls[w].given
      OBVIOUS
    <3>5. PICK row : row = [preview |-> Given(given, templates[t0].preview),
                            active |-> Given(calls[w].active, templates[t0].active)]
      OBVIOUS
    <3>6. templates' = [templates EXCEPT ![t0] = row]
      BY <2>5, <3>1, <3>5 DEF WriteTemplate
    <3>2. /\ templates' = [templates EXCEPT ![t0] = row]
          /\ row.preview = Given(given, templates[t0].preview)
      BY <3>5, <3>6
    <3>3. given # f
      BY <1>2, <2>5, <3>1 DEF Untouched, WriteTemplate, At, OnItsWay
    <3>4. t0 \in Ids => row.preview # f
      BY <2>1, <3>2, <3>3 DEF Given
    <3>. QED BY <2>1, <3>2, <3>4 DEF Ids
  <2>. QED BY <2>1, <2>3, <2>4, <2>5, StepTemplates DEF Ids
<1>. QED BY <1>3, <1>4 DEF InOnly

\* A call in progress does not come to touch the file either.
LEMMA StepUntouched ==
  ASSUME LinkedInv, NEW w \in Workers, Step(w), NEW f \in Files, NEW H, H \cap edited = {},
         InOnly(f, H), Untouched(calls[w], f, H), f \notin LocalFiles,
         PutObject(w) => f # drawn + 1
  PROVE  Untouched(calls[w], f, H)'
<1>1. PICK c : c = calls[w]
  OBVIOUS
<1>2. /\ IsCall(c) /\ OnItsWay(c) /\ HasRead(c, begun, Len(templates)) /\ DOMAIN calls = Workers
      /\ galleries \in [Invitations -> Galleries]
  BY <1>1, Mine DEF LinkedInv, TypeInv, StoresOK
<1>3. PICK k : calls' = [calls EXCEPT ![w] = k] /\ GoesOn(c, k) /\ (Reads(w) \/ Keeps(c, k))
  BY <1>1, StepMoves DEF LinkedInv, Moved
<1>4. calls'[w] = k
  BY <1>2, <1>3
<1>5. media'[f] = media[f] /\ c.file # f /\ f \notin c.todo
  BY <1>1, StepStores DEF Untouched, LinkedInv
<1>6. f # 0 /\ f # None
  BY Numbered DEF LinkedInv
<1>7. CASE Keeps(c, k)
  <2>1. k.file # f /\ f \notin k.todo
    BY <1>5, <1>6, <1>7 DEF Keeps
  <2>2. k.op = "edit" => ~InBody(f, k.given)
    BY <1>1, <1>7 DEF Keeps, Untouched
  <2>3. k.op = "template" => k.given # f
    BY <1>1, <1>7 DEF Keeps, Untouched
  <2>4. k.pc \notin {"writeMoments", "readTemplates", "readOld"}
    BY <1>3, <1>7 DEF Keeps, GoesOn, FirstSteps
  <2>. QED BY <1>4, <2>1, <2>2, <2>3, <2>4 DEF Untouched
<1>8. CASE PutObject(w)
  <2>1. k = [c EXCEPT !.pc = "insertRow", !.file = drawn + 1]
    BY <1>1, <1>2, <1>4, <1>8 DEF PutObject, Continue
  <2>2. k.pc = "insertRow" /\ k.file = drawn + 1 /\ k.op = c.op /\ k.given = c.given /\ k.todo = c.todo
    BY <1>2, <2>1 DEF IsCall, Idle
  <2>. QED BY <1>1, <1>4, <1>5, <1>8, <2>2 DEF Untouched
<1>9. CASE ReadInvitation(w)
  <2>1. PICK old, todo : old = galleries[c.inv] /\ todo = Removed(old, Merged(old, c.given))
    OBVIOUS
  <2>2. k = Deleting(c, todo, "write")
    BY <1>1, <1>2, <1>4, <1>9, <2>1 DEF ReadInvitation, Continue
  <2>3. c.op = "edit" /\ c.inv \in Invitations \ H
    <3>1. c.op = "edit"
      BY <1>1, <1>2, <1>9 DEF OnItsWay, ReadInvitation, At
    <3>2. c.inv \in edited
      BY <1>1, <3>1 DEF LinkedInv, Linked
    <3>. QED BY <1>2, <3>1, <3>2 DEF HasRead
  <2>4. f \notin ListsOf(old)
    BY <2>1, <2>3 DEF InOnly
  <2>5. f \notin todo
    <3>1. todo \subseteq old.images \cup old.moments \cup old.hidden \cup ({old.music} \ {0})
      BY <2>1, RemovedAre
    <3>. QED BY <2>4, <3>1 DEF ListsOf
  <2>6. /\ k.op = c.op /\ k.given = c.given /\ k.todo = todo /\ k.file \in {c.file} \cup todo
        /\ k.pc \in {"write", "deleteObject"}
    BY <1>2, <2>2, DeletingCall
  <2>. QED BY <1>1, <1>4, <1>5, <2>3, <2>5, <2>6 DEF Untouched
<1>10. CASE ReadTemplates(w)
  <2>1. PICK used : used = c.used \cup {templates[t].preview : t \in DOMAIN templates}
    OBVIOUS
  <2>2. k = [c EXCEPT !.pc = "readOld", !.used = @ \cup {templates[t].preview : t \in DOMAIN templates}]
    BY <1>1, <1>2, <1>4, <1>10 DEF ReadTemplates, Continue
  <2>3. k = [c EXCEPT !.pc = "readOld", !.used = used]
    BY <1>2, <2>1, <2>2 DEF IsCall, Idle
  <2>4. /\ k.pc = "readOld" /\ k.used = used /\ k.op = c.op /\ k.given = c.given /\ k.todo = c.todo
        /\ k.file = c.file /\ k.seen = c.seen
    BY <1>2, <2>3 DEF IsCall, Idle
  <2>5. f \in c.used \/ (f \notin c.seen /\ media[f] # "old")
    BY <1>1, <1>10 DEF Untouched, ReadTemplates, At
  <2>. QED BY <1>1, <1>4, <1>5, <2>1, <2>4, <2>5 DEF Untouched
<1>11. CASE ReadOld(w)
  <2>1. PICK call, todo : call = [c EXCEPT !.used = {}] /\ todo = Candidates \ c.used
    OBVIOUS
  <2>2. IsCall(call) /\ call.op = c.op /\ call.given = c.given /\ call.file = c.file
    BY <1>2, <2>1 DEF IsCall, Idle
  <2>3. k \in {Idle, Deleting(call, todo, "idle")}
    BY <1>1, <1>2, <1>4, <1>11, <2>1 DEF ReadOld, Continue, Return
  <2>4. f \notin todo
    BY <1>1, <1>11, <2>1 DEF Untouched, ReadOld, At, Candidates
  <2>5. CASE k = Idle
    <3>1. Untouched(Idle, f, H)
      BY IdleUntouched
    <3>. HIDE DEF Idle
    <3>2. Idle.pc = "idle"
      BY DEF Idle
    <3>. QED BY <1>4, <1>5, <2>5, <3>1, <3>2 DEF Untouched
  <2>6. CASE k = Deleting(call, todo, "idle")
    <3>1. /\ k.op = c.op /\ k.given = c.given /\ k.todo = todo /\ k.file \in {c.file} \cup todo
          /\ k.pc \in {"idle", "deleteObject"}
      BY <2>2, <2>6, DeletingCall
    <3>. QED BY <1>1, <1>4, <1>5, <2>4, <3>1 DEF Untouched
  <2>. QED BY <2>3, <2>5, <2>6
<1>12. CASE ReadInvitations(w)
  <2>1. PICK view : view = [i \in Invitations |-> galleries[i].moments]
    OBVIOUS
  <2>2. PICK call : call = [c EXCEPT !.op = "photos", !.todo = LocalPhotos, !.view = view]
    OBVIOUS
  <2>3. /\ IsCall(call) /\ call.op = "photos" /\ call.given = c.given /\ call.file = c.file
        /\ call.todo = LocalPhotos
    BY <1>2, <2>2 DEF IsCall, Idle
  <2>4. k = NextLocal(call)
    BY <1>1, <1>2, <1>4, <1>12, <2>1, <2>2 DEF ReadInvitations, Continue
  <2>5. \/ k = Idle
        \/ /\ k.op = "photos" /\ k.file = c.file /\ k.todo \subseteq LocalPhotos
           /\ k.pc \in {"putObject", "readInvitations"}
    BY <2>3, <2>4, NextLocalCall
  <2>6. f \notin LocalPhotos
    BY DEF LocalPhotos
  <2>7. CASE k = Idle
    <3>1. Untouched(Idle, f, H)
      BY IdleUntouched
    <3>. HIDE DEF Idle
    <3>2. Idle.pc = "idle"
      BY DEF Idle
    <3>. QED BY <1>4, <1>5, <2>7, <3>1, <3>2 DEF Untouched
  <2>. QED BY <1>4, <1>5, <2>5, <2>6, <2>7 DEF Untouched
<1>13. CASE ReadMoments(w)
  <2>1. PICK i \in Invitations : Continue(w, [calls[w] EXCEPT !.pc = "writeMoments", !.inv = i,
                                                  !.given = galleries[i].moments,
                                                  !.used = galleries[i].raw])
    BY <1>13 DEF ReadMoments, HomeOf
  <2>2. PICK moments, raw : moments = galleries[i].moments /\ raw = galleries[i].raw
    OBVIOUS
  <2>3. k = [c EXCEPT !.pc = "writeMoments", !.inv = i, !.given = moments, !.used = raw]
    BY <1>1, <1>2, <1>4, <2>1, <2>2 DEF Continue
  <2>4. /\ k.pc = "writeMoments" /\ k.inv = i /\ k.given = moments /\ k.op = c.op /\ k.op = "photos"
        /\ k.todo = c.todo /\ k.file = c.file
    BY <1>1, <1>2, <1>13, <2>3 DEF IsCall, Idle, ReadMoments, At, OnItsWay
  <2>5. f \in moments => i \in H
    BY <2>2 DEF InOnly, ListsOf
  <2>. QED BY <1>4, <1>5, <2>4, <2>5 DEF Untouched
<1>. QED BY <1>3, <1>7, <1>8, <1>9, <1>10, <1>11, <1>12, <1>13 DEF Reads

\* Only a guest's call that stores its file comes to carry one, and the row follows.
LEMMA CarrierSteps ==
  ASSUME TypeInv, NEW w \in Workers, Step(w), NEW f, Carries(w, f)'
  PROVE  PutObject(w) \/ InsertRow(w)
<1>1. PICK c : c = calls[w]
  OBVIOUS
<1>2. IsCall(c) /\ OnItsWay(c) /\ DOMAIN calls = Workers
  BY <1>1, Mine DEF TypeInv
<1>3. PICK k : calls' = [calls EXCEPT ![w] = k] /\ GoesOn(c, k)
  BY <1>1, StepMoves DEF Moved
<1>4. calls'[w] = k
  BY <1>2, <1>3
<1>5. k.op = "guest" /\ k.pc \in {"insertRow", "push"}
  BY <1>4 DEF Carries
<1>6. c.op = "guest"
  BY <1>3, <1>5 DEF GoesOn
<1>7. c.pc \in {"storeStamp", "readGallery", "putObject", "insertRow", "push"}
  BY <1>2, <1>6 DEF OnItsWay
<1>8. Idle.op = "none"
  BY DEF Idle
<1>. HIDE DEF Idle
<1>9. ~ReadGallery(w) /\ ~Push(w)
  <2>1. ASSUME NEW pc, Goto(w, pc) PROVE k.pc = pc
    <3>1. PICK h : h = [c EXCEPT !.pc = pc]
      OBVIOUS
    <3>2. h.pc = pc
      BY <1>2, <3>1 DEF IsCall, Idle
    <3>. QED BY <1>1, <1>2, <1>4, <2>1, <3>1, <3>2 DEF Goto, Continue
  <2>2. ~Return(w)
    BY <1>2, <1>4, <1>5, <1>8 DEF Return, Continue
  <2>. QED BY <1>5, <2>1, <2>2 DEF ReadGallery, Push
<1>10. ~StoreStamp(w)
  <2>1. PICK h : h = [c EXCEPT !.pc = "readGallery", !.used = {}, !.stamp = 0]
    OBVIOUS
  <2>2. h.pc = "readGallery"
    BY <1>2, <2>1 DEF IsCall, Idle
  <2>. QED BY <1>1, <1>2, <1>4, <1>5, <2>1, <2>2 DEF StoreStamp, Continue
<1>11. ~RequestFails(w)
  <2>1. SUFFICES ASSUME RequestFails(w) PROVE FALSE
    OBVIOUS
  <2>2. c.pc = "putObject"
    BY <1>1, <1>6, <1>7, <2>1 DEF RequestFails, Script
  <2>3. AfterFailure(c) = Idle
    BY <2>2 DEF AfterFailure
  <2>4. calls' = [calls EXCEPT ![w] = Idle]
    BY <1>1, <2>1, <2>3 DEF RequestFails
  <2>. QED BY <1>2, <1>4, <1>5, <1>8, <2>4
<1>12. \/ StoreStamp(w) \/ ReadGallery(w) \/ PutObject(w) \/ InsertRow(w) \/ Push(w)
       \/ RequestFails(w)
  BY <1>1, <1>6, <1>7 DEF Step, MediaStep, At, Script, SetAvatar, ReadInvitation, DeleteObject,
     DeleteRow, WriteInvitation, ReadTemplates, ReadOld, ReadInvitations, ScriptRow, WritePreview,
     ReadMoments, WriteMoments, InsertTemplate, WriteTemplate, FillShelf, DropAll, DropActive,
     DropDetail, DropList, ReadReview, Upsert, Remove, DropReviews
<1>. QED BY <1>9, <1>10, <1>11, <1>12

\* What a step means for a file that its call does not touch.
LEMMA FileStays ==
  ASSUME LinkedInv, NEW w \in Workers, Step(w), NEW f \in Files, NEW H, H \cap edited = {},
         InOnly(f, H), Untouched(calls[w], f, H), f \notin LocalFiles,
         PutObject(w) => f # drawn + 1
  PROVE  /\ f \in objects => f \in objects'
         /\ media'[f] = media[f] /\ InOnly(f, H)' /\ Untouched(calls[w], f, H)'
         /\ \A v \in Workers : v # w /\ Untouched(calls[v], f, H) => Untouched(calls[v], f, H)'
         /\ Young(f) => Young(f)'
<1>1. PICK k : calls' = [calls EXCEPT ![w] = k] /\ GoesOn(calls[w], k)
  BY StepMoves DEF LinkedInv, Moved
<1>2. /\ calls'[w] = k /\ k.seen \subseteq calls[w].seen
      /\ \A v \in Workers : v # w => calls'[v] = calls[v]
  BY <1>1 DEF GoesOn, LinkedInv, TypeInv
<1>3. (f \in objects => f \in objects') /\ media'[f] = media[f]
  BY StepStores DEF Untouched, LinkedInv
<1>4. \A v \in Workers : v # w /\ Untouched(calls[v], f, H) => Untouched(calls[v], f, H)'
  BY <1>2, <1>3 DEF Untouched
<1>5. Young(f) => Young(f)'
  BY <1>2, <1>3 DEF Young
<1>. QED BY <1>3, <1>4, <1>5, StepInOnly, StepUntouched

LEMMA StepPhotos ==
  ASSUME PhotosInv, NEW w \in Workers, Step(w)
  PROVE  PhotosKept'
<1>1. /\ edited \subseteq edited' /\ deleted \subseteq deleted'
      /\ ~Push(w) => guests' = guests
  BY StepHistory
<1>. SUFFICES ASSUME NEW f \in Files \ deleted PROVE ToCome(f)' /\ Carried(f)' /\ Shown(f)'
  BY <1>1 DEF PhotosKept
<1>2. ToCome(f) /\ Carried(f) /\ Shown(f)
  BY DEF PhotosInv, PhotosKept
<1>3. PICK k : calls' = [calls EXCEPT ![w] = k] /\ GoesOn(calls[w], k)
  BY StepMoves DEF PhotosInv, LinkedInv, Moved
<1>4. /\ calls'[w] = k /\ k.seen \subseteq calls[w].seen
      /\ \A v \in Workers : v # w => calls'[v] = calls[v]
  BY <1>3 DEF GoesOn, PhotosInv, LinkedInv, TypeInv
<1>5. /\ f # 0 /\ f # None /\ f \in Nat /\ drawn \in Nat
      /\ f > drawn => f \notin LocalFiles
      /\ media[f] # "none" => f \notin LocalFiles
      /\ \A v \in Workers : Carries(v, f) => f \notin LocalFiles
      /\ f \in objects => ~(f > drawn)
  BY Numbered DEF PhotosInv, LinkedInv, TypeInv, StoresOK, Files
<1>6. f \in objects => f # drawn + 1
  BY <1>5
<1>7. ToCome(f)'
  <2>. SUFFICES ASSUME f > drawn'
                PROVE  /\ media'[f] = "none" /\ Young(f)' /\ InOnly(f, {})'
                       /\ \A v \in Workers : Untouched(calls[v], f, {})'
    BY DEF ToCome
  <2>1. f > drawn /\ (PutObject(w) => f # drawn + 1)
    <3>1. CASE PutObject(w)
      <4>1. drawn' = drawn + 1
        BY <3>1 DEF PutObject
      <4>. QED BY <1>5, <4>1
    <3>2. CASE ~PutObject(w)
      <4>1. drawn' = drawn
        BY <3>2 DEF Step, MediaStep, mediaVars, stores, ReadGallery, InsertRow, Push,
           SetAvatar, ReadInvitation, DeleteObject, DeleteRow, RequestFails, WriteInvitation,
           ReadTemplates, ReadOld, ReadInvitations, ScriptRow, WritePreview, ReadMoments,
           WriteMoments, InsertTemplate, WriteTemplate, StoreStamp, FillShelf, DropAll, DropActive,
           DropDetail, DropList, ReadReview, Upsert, Remove, DropReviews
      <4>. QED BY <3>2, <4>1
    <3>. QED BY <3>1, <3>2
  <2>2. /\ media[f] = "none" /\ Young(f) /\ InOnly(f, {})
        /\ \A v \in Workers : Untouched(calls[v], f, {})
    BY <1>2, <2>1 DEF ToCome
  <2>. QED BY <1>5, <2>1, <2>2, FileStays DEF PhotosInv
<1>8. Carried(f)'
  <2>. SUFFICES ASSUME NEW u \in Workers, Carries(u, f)'
                PROVE  /\ f \in objects' /\ (At(u, "push")' => media'[f] # "none") /\ Young(f)'
                       /\ InOnly(f, {})' /\ \A v \in Workers : v # u => Untouched(calls[v], f, {})'
    BY DEF Carried
  <2>1. CASE u # w
    <3>1. Carries(u, f) /\ (At(u, "push")' <=> At(u, "push"))
      BY <1>4, <2>1 DEF Carries, At
    <3>2. /\ f \in objects /\ (At(u, "push") => media[f] # "none") /\ Young(f) /\ InOnly(f, {})
          /\ \A v \in Workers : v # u => Untouched(calls[v], f, {})
      BY <1>2, <3>1 DEF Carried
    <3>. QED BY <1>5, <1>6, <2>1, <3>1, <3>2, FileStays DEF PhotosInv
  <2>2. CASE u = w /\ PutObject(w)
    <3>1. /\ UNCHANGED <<media, galleries, templates>> /\ objects' = objects \cup {drawn'}
          /\ drawn' = drawn + 1
      BY <2>2 DEF PutObject, refs
    <3>2. calls'[w].pc = "insertRow" /\ calls'[w].file = drawn'
      <4>1. PICK c, n : c = calls[w] /\ n = drawn'
        OBVIOUS
      <4>2. PICK h : h = [c EXCEPT !.pc = "insertRow", !.file = n]
        OBVIOUS
      <4>3. h.pc = "insertRow" /\ h.file = n
        BY <4>1, <4>2, Mine DEF IsCall, Idle, PhotosInv, LinkedInv
      <4>. QED BY <2>2, <4>1, <4>2, <4>3 DEF PutObject, Continue, PhotosInv, LinkedInv, TypeInv
    <3>3. f = drawn' /\ f > drawn
      BY <1>5, <2>2, <3>1, <3>2 DEF Carries
    <3>4. /\ Young(f) /\ InOnly(f, {}) /\ \A v \in Workers : Untouched(calls[v], f, {})
      BY <1>2, <3>3 DEF ToCome
    <3>5. f \in objects' /\ ~At(u, "push")'
      BY <2>2, <3>1, <3>2, <3>3 DEF At
    <3>6. Young(f)'
      BY <1>4, <3>1, <3>4 DEF Young
    <3>7. InOnly(f, {})'
      BY <3>1, <3>4 DEF InOnly, Ids
    <3>8. \A v \in Workers : v # u => Untouched(calls[v], f, {})'
      BY <1>4, <2>2, <3>1, <3>4 DEF Untouched
    <3>. QED BY <3>5, <3>6, <3>7, <3>8
  <2>3. CASE u = w /\ InsertRow(w)
    <3>1. /\ UNCHANGED <<objects, galleries, templates>>
          /\ media' = [media EXCEPT ![calls[w].file] = "new"]
      BY <2>3 DEF InsertRow, refs
    <3>2. calls[w].pc = "insertRow"
      BY <2>3 DEF InsertRow, At
    <3>3. Carries(w, f)
      <4>1. PICK c : c = calls[w]
        OBVIOUS
      <4>2. k.op = "guest" /\ k.file = f
        BY <1>4, <2>3 DEF Carries
      <4>3. c.op = "guest"
        BY <1>3, <4>1, <4>2 DEF GoesOn
      <4>4. Goto(w, "push")
        BY <2>3, <4>1, <4>3 DEF InsertRow, AfterRow
      <4>5. PICK h : h = [c EXCEPT !.pc = "push"]
        OBVIOUS
      <4>6. h.file = c.file
        BY <4>1, <4>5, Mine DEF IsCall, Idle, PhotosInv, LinkedInv
      <4>7. k = h
        BY <1>4, <4>1, <4>4, <4>5 DEF Goto, Continue, PhotosInv, LinkedInv, TypeInv
      <4>. QED BY <3>2, <4>1, <4>2, <4>3, <4>6, <4>7 DEF Carries
    <3>4. /\ f \in objects /\ Young(f) /\ InOnly(f, {})
          /\ \A v \in Workers : v # w => Untouched(calls[v], f, {})
      BY <1>2, <3>3 DEF Carried
    <3>5. media'[f] = "new"
      BY <3>1, <3>3 DEF Carries, PhotosInv, LinkedInv, TypeInv, StoresOK
    <3>6. Young(f)'
      BY <1>4, <3>4, <3>5 DEF Young
    <3>7. InOnly(f, {})'
      BY <3>1, <3>4 DEF InOnly, Ids
    <3>8. \A v \in Workers : v # u => Untouched(calls[v], f, {})'
      BY <1>4, <2>3, <3>4, <3>5 DEF Untouched
    <3>. QED BY <3>1, <3>4, <3>5, <3>6, <3>7, <3>8
  <2>. QED BY <2>1, <2>2, <2>3, CarrierSteps DEF PhotosInv, LinkedInv
<1>9. Shown(f)'
  <2>. SUFFICES ASSUME NEW i \in Invitations \ edited', <<i, f>> \in guests'
                PROVE  /\ f \in objects' /\ media'[f] # "none" /\ InOnly(f, {i})'
                       /\ \A v \in Workers : Untouched(calls[v], f, {i})'
    BY DEF Shown
  <2>1. i \notin edited
    BY <1>1
  <2>2. CASE <<i, f>> \in guests
    <3>1. /\ f \in objects /\ media[f] # "none" /\ InOnly(f, {i})
          /\ \A v \in Workers : Untouched(calls[v], f, {i})
      BY <1>2, <2>1, <2>2 DEF Shown
    <3>. QED BY <1>5, <1>6, <2>1, <3>1, FileStays DEF PhotosInv
  <2>3. CASE <<i, f>> \notin guests
    <3>1. Push(w)
      BY <1>1, <2>3
    <3>2. /\ calls[w].op = "guest" /\ calls[w].inv = i /\ calls[w].file = f
          /\ calls' = [calls EXCEPT ![w] = Idle]
          /\ \A j \in Invitations : j # i => galleries'[j] = galleries[j]
      <4>1. PICK j, g : j = calls[w].inv /\ g = calls[w].file
        OBVIOUS
      <4>2. /\ guests' = IF calls[w].op = "guest" THEN guests \cup {<<j, g>>} ELSE guests
            /\ calls' = [calls EXCEPT ![w] = Idle]
            /\ \A h \in Invitations : h # j => galleries'[h] = galleries[h]
        BY <3>1, <4>1, PushedTo DEF PhotosInv, LinkedInv
      <4>3. calls[w].op = "guest" /\ <<i, f>> = <<j, g>>
        BY <2>3, <4>2
      <4>. QED BY <4>1, <4>2, <4>3
    <3>3. UNCHANGED <<objects, media, templates>> /\ At(w, "push")
      BY <3>1 DEF Push, stores
    <3>4. Carries(w, f)
      BY <3>2, <3>3 DEF Carries, At
    <3>5. /\ f \in objects /\ media[f] # "none" /\ InOnly(f, {})
          /\ \A v \in Workers : v # w => Untouched(calls[v], f, {})
      BY <1>2, <3>3, <3>4 DEF Carried
    <3>6. InOnly(f, {i})'
      BY <3>2, <3>3, <3>5 DEF InOnly, Ids
    <3>7. \A v \in Workers : v # w => Untouched(calls[v], f, {i})'
      BY <1>4, <3>3, <3>5 DEF Untouched
    <3>8. Untouched(calls[w], f, {i})'
      <4>1. Untouched(Idle, f, {i})
        BY IdleUntouched
      <4>. HIDE DEF Idle
      <4>2. calls'[w] = Idle
        BY <3>2 DEF PhotosInv, LinkedInv, TypeInv
      <4>. QED BY <3>3, <4>1, <4>2 DEF Untouched
    <3>. QED BY <3>3, <3>5, <3>6, <3>7, <3>8
  <2>. QED BY <2>2, <2>3
<1>. QED BY <1>7, <1>8, <1>9

\* A day passes on no file that a guest's call carries.
LEMMA OlderPhotos ==
  ASSUME PhotosInv, NEW g \in Files, GrowOld(g)
  PROVE  PhotosKept'
<1>1. /\ media[g] = "new" /\ media' = [media EXCEPT ![g] = "old"]
      /\ \A v \in Workers : At(v, "idle") \/ g \in calls[v].seen
      /\ UNCHANGED <<calls, objects, drawn, galleries, templates, guests, edited, deleted>>
  BY DEF GrowOld, TimeOut, refs, history
<1>. SUFFICES ASSUME NEW f \in Files \ deleted PROVE ToCome(f)' /\ Carried(f)' /\ Shown(f)'
  BY <1>1 DEF PhotosKept
<1>2. ToCome(f) /\ Carried(f) /\ Shown(f)
  BY DEF PhotosInv, PhotosKept
<1>3. \A H : InOnly(f, H)' <=> InOnly(f, H)
  BY <1>1 DEF InOnly, Ids
<1>4. \A v \in Workers : Carries(v, f)' <=> Carries(v, f)
  BY <1>1 DEF Carries
<1>5. media \in [Files -> {"none", "new", "old"}]
  BY DEF PhotosInv, LinkedInv, TypeInv, StoresOK
<1>6. f # g => ToCome(f)' /\ Carried(f)' /\ Shown(f)'
  <2>1. ASSUME f # g PROVE media'[f] = media[f]
    BY <1>1, <2>1
  <2>2. ASSUME f # g PROVE \A v \in Workers : \A H : Untouched(calls[v], f, H)' <=> Untouched(calls[v], f, H)
    BY <1>1, <2>1, <2>2 DEF Untouched
  <2>3. f # g => (Young(f)' <=> Young(f))
    BY <1>1, <2>1 DEF Young
  <2>4. f # g => ToCome(f)'
    BY <1>1, <1>2, <1>3, <2>1, <2>2, <2>3 DEF ToCome
  <2>5. f # g => Carried(f)'
    BY <1>1, <1>2, <1>3, <1>4, <2>1, <2>2, <2>3 DEF Carried, At
  <2>6. f # g => Shown(f)'
    BY <1>1, <1>2, <1>3, <2>1, <2>2 DEF Shown
  <2>. QED BY <2>4, <2>5, <2>6
<1>7. ASSUME f = g PROVE ToCome(f)' /\ Carried(f)' /\ Shown(f)'
  <2>1. ToCome(f)'
    BY <1>1, <1>2, <1>7 DEF ToCome
  <2>2. \A v \in Workers : ~Carries(v, f)
    BY <1>1, <1>2, <1>7 DEF Carried, Carries, Young, At
  <2>3. Carried(f)'
    BY <1>4, <2>2 DEF Carried
  <2>4. ASSUME NEW v \in Workers, NEW H, Untouched(calls[v], f, H) PROVE Untouched(calls[v], f, H)'
    BY <1>1, <1>7, <2>4 DEF Untouched, At
  <2>5. media'[f] # "none"
    BY <1>1, <1>5, <1>7
  <2>6. Shown(f)'
    BY <1>1, <1>2, <1>3, <2>4, <2>5 DEF Shown
  <2>. QED BY <2>1, <2>3, <2>6
<1>. QED BY <1>6, <1>7

LEMMA NextPhotos == PhotosInv /\ [Next]_vars => PhotosInv'
<1> SUFFICES ASSUME PhotosInv, [Next]_vars PROVE PhotosKept'
  BY NextLinked DEF PhotosInv
<1>1. ASSUME NEW w \in Workers, Start(w) PROVE PhotosKept'
  BY <1>1, StartPhotos
<1>2. ASSUME NEW w \in Workers, Step(w) PROVE PhotosKept'
  BY <1>2, StepPhotos
<1>3. CASE \E w \in Workers : Fail(w)
  <2>1. PICK w \in Workers : Fail(w)
    BY <1>3
  <2>2. /\ UNCHANGED <<objects, media, drawn, galleries, templates, guests, edited, deleted>>
        /\ calls' = [calls EXCEPT ![w] = Idle]
    BY <2>1 DEF Fail, mediaVars, stores, refs, history
  <2>. HIDE DEF Idle
  <2>3. \A v \in Workers : calls'[v] = calls[v] \/ calls'[v] = Idle
    BY <2>2 DEF PhotosInv, LinkedInv, TypeInv
  <2>. QED BY <2>2, <2>3, PhotosStay
<1>4. ASSUME NEW g \in Files, GrowOld(g) PROVE PhotosKept'
  BY <1>4, OlderPhotos
<1>5. CASE \/ \E now \in 1 .. MaxCalls : MinutePasses(now)
           \/ \E key \in ShelfKeys : ShelfExpires(key)
  <2>1. UNCHANGED <<objects, media, drawn, galleries, templates, guests, edited, deleted, calls>>
    BY <1>5 DEF MinutePasses, ShelfExpires, TimeOut, mediaVars, stores, refs, history
  <2>. QED BY <2>1, PhotosStay
<1>6. CASE UNCHANGED vars
  <2>1. UNCHANGED <<objects, media, drawn, galleries, templates, guests, edited, deleted, calls>>
    BY <1>6 DEF vars, mediaVars, stores, refs, history
  <2>. QED BY <2>1, PhotosStay
<1>. QED BY <1>1, <1>2, <1>3, <1>4, <1>5, <1>6 DEF Next, TimePasses

\* A clean-up (cleanupOrphans of media.service.ts) deletes from references that it
\* read queries ago, and an edit and the script write from such ones: for any number
\* of galleries and calls, overlapping, failing or dying, none of them takes the
\* object or the row of a photo that guestUpload pushed to a gallery whose lists
\* nobody set out to replace, unless somebody deletes the file by its id.
THEOREM GuestPhotosKept == Spec => []GuestPhotosSafe
<1>. QED BY InitPhotos, NextPhotos, PhotosSafe, PTL DEF Spec
-----------------------------------------------------------------------------
(* Objects, rows and references *)

Spots == (Kinds \X Invitations) \cup ({"preview"} \X Nat) \cup {<<"avatar", 0>>}

\* What a clean-up looks at.
Lasting == Spots \ {<<"avatar", 0>>}

Shows(p) == UsedAt(galleries, templates, avatar, p)

Unused(f) == \A p \in Spots : f \notin Shows(p)

\* A stored file that may be put to use.
Free(f) == f \in objects \cap Rows /\ Unused(f)

\* The files of K are free.
AllFree(K) == K \in SUBSET Files /\ \A f \in K : Free(f)

\* Gallery g adds them to gallery old, in the lists of one kind.
Extends(old, g, kind, K) ==
    \A n \in Kinds : Group(g, n) \subseteq Group(old, n) \cup (IF n = kind THEN K ELSE {})

\* Body b takes files off gallery g and adds to one list files in no use.
FitBody(g, b) ==
    \E kind \in Kinds, K \in SUBSET Files : AllFree(K) /\ Extends(g, Merged(g, b), kind, K)

\* The references that the write of call c will drop.
Leaves(c) ==
    IF c.op = "edit" THEN Dropped(galleries[c.inv], Merged(galleries[c.inv], c.given))
    ELSE IF /\ c.op = "template" /\ c.given # None
            /\ c.pc \in {"deleteObject", "deleteRow", "writeTemplate"}
    THEN {templates[c.tmpl].preview}
    ELSE {}

\* The file of which call c has written one store and not yet the other.
Apart(c) == IF c.pc \in {"insertRow", "deleteRow"} THEN {c.file} ELSE {}

StoresAgree ==
    \A f \in Files : (f \in objects <=> f \in Rows) \/ \E w \in Workers : f \in Apart(calls[w])

OnePlace == \A p, q \in Spots : p # q => Shows(p) \cap Shows(q) = {}

AllDrawn == \A p \in Spots : Shows(p) \subseteq 1 .. drawn

RefsAgree ==
    \A p \in Lasting : \A f \in Shows(p) :
        f \in Rows \cup LocalFiles \cup deleted \/ \E w \in Workers : f \in Leaves(calls[w])

Deletes == {"deleteObject", "deleteRow"}

\* What a call that is alone knows of the files it has in hand.
CallTidy(c) ==
    /\ c.pc = "insertRow" => c.file \in objects /\ Unused(c.file)
    /\ c.pc = "deleteRow" => c.file \notin objects
    /\ c.pc \in {"push", "writePreview", "readMoments", "writeMoments", "insertTemplate"} => Free(c.file)
    /\ c.pc = "setAvatar" => c.file = 0 \/ Free(c.file)
    /\ c.op = "edit" => FitBody(galleries[c.inv], c.given)
    /\ c.op = "edit" /\ c.pc \in Deletes =>
          c.todo \subseteq Leaves(c) \cup deleted /\ \A f \in c.todo : ~Unused(f)
    /\ c.op = "template" /\ c.pc \in Deletes => c.todo \subseteq Leaves(c)
    /\ c.op = "template" /\ c.pc \in Deletes \cup {"writeTemplate"} => c.given = None \/ Free(c.given)
    /\ c.pc = "readTemplates" => \A p \in Kinds \X Invitations : Shows(p) \subseteq c.used
    /\ c.pc = "readOld" => \A p \in Lasting : Shows(p) \subseteq c.used
    /\ c.op = "clean" /\ c.pc \in Deletes => \A p \in Lasting : Shows(p) \cap c.todo = {}
    /\ c.op = "delete" => c.todo \subseteq deleted
    /\ c.op = "previews" =>
          \A s, t \in DOMAIN c.view : c.view[s].preview = c.view[t].preview => s = t
    /\ c.pc = "writeMoments" => c.given \subseteq galleries[c.inv].moments

Tidy ==
    ~disturbed =>
        /\ StoresAgree /\ OnePlace /\ AllDrawn /\ RefsAgree
        /\ \A w \in Workers : CallTidy(calls[w])

TidyInv == TypeInv /\ Alone /\ Tidy

LEMMA UsedAre ==
  \A gs, ts, a :
      /\ \A kind \in Kinds : \A i : UsedAt(gs, ts, a, <<kind, i>>) = Group(gs[i], kind)
      /\ \A n : UsedAt(gs, ts, a, <<"preview", n>>) = {ts[t].preview : t \in DOMAIN ts \cap {n}}
      /\ UsedAt(gs, ts, a, <<"avatar", 0>>) = {a} \ {0}
  BY DEF UsedAt, Kinds

LEMMA ShowsAre ==
  /\ \A kind \in Kinds : \A i : Shows(<<kind, i>>) = Group(galleries[i], kind)
  /\ \A n : Shows(<<"preview", n>>) = {templates[t].preview : t \in Ids \cap {n}}
  /\ Shows(<<"avatar", 0>>) = {avatar} \ {0}
  BY UsedAre DEF Shows, Ids

LEMMA ShowNext ==
  /\ \A kind \in Kinds : \A i : Shows(<<kind, i>>)' = Group(galleries'[i], kind)
  /\ \A n : Shows(<<"preview", n>>)' = {templates'[t].preview : t \in Ids' \cap {n}}
  /\ Shows(<<"avatar", 0>>)' = {avatar'} \ {0}
  BY UsedAre DEF Shows, Ids

LEMMA GroupsAre ==
  ASSUME NEW g
  PROVE  /\ Group(g, "images") = g.images /\ Group(g, "photos") = g.moments \cup g.hidden
         /\ Group(g, "music") = {g.music} \ {0}
  BY DEF Group

LEMMA SpotsAre ==
  ASSUME NEW p \in Spots
  PROVE  \/ p \in Lasting /\ \E kind \in Kinds, i \in Invitations : p = <<kind, i>>
         \/ p \in Lasting /\ \E n \in Nat : p = <<"preview", n>>
         \/ p = <<"avatar", 0>>
<1>1. CASE p \in Kinds \X Invitations
  BY <1>1 DEF Spots, Lasting, Kinds
<1>2. CASE p \in {"preview"} \X Nat
  BY <1>2 DEF Spots, Lasting
<1>. QED BY <1>1, <1>2 DEF Spots

LEMMA IdleTidy ==
  ASSUME NEW c, c.op = "none", c.pc = "idle"
  PROVE  CallTidy(c) /\ Apart(c) = {} /\ Leaves(c) = {}
  BY DEF CallTidy, Apart, Leaves, Deletes

\* A call in progress is alone.
LEMMA OneCall ==
  ASSUME TidyInv, ~disturbed, NEW w \in Workers, ~At(w, "idle")
  PROVE  /\ \A v \in Workers : v # w => calls[v].op = "none" /\ calls[v].pc = "idle"
         /\ \A f \in Files : (f \in objects <=> f \in Rows) \/ f \in Apart(calls[w])
         /\ \A p \in Lasting : \A f \in Shows(p) :
               f \in Rows \cup LocalFiles \cup deleted \cup Leaves(calls[w])
         /\ OnePlace /\ AllDrawn /\ CallTidy(calls[w])
<1>1. ASSUME NEW v \in Workers, v # w PROVE calls[v].op = "none" /\ calls[v].pc = "idle"
  <2>1. calls[v].pc = "idle"
    BY <1>1 DEF TidyInv, Alone, At
  <2>2. OnItsWay(calls[v])
    BY Mine DEF TidyInv
  <2>. QED BY <2>1, <2>2 DEF OnItsWay
<1>2. \A v \in Workers : v # w => Apart(calls[v]) = {} /\ Leaves(calls[v]) = {}
  BY <1>1, IdleTidy
<1>3. StoresAgree /\ RefsAgree /\ OnePlace /\ AllDrawn /\ CallTidy(calls[w])
  BY DEF TidyInv, Tidy
<1>4. \A f \in Files : (f \in objects <=> f \in Rows) \/ f \in Apart(calls[w])
  BY <1>2, <1>3 DEF StoresAgree
<1>5. \A p \in Lasting : \A f \in Shows(p) :
          f \in Rows \cup LocalFiles \cup deleted \cup Leaves(calls[w])
  BY <1>2, <1>3 DEF RefsAgree
<1>. QED BY <1>1, <1>3, <1>4, <1>5

LEMMA ObjectFiles == TypeInv => objects \subseteq Files
<1> SUFFICES ASSUME TypeInv PROVE objects \subseteq Files
  OBVIOUS
<1>1. objects \subseteq 1 .. drawn /\ drawn \in Files \cup {0}
  BY TypeOKHolds DEF TypeOK, MediaTypeOK
<1>2. PICK n \in Int : Files = 1 .. n
  <2>1. PerCall \in Nat /\ MaxCalls \in Nat /\ InitFiles \in Nat
    BY LocalFinite, MediaAssumption
  <2>2. MaxCalls * PerCall \in Nat
    BY ONLY <2>1
  <2>3. InitFiles + MaxCalls * PerCall \in Int
    BY ONLY <2>1, <2>2
  <2>. QED BY <2>3 DEF Files, PerCall
<1>3. drawn = 0 \/ drawn \in 1 .. n
  BY <1>1, <1>2
<1>4. 1 .. drawn \subseteq 1 .. n
  BY ONLY <1>3, n \in Int
<1>. QED BY <1>1, <1>2, <1>4

LEMMA UsesAre ==
  \A f : f \in InUse <=> \/ \E i \in Invitations : f \in ListsOf(galleries[i])
                         \/ \E t \in DOMAIN templates : f = templates[t].preview
                         \/ f = avatar
<1>1. \A f : (\E g \in {galleries[i] : i \in Invitations} :
                 f \in g.images \cup g.moments \cup g.hidden \cup {g.music})
             <=> \E i \in Invitations : f \in ListsOf(galleries[i])
  BY DEF ListsOf
<1>. QED BY <1>1 DEF InUse

LEMMA TidyAgrees == TidyInv => FilesAgree
<1> SUFFICES ASSUME TidyInv, ~disturbed, Quiet
             PROVE  objects = Rows /\ Referenced \subseteq Rows
  BY DEF FilesAgree
<1>1. \A w \in Workers : calls[w].op = "none" /\ calls[w].pc = "idle"
  BY Mine DEF TidyInv, Quiet, OnItsWay
<1>2. \A w \in Workers : Apart(calls[w]) = {} /\ Leaves(calls[w]) = {}
  BY <1>1, IdleTidy
<1>3. StoresAgree /\ RefsAgree /\ AllDrawn
  BY DEF TidyInv, Tidy
<1>4. objects \subseteq Files /\ Rows \subseteq Files
  BY ObjectFiles DEF TidyInv, Rows
<1>5. objects = Rows
  BY <1>2, <1>3, <1>4 DEF StoresAgree
<1>6. ASSUME NEW f \in Referenced PROVE f \in Rows
  <2>1. f # 0 /\ f # avatar /\ f \notin LocalFiles \cup deleted /\ f \in InUse
    BY DEF Referenced
  <2>2. PICK p \in Lasting : f \in Shows(p)
    <3>1. CASE \E i \in Invitations : f \in ListsOf(galleries[i])
      <4>1. PICK i \in Invitations : f \in ListsOf(galleries[i])
        BY <3>1
      <4>2. PICK kind \in Kinds : f \in Group(galleries[i], kind)
        BY <2>1, <4>1, GroupsAre DEF ListsOf, Kinds
      <4>4. <<kind, i>> \in Lasting
        BY DEF Lasting, Spots, Kinds
      <4>3. f \in Shows(<<kind, i>>) /\ <<kind, i>> \in Lasting
        BY <4>2, <4>4, ShowsAre
      <4>. QED BY <4>3
    <3>2. CASE \E t \in DOMAIN templates : f = templates[t].preview
      <4>1. PICK t \in DOMAIN templates : f = templates[t].preview
        BY <3>2
      <4>2. t \in Nat
        BY <4>1 DEF TidyInv, TypeInv, StoresOK
      <4>4. <<"preview", t>> \in Lasting
        BY <4>2 DEF Lasting, Spots
      <4>3. f \in Shows(<<"preview", t>>) /\ <<"preview", t>> \in Lasting
        BY <4>1, <4>4, ShowsAre DEF Ids
      <4>. QED BY <4>3
    <3>. QED BY <2>1, <3>1, <3>2, UsesAre
  <2>. QED BY <1>2, <1>3, <2>1, <2>2 DEF RefsAgree
<1>. QED BY <1>5, <1>6

LEMMA InitTidy == CatalogInit => TidyInv
<1> SUFFICES ASSUME CatalogInit PROVE Tidy
  BY InitTypeInv, InitAlone DEF TidyInv
<1>. USE DEF CatalogInit, Init
<1>1. \A w \in Workers : CallTidy(calls[w])
  BY IdleTidy DEF Idle
<1>2. StoresAgree
  BY DEF StoresAgree, Rows
<1>3. ASSUME NEW p \in Spots PROVE p \in Places(InitTemplates) \/ Shows(p) = {}
  <2>1. CASE \E n \in Nat : p = <<"preview", n>>
    BY <2>1, ShowsAre DEF Places, Ids
  <2>2. CASE p \in (Kinds \X Invitations) \cup {<<"avatar", 0>>}
    BY <2>2 DEF Places
  <2>. QED BY <2>1, <2>2 DEF Spots
<1>4. OnePlace
  BY <1>3, OnePlaceAssumption DEF OnePlace, Shows
<1>5. ASSUME NEW p \in Spots PROVE Shows(p) \subseteq 1 .. InitFiles
  <2>1. CASE \E kind \in Kinds, i \in Invitations : p = <<kind, i>>
    <3>1. PICK kind \in Kinds, i \in Invitations : p = <<kind, i>>
      BY <2>1
    <3>2. PICK g : g = InitGallery[i]
      OBVIOUS
    <3>3. g.images \cup g.moments \cup g.hidden \cup {g.music} \subseteq 0 .. InitFiles /\ g \in Galleries
      BY <3>2, ReferencesAssumption, MediaAssumption
    <3>4. Group(g, kind) \subseteq 1 .. InitFiles
      <4>1. InitFiles \in Nat /\ 0 \notin Files
        BY MediaAssumption DEF Files
      <4>2. g.images \subseteq Files /\ g.moments \subseteq Files /\ g.hidden \subseteq Files
        BY <3>3 DEF Galleries
      <4>. QED BY <3>3, <4>1, <4>2, GroupsAre DEF Kinds
    <3>. QED BY <3>1, <3>2, <3>4, ShowsAre
  <2>2. CASE \E n \in Nat : p = <<"preview", n>>
    BY <2>2, ShowsAre, ReferencesAssumption DEF Ids
  <2>3. CASE p = <<"avatar", 0>>
    BY <2>3, ShowsAre, MediaAssumption
  <2>. QED BY <2>1, <2>2, <2>3, SpotsAre
<1>6. AllDrawn
  BY <1>5 DEF AllDrawn
<1>7. ASSUME NEW p \in Spots, NEW f \in Shows(p) PROVE f \in Rows \cup LocalFiles
  <2>1. f \in 1 .. InitFiles /\ f \in Files
    BY <1>5, FirstFiles
  <2>. QED BY <2>1 DEF Rows
<1>8. RefsAgree
  BY <1>7 DEF RefsAgree, Lasting
<1>. QED BY <1>1, <1>2, <1>4, <1>6, <1>8 DEF Tidy

-----------------------------------------------------------------------------
(* Steps that keep the references *)

LEMMA SameShows ==
  ASSUME UNCHANGED <<galleries, templates, avatar>>
  PROVE  /\ \A p : Shows(p)' = Shows(p)
         /\ \A f : Unused(f)' <=> Unused(f)
         /\ \A c : Leaves(c)' = Leaves(c)
<1>1. \A p : Shows(p)' = Shows(p)
  BY DEF Shows
<1>. QED BY <1>1 DEF Unused, Leaves

\* A call that is alone goes on: what the invariant asks of the stores and of it.
LEMMA TidyGoesOn ==
  ASSUME TidyInv, ~disturbed, NEW w \in Workers, ~At(w, "idle"),
         NEW k, calls' = [calls EXCEPT ![w] = k], deleted \subseteq deleted',
         drawn' = drawn \/ drawn' = drawn + 1,
         \A f \in Files : (f \in objects' <=> f \in Rows') \/ f \in Apart(k),
         NEW p0, NEW K \in SUBSET Files, \A f \in K : Free(f) /\ f \in Rows',
         \A p \in Spots : Shows(p)' \subseteq Shows(p) \cup (IF p = p0 THEN K ELSE {}),
         \A p \in Lasting : \A f \in Shows(p)' :
             f \in K \cup Rows' \cup LocalFiles \cup deleted \cup Leaves(k)',
         CallTidy(k)'
  PROVE  Tidy'
<1>1. /\ \A v \in Workers : v # w => calls[v].op = "none" /\ calls[v].pc = "idle"
      /\ OnePlace /\ AllDrawn
  BY OneCall
<1>2. calls'[w] = k /\ \A v \in Workers : v # w => calls'[v] = calls[v]
  BY DEF TidyInv, TypeInv
<1>3. \A v \in Workers : v # w => CallTidy(calls[v])'
  BY <1>1, <1>2, IdleTidy DEF CallTidy, Deletes
<1>4. CallTidy(calls[w])'
  BY <1>2 DEF CallTidy
<1>5. StoresAgree'
  BY <1>2 DEF StoresAgree, Apart
<1>6. OnePlace'
  BY <1>1 DEF OnePlace, Free, Unused
<1>7. AllDrawn'
  <2>1. objects \subseteq 1 .. drawn /\ drawn \in Nat
    BY DEF TidyInv, TypeInv, StoresOK
  <2>2. 1 .. drawn \subseteq 1 .. drawn'
    BY ONLY <2>1, drawn' = drawn \/ drawn' = drawn + 1
  <2>3. K \subseteq 1 .. drawn
    BY <2>1 DEF Free
  <2>. QED BY <1>1, <2>2, <2>3 DEF AllDrawn
<1>8. RefsAgree'
  <2>1. \A f : f \in Leaves(k)' => f \in Leaves(calls[w])'
    BY <1>2 DEF Leaves
  <2>. QED BY <2>1 DEF RefsAgree
<1>. QED BY <1>3, <1>4, <1>5, <1>6, <1>7, <1>8 DEF Tidy

\* The same for a call that writes no reference.
LEMMA TidyStays ==
  ASSUME TidyInv, ~disturbed, NEW w \in Workers, ~At(w, "idle"),
         NEW k, calls' = [calls EXCEPT ![w] = k], UNCHANGED <<galleries, templates, avatar>>,
         deleted \subseteq deleted', drawn' = drawn \/ drawn' = drawn + 1,
         \A f \in Files : (f \in objects' <=> f \in Rows') \/ f \in Apart(k),
         Leaves(calls[w]) \subseteq Leaves(k),
         \A p \in Lasting : \A f \in Shows(p) \cap Rows : f \in Rows' \cup deleted \cup Leaves(k),
         CallTidy(k)'
  PROVE  Tidy'
<1>1. \A p \in Lasting : \A f \in Shows(p) :
          f \in Rows \cup LocalFiles \cup deleted \cup Leaves(calls[w])
  BY OneCall
<1>2. (\A p : Shows(p)' = Shows(p)) /\ Leaves(k)' = Leaves(k)
  BY SameShows
<1>3. \A p \in Lasting : \A f \in Shows(p)' :
          f \in {} \cup Rows' \cup LocalFiles \cup deleted \cup Leaves(k)'
  BY <1>1, <1>2
<1>4. \A p \in Spots : Shows(p)' \subseteq Shows(p) \cup (IF p = <<>> THEN {} ELSE {})
  BY <1>2
<1>5. \A f \in {} : Free(f) /\ f \in Rows'
  OBVIOUS
<1>6. {} \in SUBSET Files
  OBVIOUS
<1>. QED BY <1>3, <1>4, <1>5, <1>6, TidyGoesOn

\* The same for a step that changes nothing but its call.
LEMMA TidySilent ==
  ASSUME TidyInv, ~disturbed, NEW w \in Workers, ~At(w, "idle"),
         NEW k, calls' = [calls EXCEPT ![w] = k],
         UNCHANGED <<objects, media, drawn, galleries, templates, avatar>>, deleted \subseteq deleted',
         Apart(calls[w]) = {}, Leaves(calls[w]) \subseteq Leaves(k), CallTidy(k)'
  PROVE  Tidy'
<1>1. \A f \in Files : (f \in objects <=> f \in Rows) \/ f \in Apart(calls[w])
  BY OneCall
<1>2. Rows' = Rows
  BY DEF Rows
<1>. QED BY <1>1, <1>2, TidyStays

LEMMA PutObjectTidy ==
  ASSUME TidyInv, ~disturbed, NEW w \in Workers, PutObject(w)
  PROVE  Tidy'
<1>1. PICK c : c = calls[w]
  OBVIOUS
<1>2. IsCall(c) /\ OnItsWay(c) /\ c.pc = "putObject" /\ CallTidy(c)
  BY <1>1, Mine, OneCall DEF TidyInv, PutObject, At
<1>a. PICK n : n = drawn + 1
  OBVIOUS
<1>3. PICK k : k = [c EXCEPT !.pc = "insertRow", !.file = n]
  OBVIOUS
<1>4. /\ IsCall(k) /\ k.pc = "insertRow" /\ k.file = n /\ k.op = c.op /\ k.view = c.view
      /\ k.todo = c.todo /\ k.given = c.given
  BY <1>2, <1>3 DEF IsCall, Idle
<1>5. /\ calls' = [calls EXCEPT ![w] = k] /\ drawn' = drawn + 1 /\ objects' = objects \cup {n}
      /\ UNCHANGED <<media, galleries, templates, avatar, deleted>>
  BY <1>a, <1>1, <1>3 DEF PutObject, Continue, refs, history
<1>6. c.op \in {"upload", "avatar", "guest", "previews", "photos"}
  BY <1>2 DEF OnItsWay
<1>7. /\ \A f \in Files : (f \in objects <=> f \in Rows) \/ f \in Apart(c)
      /\ AllDrawn
  BY <1>1, <1>2, OneCall DEF At
<1>8. Apart(c) = {} /\ Apart(k) = {n} /\ Leaves(c) = {} /\ Rows' = Rows
  BY <1>2, <1>4, <1>5, <1>6 DEF Apart, Leaves, Rows
<1>9. Unused(n)
  <2>1. drawn \in Nat
    BY DEF TidyInv, TypeInv, StoresOK
  <2>2. n \notin 1 .. drawn
    BY ONLY <2>1, <1>a
  <2>. QED BY <1>7, <2>2 DEF AllDrawn, Unused
<1>10. CallTidy(k)'
  <2>1. Unused(n)'
    BY <1>5, <1>9, SameShows
  <2>. QED BY <1>2, <1>4, <1>5, <1>6, <2>1 DEF CallTidy, Deletes
<1>. QED BY <1>1, <1>2, <1>5, <1>7, <1>8, <1>10, TidyStays DEF At

\* What is known of a call that is alone.
LEMMA InHand ==
  ASSUME TidyInv, ~disturbed, NEW w \in Workers, NEW c, c = calls[w], c.pc # "idle"
  PROVE  /\ IsCall(c) /\ OnItsWay(c) /\ HasRead(c, begun, Len(templates)) /\ CallTidy(c)
         /\ \A f \in Files : (f \in objects <=> f \in Rows) \/ f \in Apart(c)
         /\ \A p \in Lasting : \A f \in Shows(p) : f \in Rows \cup LocalFiles \cup deleted \cup Leaves(c)
         /\ OnePlace /\ AllDrawn /\ ~At(w, "idle") /\ TypeInv
<1>1. ~At(w, "idle") /\ TypeInv
  BY DEF At, TidyInv
<1>. QED BY <1>1, OneCall, Mine

LEMMA IdleTidyNext ==
  ASSUME NEW k, k = Idle
  PROVE  CallTidy(k)' /\ Apart(k) = {} /\ Leaves(k) = {}
<1>1. k.op = "none" /\ k.pc = "idle"
  BY DEF Idle
<1>. QED BY <1>1 DEF CallTidy, Deletes, Apart, Leaves

LEMMA RowAdded ==
  ASSUME TypeInv, NEW f \in Files, media' = [media EXCEPT ![f] = "new"]
  PROVE  Rows' = Rows \cup {f}
  BY DEF Rows, TypeInv, StoresOK

LEMMA RowDropped ==
  ASSUME TypeInv, NEW f \in Files, media' = [media EXCEPT ![f] = "none"]
  PROVE  Rows' = Rows \ {f}
  BY DEF Rows, TypeInv, StoresOK

LEMMA InsertRowTidy ==
  ASSUME TidyInv, ~disturbed, NEW w \in Workers, InsertRow(w)
  PROVE  Tidy'
<1>. HIDE DEF Idle
<1>1. PICK c : c = calls[w]
  OBVIOUS
<1>2. c.pc = "insertRow" /\ c.op \notin Script
  BY <1>1 DEF InsertRow, At
<1>3. /\ IsCall(c) /\ OnItsWay(c) /\ HasRead(c, begun, Len(templates)) /\ CallTidy(c) /\ TypeInv
      /\ \A f \in Files : (f \in objects <=> f \in Rows) \/ f \in Apart(c)
      /\ ~At(w, "idle")
  BY <1>1, <1>2, InHand
<1>4. c.op \in {"upload", "avatar", "guest"} /\ c.file \in Files
  BY <1>2, <1>3 DEF OnItsWay, HasRead, Script
<1>5. /\ UNCHANGED <<objects, drawn, galleries, templates, avatar, deleted>>
      /\ media' = [media EXCEPT ![c.file] = "new"]
  BY <1>1 DEF InsertRow, refs, history
<1>6. Rows' = Rows \cup {c.file}
  BY <1>3, <1>4, <1>5, RowAdded
<1>7. c.file \in objects /\ Unused(c.file)' /\ Free(c.file)'
  BY <1>2, <1>3, <1>5, <1>6, SameShows DEF CallTidy, Free
<1>8. PICK k : /\ calls' = [calls EXCEPT ![w] = k]
               /\ k = Idle \/ (k = [c EXCEPT !.pc = AfterRow(c.op)] /\ AfterRow(c.op) # "idle")
  <2>1. CASE AfterRow(c.op) = "idle"
    BY <1>1, <2>1 DEF InsertRow, Return, Continue
  <2>2. CASE AfterRow(c.op) # "idle"
    <3>1. calls' = [calls EXCEPT ![w] = [c EXCEPT !.pc = AfterRow(c.op)]]
      BY <1>1, <2>2 DEF InsertRow, Goto, Continue
    <3>. QED BY <2>2, <3>1
  <2>. QED BY <2>1, <2>2
<1>9. CallTidy(k)' /\ Apart(k) = {}
  <2>1. CASE k = Idle
    BY <2>1, IdleTidyNext
  <2>2. CASE k # Idle
    <3>1. AfterRow(c.op) \in {"push", "setAvatar"}
      BY <1>4, <1>8, <2>2 DEF AfterRow
    <3>2. k.pc \in {"push", "setAvatar"} /\ k.op = c.op /\ k.file = c.file
      BY <1>3, <1>8, <2>2, <3>1 DEF IsCall, Idle
    <3>. QED BY <1>4, <1>7, <3>2 DEF CallTidy, Deletes, Apart
  <2>. QED BY <2>1, <2>2
<1>10. Leaves(c) = {} /\ Apart(c) = {c.file}
  BY <1>2, <1>4 DEF Leaves, Apart
<1>11. \A f \in Files : (f \in objects' <=> f \in Rows') \/ f \in Apart(k)
  BY <1>3, <1>5, <1>6, <1>7, <1>10
<1>. QED BY <1>1, <1>3, <1>5, <1>6, <1>8, <1>9, <1>10, <1>11, TidyStays

\* The next file of the script.
LEMMA NextLocalTidy ==
  ASSUME NEW c, IsCall(c), c.op \in Script,
         c.op = "previews" => \A s, t \in DOMAIN c.view : c.view[s].preview = c.view[t].preview => s = t,
         NEW k, k = NextLocal(c)
  PROVE  CallTidy(k)' /\ Apart(k) = {} /\ Leaves(k) = {}
<1>1. CASE k = Idle
  BY <1>1, IdleTidyNext
<1>2. CASE k # Idle
  <2>1. k.pc \in {"putObject", "readInvitations"} /\ k.op = c.op /\ k.view = c.view
    BY <1>2, NextLocalCall
  <2>. QED BY <2>1 DEF CallTidy, Deletes, Apart, Leaves, Script
<1>. QED BY <1>1, <1>2

LEMMA ScriptRowTidy ==
  ASSUME TidyInv, ~disturbed, NEW w \in Workers, ScriptRow(w)
  PROVE  Tidy'
<1>. HIDE DEF Idle
<1>1. PICK c : c = calls[w]
  OBVIOUS
<1>2. c.pc = "insertRow" /\ c.op \in Script
  BY <1>1 DEF ScriptRow, At
<1>3. /\ IsCall(c) /\ OnItsWay(c) /\ HasRead(c, begun, Len(templates)) /\ CallTidy(c) /\ TypeInv
      /\ \A f \in Files : (f \in objects <=> f \in Rows) \/ f \in Apart(c)
      /\ ~At(w, "idle")
  BY <1>1, <1>2, InHand
<1>4. c.file \in Files
  BY <1>2, <1>3 DEF HasRead
<1>5. /\ UNCHANGED <<objects, drawn, galleries, templates, avatar, deleted>>
      /\ media' = [media EXCEPT ![c.file] = "new"]
  BY <1>1 DEF ScriptRow, refs, history
<1>6. Rows' = Rows \cup {c.file}
  BY <1>3, <1>4, <1>5, RowAdded
<1>7. c.file \in objects /\ Unused(c.file)' /\ Free(c.file)'
  BY <1>2, <1>3, <1>5, <1>6, SameShows DEF CallTidy, Free
<1>8. PICK k : /\ calls' = [calls EXCEPT ![w] = k]
               /\ \/ k = [c EXCEPT !.pc = "writePreview"]
                  \/ k = [c EXCEPT !.pc = "readMoments"]
                  \/ k = NextLocal(c)
  BY <1>1 DEF ScriptRow, Continue
<1>9. c.op = "previews" => \A s, t \in DOMAIN c.view : c.view[s].preview = c.view[t].preview => s = t
  BY <1>3 DEF CallTidy
<1>10. CallTidy(k)' /\ Apart(k) = {}
  <2>1. CASE k = NextLocal(c)
    BY <1>2, <1>3, <1>9, <2>1, NextLocalTidy
  <2>2. CASE k # NextLocal(c)
    <3>1. k.pc \in {"writePreview", "readMoments"} /\ k.op = c.op /\ k.file = c.file /\ k.view = c.view
      BY <1>3, <1>8, <2>2 DEF IsCall, Idle
    <3>. QED BY <1>2, <1>7, <1>9, <3>1 DEF CallTidy, Deletes, Apart, Script
  <2>. QED BY <2>1, <2>2
<1>11. Leaves(c) = {} /\ Apart(c) = {c.file}
  BY <1>2 DEF Leaves, Apart, Script
<1>12. \A f \in Files : (f \in objects' <=> f \in Rows') \/ f \in Apart(k)
  BY <1>3, <1>5, <1>6, <1>7, <1>11
<1>. QED BY <1>1, <1>3, <1>5, <1>6, <1>8, <1>10, <1>11, <1>12, TidyStays
-----------------------------------------------------------------------------
(* Steps that delete *)

LEMMA FitStays ==
  ASSUME NEW g, NEW b, FitBody(g, b), \A f : Free(f) => Free(f)'
  PROVE  FitBody(g, b)'
  BY DEF FitBody, AllFree

\* What an edit drops is shown in its own gallery.
LEMMA EditLeaves ==
  ASSUME NEW c, c.op = "edit", c.inv \in Invitations, NEW f \in Leaves(c)
  PROVE  \E kind \in Kinds : /\ f \in Shows(<<kind, c.inv>>) /\ <<kind, c.inv>> \in Lasting
                             /\ f \notin Group(Merged(galleries[c.inv], c.given), kind)
<1>1. PICK old, new : old = galleries[c.inv] /\ new = Merged(galleries[c.inv], c.given)
  OBVIOUS
<1>2. f \in Dropped(old, new)
  BY <1>1 DEF Leaves
<1>3. PICK kind \in Kinds : f \in Group(old, kind) /\ f \notin Group(new, kind)
  BY <1>2, GroupsAre DEF Dropped, Kinds
<1>4. <<kind, c.inv>> \in Lasting
  BY DEF Lasting, Spots, Kinds
<1>. QED BY <1>1, <1>3, <1>4, ShowsAre

LEMMA TemplateLeaves ==
  ASSUME TypeInv, NEW c, c.op = "template", c.tmpl \in 1 .. Len(templates), NEW f \in Leaves(c)
  PROVE  /\ f \in Shows(<<"preview", c.tmpl>>) /\ <<"preview", c.tmpl>> \in Lasting
         /\ f = templates[c.tmpl].preview /\ c.given # None
<1>1. f = templates[c.tmpl].preview /\ c.given # None
  BY DEF Leaves
<1>2. c.tmpl \in Ids /\ c.tmpl \in Nat
  BY DEF Ids, TypeInv, StoresOK
<1>. QED BY <1>1, <1>2, ShowsAre DEF Lasting, Spots

\* A file that a call deletes is in no use, or its reference is on record as lost.
LEMMA DeletedFile ==
  ASSUME TypeInv, NEW c, HasRead(c, begun, Len(templates)), OnItsWay(c), CallTidy(c),
         c.pc \in Deletes
  PROVE  /\ c.op \in {"edit", "template"} => ~Free(c.file)
         /\ \A p \in Lasting : c.file \in Shows(p) => c.file \in deleted \cup Leaves(c)
         /\ c.op \in {"edit", "delete", "clean", "template"} /\ c.file \in Files
<1>1. c.file \in c.todo /\ c.op \in {"edit", "delete", "clean", "template"} /\ c.file \in Files
  BY DEF HasRead, OnItsWay, Deletes
<1>2. /\ c.op = "template" => c.file \in Leaves(c)
      /\ c.op = "edit" => c.file \in Leaves(c) \cup deleted /\ ~Unused(c.file)
  BY <1>1 DEF CallTidy
<1>3. ASSUME c.op \in {"edit", "template"} PROVE ~Free(c.file)
  <2>1. CASE c.op = "edit"
    BY <1>2, <2>1 DEF Free
  <2>2. CASE c.op = "template"
    <3>1. c.tmpl \in 1 .. Len(templates)
      BY <2>2 DEF HasRead
    <3>2. c.file \in Shows(<<"preview", c.tmpl>>) /\ <<"preview", c.tmpl>> \in Lasting
      BY <1>2, <2>2, <3>1, TemplateLeaves
    <3>. QED BY <3>2 DEF Free, Unused, Lasting
  <2>. QED BY <1>3, <2>1, <2>2
<1>4. ASSUME NEW p \in Lasting, c.file \in Shows(p) PROVE c.file \in deleted \cup Leaves(c)
  BY <1>1, <1>2, <1>4 DEF CallTidy
<1>. QED BY <1>1, <1>3, <1>4

\* A call that goes on deleting, or to its write.
LEMMA StillDeletes ==
  ASSUME TypeInv, NEW c, HasRead(c, begun, Len(templates)), OnItsWay(c), CallTidy(c), c.pc \in Deletes,
         NEW k, k.op = c.op, k.inv = c.inv, k.given = c.given, k.tmpl = c.tmpl, k.todo \subseteq c.todo,
         k.pc \in Deletes \/ (k.op = "edit" /\ k.pc = "write") \/ (k.op = "template" /\ k.pc = "writeTemplate"),
         k.pc = "deleteRow" => k.file \notin objects',
         UNCHANGED <<galleries, templates, avatar, deleted>>,
         \A f : Free(f) /\ f # c.file => Free(f)'
  PROVE  CallTidy(k)' /\ Leaves(k) = Leaves(c)
<1>1. /\ c.op \in {"edit", "template"} => ~Free(c.file)
      /\ c.op \in {"edit", "delete", "clean", "template"}
  BY DeletedFile
<1>2. Leaves(k) = Leaves(c)
  BY DEF Leaves, Deletes
<1>3. (\A p : Shows(p)' = Shows(p)) /\ Leaves(k)' = Leaves(k)
  BY SameShows
<1>4. c.op = "edit" => FitBody(galleries[k.inv], k.given)'
  <2>1. PICK g : g = galleries[k.inv]
    OBVIOUS
  <2>2. c.op = "edit" => FitBody(g, k.given)
    BY <2>1 DEF CallTidy
  <2>3. c.op = "edit" => FitBody(g, k.given)'
    BY <1>1, <2>2, FitStays
  <2>4. g = galleries'[k.inv]
    BY <2>1
  <2>. QED BY <2>3, <2>4
<1>5. c.op = "template" => k.given = None \/ Free(k.given)'
  BY <1>1 DEF CallTidy
<1>6. /\ c.op = "template" => k.todo \subseteq Leaves(k)'
      /\ c.op = "edit" => k.todo \subseteq Leaves(k)' \cup deleted'
  BY <1>2, <1>3 DEF CallTidy
<1>u. c.op = "edit" => \A f \in k.todo : ~Unused(f)'
  BY <1>3 DEF CallTidy, Unused
<1>7. c.op = "clean" => \A p \in Lasting : Shows(p)' \cap k.todo = {}
  BY <1>3 DEF CallTidy
<1>8. c.op = "delete" => k.todo \subseteq deleted'
  BY DEF CallTidy
<1>9. CallTidy(k)'
  BY <1>1, <1>4, <1>5, <1>6, <1>u, <1>7, <1>8 DEF CallTidy, Deletes
<1>. QED BY <1>2, <1>9

LEMMA DeleteObjectTidy ==
  ASSUME TidyInv, ~disturbed, NEW w \in Workers, DeleteObject(w)
  PROVE  Tidy'
<1>1. PICK c : c = calls[w]
  OBVIOUS
<1>2. c.pc = "deleteObject"
  BY <1>1 DEF DeleteObject, At
<1>3. /\ IsCall(c) /\ OnItsWay(c) /\ HasRead(c, begun, Len(templates)) /\ CallTidy(c) /\ TypeInv
      /\ \A f \in Files : (f \in objects <=> f \in Rows) \/ f \in Apart(c)
      /\ ~At(w, "idle")
  BY <1>1, <1>2, InHand
<1>4. PICK k : k = [c EXCEPT !.pc = "deleteRow"]
  OBVIOUS
<1>5. /\ k.pc = "deleteRow" /\ k.op = c.op /\ k.inv = c.inv /\ k.given = c.given /\ k.tmpl = c.tmpl
      /\ k.todo = c.todo /\ k.file = c.file
  BY <1>3, <1>4 DEF IsCall, Idle
<1>6. /\ UNCHANGED <<media, drawn, galleries, templates, avatar, deleted>>
      /\ objects' = objects \ {c.file} /\ calls' = [calls EXCEPT ![w] = k]
  BY <1>1, <1>4 DEF DeleteObject, Goto, Continue, refs, history
<1>7. Rows' = Rows
  BY <1>6 DEF Rows
<1>8. \A f : Free(f) /\ f # c.file => Free(f)'
  BY <1>6, <1>7, SameShows DEF Free
<1>9. CallTidy(k)' /\ Leaves(k) = Leaves(c)
  BY <1>2, <1>3, <1>5, <1>6, <1>8, StillDeletes DEF Deletes
<1>10. \A f \in Files : (f \in objects' <=> f \in Rows') \/ f \in Apart(k)
  BY <1>2, <1>3, <1>5, <1>6, <1>7 DEF Apart
<1>. QED BY <1>1, <1>3, <1>6, <1>7, <1>9, <1>10, TidyStays

LEMMA DeleteRowTidy ==
  ASSUME TidyInv, ~disturbed, NEW w \in Workers, DeleteRow(w)
  PROVE  Tidy'
<1>. HIDE DEF Idle
<1>1. PICK c : c = calls[w]
  OBVIOUS
<1>2. c.pc = "deleteRow"
  BY <1>1 DEF DeleteRow, At
<1>3. /\ IsCall(c) /\ OnItsWay(c) /\ HasRead(c, begun, Len(templates)) /\ CallTidy(c) /\ TypeInv
      /\ \A f \in Files : (f \in objects <=> f \in Rows) \/ f \in Apart(c)
      /\ ~At(w, "idle")
  BY <1>1, <1>2, InHand
<1>4. /\ \A p \in Lasting : c.file \in Shows(p) => c.file \in deleted \cup Leaves(c)
      /\ c.op \in {"edit", "delete", "clean", "template"} /\ c.file \in Files
      /\ c.file \notin objects
  BY <1>2, <1>3, DeletedFile DEF Deletes, CallTidy
<1>5. /\ UNCHANGED <<objects, drawn, galleries, templates, avatar, deleted>>
      /\ media' = [media EXCEPT ![c.file] = "none"]
  BY <1>1 DEF DeleteRow, refs, history
<1>6. Rows' = Rows \ {c.file}
  BY <1>3, <1>4, <1>5, RowDropped
<1>7. \A f : Free(f) /\ f # c.file => Free(f)'
  BY <1>5, <1>6, SameShows DEF Free
<1>8. PICK left : left = Deleting(c, c.todo \ {c.file}, AfterDelete(c.op))
  OBVIOUS
<1>9. /\ left.op = c.op /\ left.inv = c.inv /\ left.given = c.given /\ left.tmpl = c.tmpl
      /\ left.todo = c.todo \ {c.file} /\ left.pc \in {"deleteObject", AfterDelete(c.op)}
  BY <1>3, <1>8, DeletingCall
<1>10. PICK k : /\ calls' = [calls EXCEPT ![w] = k]
                /\ (left.pc = "idle" /\ k = Idle) \/ (left.pc # "idle" /\ k = left)
  BY <1>1, <1>8 DEF DeleteRow, Return, Continue
<1>11. /\ CallTidy(k)' /\ Apart(k) = {} /\ Leaves(c) \subseteq Leaves(k)
  <2>1. CASE left.pc = "idle"
    <3>1. c.op \notin {"edit", "template"}
      BY <1>9, <2>1 DEF AfterDelete
    <3>2. Leaves(c) = {}
      BY <3>1 DEF Leaves
    <3>. QED BY <1>10, <2>1, <3>2, IdleTidyNext
  <2>2. CASE left.pc # "idle"
    <3>1. \/ k.pc = "deleteObject" \/ (k.op = "edit" /\ k.pc = "write")
          \/ (k.op = "template" /\ k.pc = "writeTemplate")
      BY <1>4, <1>9, <1>10, <2>2 DEF AfterDelete
    <3>. QED BY <1>2, <1>3, <1>5, <1>7, <1>9, <1>10, <2>2, <3>1, StillDeletes DEF Deletes, Apart
  <2>. QED BY <2>1, <2>2
<1>12. \A f \in Files : (f \in objects' <=> f \in Rows') \/ f \in Apart(k)
  BY <1>2, <1>3, <1>4, <1>5, <1>6 DEF Apart
<1>13. \A p \in Lasting : \A f \in Shows(p) \cap Rows : f \in Rows' \cup deleted \cup Leaves(k)
  BY <1>4, <1>6, <1>11
<1>. QED BY <1>1, <1>3, <1>5, <1>10, <1>11, <1>12, <1>13, TidyStays
-----------------------------------------------------------------------------
(* Steps that read *)

LEMMA FreeStays ==
  ASSUME UNCHANGED <<objects, media, galleries, templates, avatar>>
  PROVE  \A f : Free(f)' <=> Free(f)
<1>1. Rows' = Rows
  BY DEF Rows
<1>. QED BY <1>1, SameShows DEF Free

LEMMA ReadInvitationTidy ==
  ASSUME TidyInv, ~disturbed, NEW w \in Workers, ReadInvitation(w)
  PROVE  Tidy'
<1>1. PICK c : c = calls[w]
  OBVIOUS
<1>2. c.pc = "readInvitation"
  BY <1>1 DEF ReadInvitation, At
<1>3. IsCall(c) /\ OnItsWay(c) /\ CallTidy(c) /\ ~At(w, "idle")
  BY <1>1, <1>2, InHand
<1>4. c.op = "edit"
  BY <1>2, <1>3 DEF OnItsWay
<1>5. PICK old, new, todo : /\ old = galleries[c.inv] /\ new = Merged(galleries[c.inv], c.given)
                            /\ todo = Removed(old, new)
  OBVIOUS
<1>6. PICK k : k = Deleting(c, todo, "write")
  OBVIOUS
<1>7. /\ k.op = "edit" /\ k.inv = c.inv /\ k.given = c.given /\ k.todo = todo
      /\ k.pc \in {"deleteObject", "write"}
  BY <1>3, <1>4, <1>6, DeletingCall
<1>8. /\ UNCHANGED <<objects, media, drawn, galleries, templates, avatar>>
      /\ deleted' = deleted \cup (todo \cap old.raw \cap (new.moments \cup new.hidden))
      /\ calls' = [calls EXCEPT ![w] = k]
  BY <1>1, <1>5, <1>6 DEF ReadInvitation, Continue, stores, refs
<1>9. Apart(c) = {} /\ Leaves(k) = Leaves(c) /\ Leaves(k)' = Leaves(k)
  BY <1>2, <1>4, <1>7, <1>8, SameShows DEF Apart, Leaves
<1>10. FitBody(galleries[k.inv], k.given)'
  <2>1. PICK g : g = galleries[k.inv]
    OBVIOUS
  <2>2. FitBody(g, k.given)
    BY <1>3, <1>4, <1>7, <2>1 DEF CallTidy
  <2>3. FitBody(g, k.given)'
    BY <1>8, <2>2, FreeStays, FitStays
  <2>4. g = galleries'[k.inv]
    BY <1>8, <2>1
  <2>. QED BY <2>3, <2>4
<1>11. k.todo \subseteq Leaves(k)' \cup deleted'
  <2>1. Leaves(c) = Dropped(old, new)
    BY <1>4, <1>5 DEF Leaves
  <2>2. todo \subseteq Dropped(old, new) \cup (old.raw \cap (new.moments \cup new.hidden))
    BY <1>5, RemovedYetKept
  <2>. QED BY ONLY <1>7, <1>8, <1>9, <2>1, <2>2
<1>12. ASSUME NEW f \in k.todo PROVE ~Unused(f)'
  <2>1. f \in old.images \cup old.moments \cup old.hidden \cup ({old.music} \ {0})
    BY <1>5, <1>7, RemovedAre
  <2>2. PICK kind \in Kinds : f \in Group(old, kind)
    BY <2>1, GroupsAre DEF Kinds
  <2>3. c.inv \in Invitations
    BY <1>1, <1>4, Mine DEF HasRead, TidyInv
  <2>4. <<kind, c.inv>> \in Spots /\ f \in Shows(<<kind, c.inv>>)
    BY <1>5, <2>2, <2>3, ShowsAre DEF Spots
  <2>5. Shows(<<kind, c.inv>>)' = Shows(<<kind, c.inv>>)
    BY <1>8, SameShows
  <2>. QED BY <2>4, <2>5 DEF Unused
<1>13. CallTidy(k)'
  BY <1>7, <1>10, <1>11, <1>12 DEF CallTidy, Deletes
<1>14. deleted \subseteq deleted'
  BY <1>8
<1>. QED BY <1>1, <1>3, <1>8, <1>9, <1>13, <1>14, TidySilent

LEMMA ReadTemplatesTidy ==
  ASSUME TidyInv, ~disturbed, NEW w \in Workers, ReadTemplates(w)
  PROVE  Tidy'
<1>1. PICK c : c = calls[w]
  OBVIOUS
<1>2. c.pc = "readTemplates"
  BY <1>1 DEF ReadTemplates, At
<1>3. IsCall(c) /\ OnItsWay(c) /\ CallTidy(c) /\ ~At(w, "idle")
  BY <1>1, <1>2, InHand
<1>4. c.op = "clean"
  BY <1>2, <1>3 DEF OnItsWay
<1>5. PICK used : used = c.used \cup {templates[t].preview : t \in DOMAIN templates}
  OBVIOUS
<1>6. PICK k : k = [c EXCEPT !.pc = "readOld", !.used = used]
  OBVIOUS
<1>7. k.op = "clean" /\ k.pc = "readOld" /\ k.used = used
  BY <1>3, <1>4, <1>6 DEF IsCall, Idle
<1>8. /\ UNCHANGED <<objects, media, drawn, galleries, templates, avatar, deleted>>
      /\ calls' = [calls EXCEPT ![w] = k]
  BY <1>1, <1>5, <1>6 DEF ReadTemplates, Continue, mediaVars, stores, refs, history
<1>9. ASSUME NEW p \in Lasting PROVE Shows(p) \subseteq used
  <2>1. CASE p \in Kinds \X Invitations
    BY <1>2, <1>3, <1>5, <2>1 DEF CallTidy
  <2>2. CASE \E n \in Nat : p = <<"preview", n>>
    BY <1>5, <2>2, ShowsAre DEF Ids
  <2>. QED BY <2>1, <2>2 DEF Lasting, Spots
<1>10. CallTidy(k)'
  BY <1>7, <1>8, <1>9, SameShows DEF CallTidy, Deletes
<1>11. Apart(c) = {} /\ Leaves(c) = {}
  BY <1>2, <1>4 DEF Apart, Leaves
<1>. QED BY <1>1, <1>3, <1>8, <1>10, <1>11, TidySilent

LEMMA ReadOldTidy ==
  ASSUME TidyInv, ~disturbed, NEW w \in Workers, ReadOld(w)
  PROVE  Tidy'
<1>. HIDE DEF Idle
<1>1. PICK c : c = calls[w]
  OBVIOUS
<1>2. c.pc = "readOld"
  BY <1>1 DEF ReadOld, At
<1>3. IsCall(c) /\ OnItsWay(c) /\ CallTidy(c) /\ ~At(w, "idle")
  BY <1>1, <1>2, InHand
<1>4. c.op = "clean"
  BY <1>2, <1>3 DEF OnItsWay
<1>5. PICK todo : todo = Candidates \ c.used
  OBVIOUS
<1>6. PICK call : call = [c EXCEPT !.used = {}]
  OBVIOUS
<1>7. IsCall(call) /\ call.op = "clean"
  BY <1>3, <1>4, <1>6 DEF IsCall, Idle
<1>8. PICK left : left = Deleting(call, todo, "idle")
  OBVIOUS
<1>9. left.op = "clean" /\ left.todo = todo /\ left.pc \in {"deleteObject", "idle"}
  BY <1>7, <1>8, DeletingCall
<1>10. UNCHANGED <<objects, media, drawn, galleries, templates, avatar, deleted>>
  BY DEF ReadOld, mediaVars, stores, refs, history
<1>11. PICK k : /\ calls' = [calls EXCEPT ![w] = k]
                /\ (left.pc = "idle" /\ k = Idle) \/ (left.pc # "idle" /\ k = left)
  BY <1>1, <1>5, <1>6, <1>8 DEF ReadOld, Return, Continue
<1>12. CallTidy(k)'
  <2>1. CASE left.pc = "idle"
    BY <1>11, <2>1, IdleTidyNext
  <2>2. CASE left.pc # "idle"
    <3>1. \A p \in Lasting : Shows(p)' \cap todo = {}
      BY <1>2, <1>3, <1>5, <1>10, SameShows DEF CallTidy
    <3>. QED BY <1>9, <1>11, <2>2, <3>1 DEF CallTidy, Deletes
  <2>. QED BY <2>1, <2>2
<1>13. Apart(c) = {} /\ Leaves(c) = {}
  BY <1>2, <1>4 DEF Apart, Leaves
<1>. QED BY <1>1, <1>3, <1>10, <1>11, <1>12, <1>13, TidySilent

LEMMA ReadInvitationsTidy ==
  ASSUME TidyInv, ~disturbed, NEW w \in Workers, ReadInvitations(w)
  PROVE  Tidy'
<1>1. PICK c : c = calls[w]
  OBVIOUS
<1>2. c.pc = "readInvitations"
  BY <1>1 DEF ReadInvitations, At
<1>3. IsCall(c) /\ OnItsWay(c) /\ ~At(w, "idle")
  BY <1>1, <1>2, InHand
<1>4. PICK view : view = [i \in Invitations |-> galleries[i].moments]
  OBVIOUS
<1>5. PICK call : call = [c EXCEPT !.op = "photos", !.todo = LocalPhotos, !.view = view]
  OBVIOUS
<1>6. IsCall(call) /\ call.op = "photos"
  BY <1>3, <1>5 DEF IsCall, Idle
<1>7. PICK k : k = NextLocal(call)
  OBVIOUS
<1>8. CallTidy(k)'
  BY <1>6, <1>7, NextLocalTidy DEF Script
<1>9. /\ UNCHANGED <<objects, media, drawn, galleries, templates, avatar, deleted>>
      /\ calls' = [calls EXCEPT ![w] = k]
  BY <1>1, <1>4, <1>5, <1>7 DEF ReadInvitations, Continue, mediaVars, stores, refs, history
<1>10. Apart(c) = {} /\ Leaves(c) = {}
  BY <1>2, <1>3 DEF Apart, Leaves, OnItsWay
<1>. QED BY <1>1, <1>3, <1>8, <1>9, <1>10, TidySilent

LEMMA ReadMomentsTidy ==
  ASSUME TidyInv, ~disturbed, NEW w \in Workers, ReadMoments(w)
  PROVE  Tidy'
<1>1. PICK c : c = calls[w]
  OBVIOUS
<1>2. c.pc = "readMoments"
  BY <1>1 DEF ReadMoments, At
<1>3. IsCall(c) /\ OnItsWay(c) /\ CallTidy(c) /\ ~At(w, "idle")
  BY <1>1, <1>2, InHand
<1>4. c.op = "photos"
  BY <1>2, <1>3 DEF OnItsWay
<1>5. PICK i : calls' = [calls EXCEPT ![w] = [c EXCEPT !.pc = "writeMoments", !.inv = i,
                                                    !.given = galleries[i].moments,
                                                    !.used = galleries[i].raw]]
  BY <1>1 DEF ReadMoments, Continue
<1>6. PICK given, raw : given = galleries[i].moments /\ raw = galleries[i].raw
  OBVIOUS
<1>7. PICK k : k = [c EXCEPT !.pc = "writeMoments", !.inv = i, !.given = given, !.used = raw]
  OBVIOUS
<1>8. /\ k.op = "photos" /\ k.pc = "writeMoments" /\ k.inv = i /\ k.given = given
      /\ k.file = c.file
  BY <1>3, <1>4, <1>7 DEF IsCall, Idle
<1>9. /\ UNCHANGED <<objects, media, drawn, galleries, templates, avatar, deleted>>
      /\ calls' = [calls EXCEPT ![w] = k]
  BY <1>5, <1>6, <1>7 DEF ReadMoments, mediaVars, stores, refs, history
<1>10. Free(k.file)'
  BY <1>2, <1>3, <1>8, <1>9, FreeStays DEF CallTidy
<1>11. CallTidy(k)'
  BY <1>6, <1>8, <1>9, <1>10 DEF CallTidy, Deletes
<1>12. Apart(c) = {} /\ Leaves(c) = {}
  BY <1>2, <1>4 DEF Apart, Leaves
<1>. QED BY <1>1, <1>3, <1>9, <1>11, <1>12, TidySilent

\* Calls that have no file in hand.
Handless == {"none", "guest", "look", "review", "removeReview", "newTemplate", "template"}

HandlessSteps == {"idle", "readGallery", "putObject", "fillShelf", "readReview", "upsert", "remove",
                  "dropReviews", "dropAll", "dropActive", "dropDetail"}

LEMMA HandlessTidy ==
  ASSUME NEW k, k.op \in Handless, k.pc \in HandlessSteps
  PROVE  CallTidy(k)' /\ Apart(k) = {} /\ Leaves(k) = {}
  BY DEF CallTidy, Deletes, Apart, Leaves, Handless, HandlessSteps

\* Steps that change neither files nor references.
LEMMA SilentStepsTidy ==
  ASSUME TidyInv, ~disturbed, NEW w \in Workers,
         \/ StoreStamp(w) \/ ReadGallery(w) \/ FillShelf(w) \/ DropAll(w) \/ DropActive(w)
         \/ DropDetail(w) \/ ReadReview(w) \/ Upsert(w) \/ Remove(w) \/ DropReviews(w)
  PROVE  Tidy'
<1>. HIDE DEF Idle
<1>1. PICK c : c = calls[w]
  OBVIOUS
<1>2. c.pc \in {"storeStamp", "readGallery", "fillShelf", "dropAll", "dropActive", "dropDetail",
                "readReview", "upsert", "remove", "dropReviews"}
  BY <1>1 DEF StoreStamp, ReadGallery, FillShelf, DropAll, DropActive, DropDetail, ReadReview, Upsert,
              Remove, DropReviews, DropList, At
<1>3. IsCall(c) /\ OnItsWay(c) /\ ~At(w, "idle")
  BY <1>1, <1>2, InHand
<1>4. c.op \in Handless
  BY <1>2, <1>3 DEF OnItsWay, Handless
<1>5. UNCHANGED <<objects, media, drawn, galleries, templates, avatar, deleted>>
  BY DEF StoreStamp, ReadGallery, FillShelf, DropAll, DropActive, DropDetail, ReadReview, Upsert,
         Remove, DropReviews, DropList, mediaVars, stores, refs, history
<1>6. \E k : calls' = [calls EXCEPT ![w] = k] /\ k.op \in Handless /\ k.pc \in HandlessSteps
  <2>1. CASE Return(w)
    <3>1. Idle.op = "none" /\ Idle.pc = "idle"
      BY DEF Idle
    <3>. QED BY <2>1, <3>1 DEF Return, Continue, Handless, HandlessSteps
  <2>2. CASE StoreStamp(w)
    <3>1. PICK k : k = [c EXCEPT !.pc = "readGallery", !.used = {}, !.stamp = 0]
      OBVIOUS
    <3>2. k.pc = "readGallery" /\ k.op = c.op
      BY <1>3, <3>1 DEF IsCall, Idle
    <3>. QED BY <1>1, <1>4, <2>2, <3>1, <3>2 DEF StoreStamp, Continue, HandlessSteps
  <2>3. ASSUME NEW pc \in HandlessSteps, Goto(w, pc)
        PROVE  \E k : calls' = [calls EXCEPT ![w] = k] /\ k.op \in Handless /\ k.pc \in HandlessSteps
    <3>1. PICK k : k = [c EXCEPT !.pc = pc]
      OBVIOUS
    <3>2. k.pc = pc /\ k.op = c.op
      BY <1>3, <3>1 DEF IsCall, Idle
    <3>. QED BY <1>1, <1>4, <2>3, <3>1, <3>2 DEF Goto, Continue
  <2>4. {"putObject", "dropActive", "dropDetail", "dropReviews", "upsert"} \subseteq HandlessSteps
    BY DEF HandlessSteps
  <2>5. \/ Return(w) \/ StoreStamp(w)
        \/ \E pc \in {"putObject", "dropActive", "dropDetail", "dropReviews", "upsert"} : Goto(w, pc)
    BY DEF ReadGallery, FillShelf, DropAll, DropActive, DropDetail, ReadReview, Upsert, Remove,
           DropReviews, DropList
  <2>. QED BY <2>1, <2>2, <2>3, <2>4, <2>5
<1>7. PICK k : calls' = [calls EXCEPT ![w] = k] /\ k.op \in Handless /\ k.pc \in HandlessSteps
  BY <1>6
<1>8. Apart(c) = {} /\ Leaves(c) = {}
  BY <1>2, <1>4 DEF Apart, Leaves, Handless
<1>. QED BY <1>1, <1>3, <1>5, <1>7, <1>8, HandlessTidy, TidySilent
-----------------------------------------------------------------------------
(* Steps that write references *)

\* A step adds at most the files of K, in spot p0.
Adds(p0, K) == \A p \in Spots : Shows(p)' \subseteq Shows(p) \cup (IF p = p0 THEN K ELSE {})

\* A step takes the files of set L from where they are shown.
Drops(L) == \A p \in Lasting : Shows(p)' \cap L = {}

LEMMA TidyWrites ==
  ASSUME TidyInv, ~disturbed, NEW w \in Workers, NEW c, c = calls[w], c.pc # "idle", Apart(c) = {},
         NEW k, calls' = [calls EXCEPT ![w] = k], UNCHANGED <<objects, media, drawn, deleted>>,
         NEW p0, NEW K, AllFree(K), Adds(p0, K), Drops(Leaves(c)), CallTidy(k)'
  PROVE  Tidy'
<1>. USE DEF AllFree, Adds, Drops
<1>1. /\ \A f \in Files : (f \in objects <=> f \in Rows) \/ f \in Apart(c)
      /\ \A p \in Lasting : \A f \in Shows(p) : f \in Rows \cup LocalFiles \cup deleted \cup Leaves(c)
      /\ ~At(w, "idle")
  BY InHand
<1>2. Rows' = Rows
  BY DEF Rows
<1>3. \A f \in K : Free(f) /\ f \in Rows'
  BY <1>2 DEF Free
<1>4. \A p \in Lasting : \A f \in Shows(p)' : f \in K \cup Rows' \cup LocalFiles \cup deleted \cup Leaves(k)'
  BY <1>1, <1>2 DEF Lasting
<1>5. \A f \in Files : (f \in objects' <=> f \in Rows') \/ f \in Apart(k)
  BY <1>1, <1>2
<1>. QED BY <1>1, <1>3, <1>4, <1>5, TidyGoesOn

\* Gallery i is written.
LEMMA GalleryWrite ==
  ASSUME TypeInv, NEW i \in Invitations, NEW g, galleries' = [galleries EXCEPT ![i] = g],
         UNCHANGED <<templates, avatar>>, NEW kind \in Kinds, NEW K, Extends(galleries[i], g, kind, K)
  PROVE  /\ Adds(<<kind, i>>, K)
         /\ \A p \in Spots : p \notin Kinds \X {i} => Shows(p)' = Shows(p)
         /\ \A n \in Kinds : Shows(<<n, i>>)' = Group(g, n)
<1>1. galleries'[i] = g /\ \A j \in Invitations : j # i => galleries'[j] = galleries[j]
  BY DEF TypeInv, StoresOK
<1>2. \A n \in Kinds : Shows(<<n, i>>)' = Group(g, n)
  BY <1>1, ShowNext
<1>3. ASSUME NEW p \in Spots, p \notin Kinds \X {i} PROVE Shows(p)' = Shows(p)
  <2>1. CASE \E n \in Kinds, j \in Invitations : p = <<n, j>>
    <3>1. PICK n \in Kinds, j \in Invitations : p = <<n, j>>
      BY <2>1
    <3>2. j # i
      BY <1>3, <3>1
    <3>. QED BY <1>1, <3>1, <3>2, ShowsAre, ShowNext
  <2>2. CASE \E n \in Nat : p = <<"preview", n>>
    BY <2>2, ShowsAre, ShowNext DEF Ids
  <2>3. CASE p = <<"avatar", 0>>
    BY <2>3, ShowsAre, ShowNext
  <2>. QED BY <2>1, <2>2, <2>3, SpotsAre
<1>4. ASSUME NEW p \in Spots, p \in Kinds \X {i}
      PROVE  Shows(p)' \subseteq Shows(p) \cup (IF p = <<kind, i>> THEN K ELSE {})
  <2>1. PICK n \in Kinds : p = <<n, i>>
    BY <1>4
  <2>2. Shows(p)' = Group(g, n) /\ Shows(p) = Group(galleries[i], n)
    BY <1>2, <2>1, ShowsAre
  <2>3. p = <<kind, i>> <=> n = kind
    BY <2>1
  <2>. QED BY <2>2, <2>3 DEF Extends
<1>5. Adds(<<kind, i>>, K)
  BY <1>3, <1>4 DEF Adds
<1>. QED BY <1>2, <1>3, <1>5

LEMMA PushTidy ==
  ASSUME TidyInv, ~disturbed, NEW w \in Workers, Push(w)
  PROVE  Tidy'
<1>1. PICK c : c = calls[w]
  OBVIOUS
<1>2. c.pc = "push"
  BY <1>1 DEF Push, At
<1>3. OnItsWay(c) /\ HasRead(c, begun, Len(templates)) /\ CallTidy(c) /\ TypeInv
  BY <1>1, <1>2, InHand
<1>4. c.op \in {"guest", "moment"} /\ c.inv \in Invitations /\ c.file \in Files /\ Free(c.file)
  BY <1>2, <1>3 DEF OnItsWay, HasRead, CallTidy
<1>5. PICK i, g, K : i = c.inv /\ g = [galleries[i] EXCEPT !.moments = @ \cup {c.file}] /\ K = {c.file}
  OBVIOUS
<1>6. /\ galleries' = [galleries EXCEPT ![i] = g]
      /\ UNCHANGED <<templates, avatar, objects, media, drawn, deleted>>
  BY <1>1, <1>5 DEF Push, stores
<1>7. /\ g.images = galleries[i].images /\ g.hidden = galleries[i].hidden /\ g.music = galleries[i].music
      /\ g.moments = galleries[i].moments \cup {c.file}
  BY <1>4, <1>5 DEF TidyInv, TypeInv, StoresOK, Galleries
<1>8. Extends(galleries[i], g, "photos", K) /\ AllFree(K)
  <2>1. PICK old : old = galleries[i]
    OBVIOUS
  <2>4. Group(g, "images") = Group(old, "images") /\ Group(g, "music") = Group(old, "music")
    BY <1>7, <2>1, GroupsAre
  <2>5. Group(g, "photos") = g.moments \cup g.hidden /\ Group(old, "photos") = old.moments \cup old.hidden
    BY GroupsAre
  <2>6. g.moments = old.moments \cup K /\ g.hidden = old.hidden
    BY <1>5, <1>7, <2>1
  <2>2. /\ Group(g, "images") = Group(old, "images") /\ Group(g, "music") = Group(old, "music")
        /\ Group(g, "photos") = Group(old, "photos") \cup K
    BY <2>4, <2>5, <2>6
  <2>3. Extends(old, g, "photos", K)
    BY <2>2 DEF Extends, Kinds
  <2>. QED BY <1>4, <1>5, <2>1, <2>3 DEF AllFree
<1>9. i \in Invitations /\ "photos" \in Kinds
  BY <1>4, <1>5 DEF Kinds
<1>10. Adds(<<"photos", i>>, K)
  BY <1>3, <1>6, <1>8, <1>9, GalleryWrite
<1>11. Apart(c) = {} /\ Drops(Leaves(c))
  BY <1>2, <1>4 DEF Apart, Leaves, Drops
<1>12. PICK k : k = Idle
  OBVIOUS
<1>13. calls' = [calls EXCEPT ![w] = k]
  BY <1>12 DEF Push, Return, Continue
<1>14. CallTidy(k)'
  BY <1>12, IdleTidyNext
<1>. QED BY <1>1, <1>2, <1>6, <1>8, <1>10, <1>11, <1>13, <1>14, TidyWrites

LEMMA SetAvatarTidy ==
  ASSUME TidyInv, ~disturbed, NEW w \in Workers, SetAvatar(w)
  PROVE  Tidy'
<1>1. PICK c : c = calls[w]
  OBVIOUS
<1>2. c.pc = "setAvatar"
  BY <1>1 DEF SetAvatar, At
<1>3. OnItsWay(c) /\ HasRead(c, begun, Len(templates)) /\ CallTidy(c) /\ TypeInv
  BY <1>1, <1>2, InHand
<1>4. c.op \in {"avatar", "noAvatar"} /\ c.file \in {0} \cup Files /\ (c.file = 0 \/ Free(c.file))
  BY <1>2, <1>3 DEF OnItsWay, HasRead, CallTidy
<1>5. avatar' = c.file /\ UNCHANGED <<galleries, templates, objects, media, drawn, deleted>>
  BY <1>1 DEF SetAvatar, stores, history
<1>12. PICK K : K = {c.file} \ {0}
  OBVIOUS
<1>6. ASSUME NEW p \in Spots
      PROVE  Shows(p)' \subseteq Shows(p) \cup (IF p = <<"avatar", 0>> THEN K ELSE {})
  <2>1. CASE \E n \in Kinds, j \in Invitations : p = <<n, j>>
    BY <1>5, <2>1, ShowsAre, ShowNext
  <2>2. CASE \E n \in Nat : p = <<"preview", n>>
    BY <1>5, <2>2, ShowsAre, ShowNext DEF Ids
  <2>3. CASE p = <<"avatar", 0>>
    BY <1>5, <1>12, <2>3, ShowsAre, ShowNext
  <2>. QED BY <2>1, <2>2, <2>3, SpotsAre
<1>7. Apart(c) = {} /\ Drops(Leaves(c)) /\ Adds(<<"avatar", 0>>, K)
  BY <1>2, <1>4, <1>6 DEF Apart, Leaves, Drops, Adds
<1>8. PICK k : k = Idle
  OBVIOUS
<1>9. calls' = [calls EXCEPT ![w] = k]
  BY <1>8 DEF SetAvatar, Return, Continue
<1>10. CallTidy(k)'
  BY <1>8, IdleTidyNext
<1>11. AllFree(K)
  BY <1>4, <1>12 DEF AllFree
<1>. QED BY <1>1, <1>2, <1>5, <1>7, <1>9, <1>10, <1>11, TidyWrites

LEMMA WriteInvitationTidy ==
  ASSUME TidyInv, ~disturbed, NEW w \in Workers, WriteInvitation(w)
  PROVE  Tidy'
<1>1. PICK c : c = calls[w]
  OBVIOUS
<1>2. c.pc = "write"
  BY <1>1 DEF WriteInvitation, At
<1>3. OnItsWay(c) /\ HasRead(c, begun, Len(templates)) /\ CallTidy(c) /\ TypeInv /\ OnePlace
  BY <1>1, <1>2, InHand
<1>4. c.op = "edit" /\ c.inv \in Invitations /\ FitBody(galleries[c.inv], c.given)
  BY <1>2, <1>3 DEF OnItsWay, HasRead, CallTidy
<1>5. PICK i, g : i = c.inv /\ g = Merged(galleries[i], c.given)
  OBVIOUS
<1>6. PICK kind \in Kinds, K \in SUBSET Files :
          AllFree(K) /\ Extends(galleries[i], g, kind, K)
  BY <1>4, <1>5 DEF FitBody
<1>7. /\ galleries' = [galleries EXCEPT ![i] = g]
      /\ UNCHANGED <<templates, avatar, objects, media, drawn, deleted>>
  BY <1>1, <1>5 DEF WriteInvitation, stores, history
<1>8. i \in Invitations
  BY <1>4, <1>5
<1>9. /\ Adds(<<kind, i>>, K)
      /\ \A n \in Kinds : Shows(<<n, i>>)' = Group(g, n)
  BY <1>3, <1>6, <1>7, <1>8, GalleryWrite
<1>10. ASSUME NEW p \in Lasting, NEW f \in Leaves(c) PROVE f \notin Shows(p)'
  <2>1. PICK n \in Kinds : /\ f \in Shows(<<n, i>>) /\ <<n, i>> \in Lasting
                           /\ f \notin Group(g, n)
    BY <1>4, <1>5, EditLeaves
  <2>2. CASE p = <<n, i>>
    BY <1>9, <2>1, <2>2
  <2>3. CASE p # <<n, i>>
    <3>1. f \notin Shows(p)
      BY <1>3, <2>1, <2>3 DEF OnePlace, Lasting
    <3>2. f \notin K
      BY <1>6, <2>1 DEF AllFree, Free, Unused, Lasting
    <3>. QED BY <1>9, <3>1, <3>2 DEF Adds, Lasting
  <2>. QED BY <2>2, <2>3
<1>11. Apart(c) = {} /\ Drops(Leaves(c))
  BY <1>2, <1>10 DEF Apart, Drops
<1>12. PICK k : k = Idle
  OBVIOUS
<1>13. calls' = [calls EXCEPT ![w] = k]
  BY <1>12 DEF WriteInvitation, Return, Continue
<1>14. CallTidy(k)'
  BY <1>12, IdleTidyNext
<1>. QED BY <1>1, <1>2, <1>6, <1>7, <1>9, <1>11, <1>13, <1>14, TidyWrites

LEMMA WriteMomentsTidy ==
  ASSUME TidyInv, ~disturbed, NEW w \in Workers, WriteMoments(w)
  PROVE  Tidy'
<1>1. PICK c : c = calls[w]
  OBVIOUS
<1>2. c.pc = "writeMoments"
  BY <1>1 DEF WriteMoments, At
<1>3. IsCall(c) /\ OnItsWay(c) /\ HasRead(c, begun, Len(templates)) /\ CallTidy(c) /\ TypeInv
  BY <1>1, <1>2, InHand
<1>4. /\ c.op = "photos" /\ c.inv \in Invitations /\ c.file \in Files /\ Free(c.file)
      /\ c.given \subseteq galleries[c.inv].moments
  BY <1>2, <1>3 DEF OnItsWay, HasRead, CallTidy
<1>5. PICK i, moments, K : /\ i = c.inv /\ K = {c.file}
                           /\ moments = {IF f = c.from THEN c.file ELSE f : f \in c.given}
  OBVIOUS
<1>m. PICK raw : raw = c.used \cup {IF f = c.from THEN c.file ELSE f : f \in c.given \cap {c.from}}
  OBVIOUS
<1>6. PICK g : g = [galleries[i] EXCEPT !.moments = moments, !.raw = raw]
  OBVIOUS
<1>7. /\ galleries' = [galleries EXCEPT ![i] = g]
      /\ UNCHANGED <<templates, avatar, objects, media, drawn, deleted>>
  BY <1>1, <1>5, <1>m, <1>6 DEF WriteMoments, stores
<1>8. /\ g.images = galleries[i].images /\ g.hidden = galleries[i].hidden /\ g.music = galleries[i].music
      /\ g.moments \subseteq galleries[i].moments \cup K
  BY <1>4, <1>5, <1>6 DEF TidyInv, TypeInv, StoresOK, Galleries
<1>9. Extends(galleries[i], g, "photos", K) /\ AllFree(K)
  <2>1. PICK old : old = galleries[i]
    OBVIOUS
  <2>2. /\ Group(g, "images") = Group(old, "images") /\ Group(g, "music") = Group(old, "music")
        /\ Group(g, "photos") \subseteq Group(old, "photos") \cup K
    BY <1>8, <2>1, GroupsAre
  <2>3. Extends(old, g, "photos", K)
    BY <2>2 DEF Extends, Kinds
  <2>. QED BY <1>4, <1>5, <2>1, <2>3 DEF AllFree
<1>10. i \in Invitations /\ "photos" \in Kinds
  BY <1>4, <1>5 DEF Kinds
<1>11. Adds(<<"photos", i>>, K)
  BY <1>3, <1>7, <1>9, <1>10, GalleryWrite
<1>12. Apart(c) = {} /\ Drops(Leaves(c))
  BY <1>2, <1>4 DEF Apart, Leaves, Drops
<1>13. PICK k : k = NextLocal(c)
  OBVIOUS
<1>14. calls' = [calls EXCEPT ![w] = k]
  BY <1>1, <1>13 DEF WriteMoments, Continue
<1>15. CallTidy(k)'
  BY <1>3, <1>4, <1>13, NextLocalTidy DEF Script
<1>. QED BY <1>1, <1>2, <1>7, <1>9, <1>11, <1>12, <1>14, <1>15, TidyWrites

\* Template t is written, if any.
LEMMA TemplateWrite ==
  ASSUME UNCHANGED <<galleries, avatar>>, NEW t, NEW K,
         \A n \in Ids' : \/ n \in Ids /\ templates'[n].preview = templates[n].preview
                         \/ n = t /\ templates'[n].preview \in K
  PROVE  Adds(<<"preview", t>>, K)
<1>1. ASSUME NEW p \in Spots
      PROVE  Shows(p)' \subseteq Shows(p) \cup (IF p = <<"preview", t>> THEN K ELSE {})
  <2>1. CASE \E n \in Kinds, j \in Invitations : p = <<n, j>>
    BY <2>1, ShowsAre, ShowNext
  <2>2. CASE \E n \in Nat : p = <<"preview", n>>
    <3>1. PICK n \in Nat : p = <<"preview", n>>
      BY <2>2
    <3>2. /\ Shows(p)' = {templates'[s].preview : s \in Ids' \cap {n}}
          /\ Shows(p) = {templates[s].preview : s \in Ids \cap {n}}
      BY <3>1, ShowsAre, ShowNext
    <3>. QED BY <3>1, <3>2
  <2>3. CASE p = <<"avatar", 0>>
    BY <2>3, ShowsAre, ShowNext
  <2>. QED BY <2>1, <2>2, <2>3, SpotsAre
<1>. QED BY <1>1 DEF Adds

LEMMA WritePreviewTidy ==
  ASSUME TidyInv, ~disturbed, NEW w \in Workers, WritePreview(w)
  PROVE  Tidy'
<1>1. PICK c : c = calls[w]
  OBVIOUS
<1>2. c.pc = "writePreview"
  BY <1>1 DEF WritePreview, At
<1>3. IsCall(c) /\ OnItsWay(c) /\ HasRead(c, begun, Len(templates)) /\ CallTidy(c) /\ TypeInv
  BY <1>1, <1>2, InHand
<1>4. /\ c.op = "previews" /\ c.file \in Files /\ Free(c.file)
      /\ \A s, t \in DOMAIN c.view : c.view[s].preview = c.view[t].preview => s = t
  BY <1>2, <1>3 DEF OnItsWay, HasRead, CallTidy
<1>5. PICK K : K = {c.file}
  OBVIOUS
<1>6. PICK t : \A s \in DOMAIN c.view : c.view[s].preview = c.from => s = t
  <2>1. CASE \E s \in DOMAIN c.view : c.view[s].preview = c.from
    BY <1>4, <2>1
  <2>. QED BY <2>1
<1>7. /\ UNCHANGED <<galleries, avatar, objects, media, drawn, deleted>>
      /\ templates' = [n \in DOMAIN templates |->
             IF n \in DOMAIN c.view /\ c.view[n].preview = c.from
             THEN [templates[n] EXCEPT !.preview = c.file] ELSE templates[n]]
  BY <1>1 DEF WritePreview, stores, history
<1>8. ASSUME NEW n \in Ids'
      PROVE  \/ n \in Ids /\ templates'[n].preview = templates[n].preview
             \/ n = t /\ templates'[n].preview \in K
  <2>1. n \in DOMAIN templates /\ n \in Ids
    BY <1>7 DEF Ids
  <2>2. PICK row : row = templates[n]
    OBVIOUS
  <2>3. row \in TemplateRows
    BY <1>3, <2>1, <2>2, TemplateAt
  <2>4. CASE n \in DOMAIN c.view /\ c.view[n].preview = c.from
    <3>1. templates'[n] = [row EXCEPT !.preview = c.file] /\ n = t
      BY <1>6, <1>7, <2>1, <2>2, <2>4
    <3>2. templates'[n].preview = c.file
      BY <2>3, <3>1 DEF TemplateRows
    <3>. QED BY <1>5, <3>1, <3>2
  <2>5. CASE ~(n \in DOMAIN c.view /\ c.view[n].preview = c.from)
    BY <1>7, <2>1, <2>5
  <2>. QED BY <2>4, <2>5
<1>9. Adds(<<"preview", t>>, K)
  BY <1>7, <1>8, TemplateWrite
<1>10. AllFree(K)
  BY <1>4, <1>5 DEF AllFree
<1>11. Apart(c) = {} /\ Drops(Leaves(c))
  BY <1>2, <1>4 DEF Apart, Leaves, Drops
<1>12. PICK k : k = NextLocal(c)
  OBVIOUS
<1>13. calls' = [calls EXCEPT ![w] = k]
  BY <1>1, <1>12 DEF WritePreview, Continue
<1>14. CallTidy(k)'
  BY <1>3, <1>4, <1>12, NextLocalTidy DEF Script
<1>. QED BY <1>1, <1>2, <1>7, <1>9, <1>10, <1>11, <1>13, <1>14, TidyWrites

\* After a template has been written.
LEMMA DropsNext ==
  ASSUME NEW c, IsCall(c), c.op \in {"newTemplate", "template"}, NEW k, k = [c EXCEPT !.pc = "dropAll"]
  PROVE  CallTidy(k)'
<1>1. k.op = c.op /\ k.pc = "dropAll"
  BY DEF IsCall, Idle
<1>2. k.op \in Handless /\ k.pc \in HandlessSteps
  BY <1>1 DEF Handless, HandlessSteps
<1>. QED BY <1>2, HandlessTidy

LEMMA InsertTemplateTidy ==
  ASSUME TidyInv, ~disturbed, NEW w \in Workers, InsertTemplate(w)
  PROVE  Tidy'
<1>1. PICK c : c = calls[w]
  OBVIOUS
<1>2. c.pc = "insertTemplate"
  BY <1>1 DEF InsertTemplate, At
<1>3. IsCall(c) /\ OnItsWay(c) /\ HasRead(c, begun, Len(templates)) /\ CallTidy(c) /\ TypeInv
  BY <1>1, <1>2, InHand
<1>4. c.op = "newTemplate" /\ c.file \in Files /\ Free(c.file)
  BY <1>2, <1>3 DEF OnItsWay, HasRead, CallTidy
<1>5. PICK row : row = [preview |-> c.file, active |-> TRUE]
  OBVIOUS
<1>6. PICK t, K : t = Len(templates) + 1 /\ K = {c.file}
  OBVIOUS
<1>7. /\ UNCHANGED <<galleries, avatar, objects, media, drawn, deleted>>
      /\ templates' = Append(templates, row)
  BY <1>1, <1>5 DEF InsertTemplate, stores, history
<1>8. ASSUME NEW n \in Ids'
      PROVE  \/ n \in Ids /\ templates'[n].preview = templates[n].preview
             \/ n = t /\ templates'[n].preview \in K
  <2>1. templates \in Seq(TemplateRows)
    BY <1>3 DEF TypeInv, StoresOK
  <2>2. n \in DOMAIN templates'
    BY DEF Ids
  <2>3. \/ n \in DOMAIN templates /\ templates'[n] = templates[n]
        \/ n = t /\ templates'[n] = row
    BY ONLY <1>6, <1>7, <2>1, <2>2
  <2>4. row.preview \in K
    BY <1>5, <1>6
  <2>. QED BY <2>3, <2>4 DEF Ids
<1>9. Adds(<<"preview", t>>, K)
  BY <1>7, <1>8, TemplateWrite
<1>10. AllFree(K)
  BY <1>4, <1>6 DEF AllFree
<1>11. Apart(c) = {} /\ Drops(Leaves(c))
  BY <1>2, <1>4 DEF Apart, Leaves, Drops
<1>12. PICK k : k = [c EXCEPT !.pc = "dropAll"]
  OBVIOUS
<1>13. calls' = [calls EXCEPT ![w] = k]
  BY <1>1, <1>12 DEF InsertTemplate, Goto, Continue
<1>14. CallTidy(k)'
  BY <1>3, <1>4, <1>12, DropsNext
<1>. QED BY <1>1, <1>2, <1>7, <1>9, <1>10, <1>11, <1>13, <1>14, TidyWrites

LEMMA WriteTemplateTidy ==
  ASSUME TidyInv, ~disturbed, NEW w \in Workers, WriteTemplate(w)
  PROVE  Tidy'
<1>1. PICK c : c = calls[w]
  OBVIOUS
<1>2. c.pc = "writeTemplate"
  BY <1>1 DEF WriteTemplate, At
<1>3. /\ IsCall(c) /\ OnItsWay(c) /\ HasRead(c, begun, Len(templates)) /\ CallTidy(c) /\ TypeInv
      /\ OnePlace
  BY <1>1, <1>2, InHand
<1>4. /\ c.op = "template" /\ c.given \in {None} \cup Files /\ c.tmpl \in 1 .. Len(templates)
      /\ c.given = None \/ Free(c.given)
  BY <1>2, <1>3 DEF OnItsWay, HasRead, CallTidy, Deletes
<1>5. PICK t, K, row : /\ t = c.tmpl /\ K = {c.given} \ {None}
                       /\ row = [preview |-> Given(c.given, templates[t].preview),
                                 active |-> Given(c.active, templates[t].active)]
  OBVIOUS
<1>6. t \in Ids /\ t \in Nat
  BY <1>3, <1>4, <1>5 DEF Ids, TypeInv, StoresOK
<1>7. /\ UNCHANGED <<galleries, avatar, objects, media, drawn, deleted>>
      /\ templates' = [templates EXCEPT ![t] = row]
  BY <1>1, <1>5, <1>6 DEF WriteTemplate, stores, history, Ids
<1>8. /\ Ids' = Ids /\ templates'[t] = row /\ \A n \in Ids : n # t => templates'[n] = templates[n]
  BY <1>6, <1>7 DEF Ids
<1>9. row.preview = IF c.given = None THEN templates[t].preview ELSE c.given
  BY <1>5 DEF Given
<1>10. \A n \in Ids' : \/ n \in Ids /\ templates'[n].preview = templates[n].preview
                       \/ n = t /\ templates'[n].preview \in K
  BY <1>5, <1>8, <1>9
<1>11. Adds(<<"preview", t>>, K)
  BY <1>7, <1>10, TemplateWrite
<1>12. AllFree(K)
  BY <1>4, <1>5 DEF AllFree
<1>13. ASSUME NEW p \in Lasting, NEW f \in Leaves(c) PROVE f \notin Shows(p)'
  <2>1. f \in Shows(<<"preview", t>>) /\ <<"preview", t>> \in Lasting /\ c.given # None
    BY <1>3, <1>4, <1>5, TemplateLeaves
  <2>2. f # c.given
    BY <1>4, <2>1 DEF Free, Unused, Lasting
  <2>3. CASE p = <<"preview", t>>
    <3>1. Shows(p)' = {templates'[s].preview : s \in Ids' \cap {t}}
      BY <2>3, ShowNext
    <3>. QED BY <1>8, <1>9, <2>1, <2>2, <3>1
  <2>4. CASE p # <<"preview", t>>
    BY <1>3, <1>11, <2>1, <2>4 DEF OnePlace, Lasting, Adds
  <2>. QED BY <2>3, <2>4
<1>14. Apart(c) = {} /\ Drops(Leaves(c))
  BY <1>2, <1>13 DEF Apart, Drops
<1>15. PICK k : k = [c EXCEPT !.pc = "dropAll"]
  OBVIOUS
<1>16. calls' = [calls EXCEPT ![w] = k]
  BY <1>1, <1>15 DEF WriteTemplate, Goto, Continue
<1>17. CallTidy(k)'
  BY <1>3, <1>4, <1>15, DropsNext
<1>. QED BY <1>1, <1>2, <1>7, <1>11, <1>12, <1>14, <1>16, <1>17, TidyWrites
-----------------------------------------------------------------------------
(* Calls that begin *)

\* With no call in progress the stores agree, and only what is stored, local or
\* deleted is referred to.
LEMMA QuietTidy ==
  ASSUME TidyInv, ~disturbed, Quiet
  PROVE  /\ \A w \in Workers : calls[w].op = "none" /\ calls[w].pc = "idle"
         /\ \A f \in Files : f \in objects <=> f \in Rows
         /\ \A p \in Lasting : \A f \in Shows(p) : f \in Rows \cup LocalFiles \cup deleted
         /\ OnePlace /\ AllDrawn
<1>1. \A w \in Workers : calls[w].op = "none" /\ calls[w].pc = "idle"
  BY Mine DEF TidyInv, Quiet, OnItsWay
<1>2. \A w \in Workers : Apart(calls[w]) = {} /\ Leaves(calls[w]) = {}
  BY <1>1, IdleTidy
<1>3. StoresAgree /\ RefsAgree /\ OnePlace /\ AllDrawn
  BY DEF TidyInv, Tidy
<1>. QED BY <1>1, <1>2, <1>3 DEF StoresAgree, RefsAgree

LEMMA SpareFree ==
  ASSUME TidyInv, ~disturbed, Quiet, NEW k \in Spare
  PROVE  Free(k)
<1>1. k \in Rows /\ k \notin InUse /\ k \in Files
  BY DEF Spare, Rows
<1>2. k \in objects
  BY <1>1, QuietTidy
<1>3. ASSUME NEW p \in Spots, k \in Shows(p) PROVE FALSE
  <2>1. CASE \E kind \in Kinds, i \in Invitations : p = <<kind, i>>
    <3>1. PICK kind \in Kinds, i \in Invitations : p = <<kind, i>>
      BY <2>1
    <3>2. k \in Group(galleries[i], kind)
      BY <1>3, <3>1, ShowsAre
    <3>3. k \in ListsOf(galleries[i])
      BY <3>2, GroupsAre DEF Kinds, ListsOf
    <3>. QED BY <1>1, <3>3, UsesAre
  <2>2. CASE \E n \in Nat : p = <<"preview", n>>
    BY <1>1, <1>3, <2>2, ShowsAre, UsesAre DEF Ids
  <2>3. CASE p = <<"avatar", 0>>
    BY <1>1, <1>3, <2>3, ShowsAre, UsesAre
  <2>. QED BY <2>1, <2>2, <2>3, SpotsAre
<1>. QED BY <1>1, <1>2, <1>3 DEF Free, Unused

LEMMA MergedAre ==
  ASSUME NEW g, NEW b
  PROVE  /\ Merged(g, b).images \in {g.images, b.images}
         /\ b.images = None => Merged(g, b).images = g.images
         /\ Merged(g, b).moments \in {g.moments, b.moments}
         /\ b.moments = None => Merged(g, b).moments = g.moments
         /\ Merged(g, b).hidden \in {g.hidden, b.hidden}
         /\ b.hidden = None => Merged(g, b).hidden = g.hidden
         /\ Merged(g, b).music \in {g.music, b.music}
         /\ b.music = None => Merged(g, b).music = g.music
  BY DEF Merged, Given

LEMMA Fitting ==
  ASSUME NEW g, NEW b, NEW kind \in Kinds, NEW K, AllFree(K),
         Merged(g, b).images \subseteq g.images \cup (IF kind = "images" THEN K ELSE {}),
         (Merged(g, b).moments \cup Merged(g, b).hidden) \subseteq g.moments \cup g.hidden,
         Merged(g, b).music \in {g.music} \cup (IF kind = "music" THEN K ELSE {})
  PROVE  FitBody(g, b)
<1>1. PICK m : m = Merged(g, b)
  OBVIOUS
<1>2. Group(m, "images") \subseteq Group(g, "images") \cup (IF "images" = kind THEN K ELSE {})
  BY <1>1, GroupsAre
<1>3. Group(m, "photos") \subseteq Group(g, "photos")
  BY <1>1, GroupsAre
<1>4. Group(m, "music") \subseteq Group(g, "music") \cup (IF "music" = kind THEN K ELSE {})
  BY <1>1, GroupsAre
<1>5. Extends(g, m, kind, K)
  BY <1>2, <1>3, <1>4 DEF Extends, Kinds
<1>6. K \in SUBSET Files
  BY DEF AllFree
<1>. QED BY <1>1, <1>5, <1>6 DEF FitBody

\* What an owner sends back adds a file in no use, or moves photos, or takes some off.
LEMMA BodiesFit ==
  ASSUME NEW g, NEW b \in Bodies(g), \A f \in Spare : Free(f)
  PROVE  FitBody(g, b)
<1>0. AllFree({}) /\ \A f \in Spare : AllFree({f})
  BY DEF AllFree, Spare, Rows
<1>k. "images" \in Kinds /\ "photos" \in Kinds /\ "music" \in Kinds
  BY DEF Kinds
<1>1. CASE \E k \in Spare : b = [NotGiven EXCEPT !.images = g.images \cup {k}]
  <2>1. PICK k \in Spare : b = [NotGiven EXCEPT !.images = g.images \cup {k}]
    BY <1>1
  <2>2. /\ b.images = g.images \cup {k} /\ b.moments = None /\ b.hidden = None /\ b.music = None
    BY <2>1 DEF NotGiven
  <2>3. PICK K : K = {k}
    OBVIOUS
  <2>4. AllFree(K)
    BY <1>0, <2>3
  <2>. QED BY <1>k, <2>2, <2>3, <2>4, MergedAre, Fitting
<1>2. CASE \E k \in g.images : b = [NotGiven EXCEPT !.images = g.images \ {k}]
  <2>1. PICK k \in g.images : b = [NotGiven EXCEPT !.images = g.images \ {k}]
    BY <1>2
  <2>2. /\ b.images = g.images \ {k} /\ b.moments = None /\ b.hidden = None /\ b.music = None
    BY <2>1 DEF NotGiven
  <2>. QED BY <1>0, <1>k, <2>2, MergedAre, Fitting
<1>3. CASE \E k \in g.moments : b = [NotGiven EXCEPT !.moments = g.moments \ {k}, !.hidden = g.hidden \cup {k}]
  <2>1. PICK k \in g.moments : b = [NotGiven EXCEPT !.moments = g.moments \ {k}, !.hidden = g.hidden \cup {k}]
    BY <1>3
  <2>2. /\ b.images = None /\ b.moments = g.moments \ {k} /\ b.hidden = g.hidden \cup {k} /\ b.music = None
    BY <2>1 DEF NotGiven
  <2>. QED BY <1>0, <1>k, <2>2, MergedAre, Fitting
<1>4. CASE \E k \in g.moments : b = [NotGiven EXCEPT !.moments = g.moments \ {k}]
  <2>1. PICK k \in g.moments : b = [NotGiven EXCEPT !.moments = g.moments \ {k}]
    BY <1>4
  <2>2. /\ b.images = None /\ b.moments = g.moments \ {k} /\ b.hidden = None /\ b.music = None
    BY <2>1 DEF NotGiven
  <2>. QED BY <1>0, <1>k, <2>2, MergedAre, Fitting
<1>5. CASE \E k \in g.hidden : b = [NotGiven EXCEPT !.hidden = g.hidden \ {k}]
  <2>1. PICK k \in g.hidden : b = [NotGiven EXCEPT !.hidden = g.hidden \ {k}]
    BY <1>5
  <2>2. /\ b.images = None /\ b.moments = None /\ b.hidden = g.hidden \ {k} /\ b.music = None
    BY <2>1 DEF NotGiven
  <2>. QED BY <1>0, <1>k, <2>2, MergedAre, Fitting
<1>6. CASE \E k \in Spare : b = [NotGiven EXCEPT !.music = k]
  <2>1. PICK k \in Spare : b = [NotGiven EXCEPT !.music = k]
    BY <1>6
  <2>2. /\ b.images = None /\ b.moments = None /\ b.hidden = None /\ b.music = k
    BY <2>1 DEF NotGiven
  <2>3. PICK K : K = {k}
    OBVIOUS
  <2>4. AllFree(K)
    BY <1>0, <2>3
  <2>. QED BY <1>k, <2>2, <2>3, <2>4, MergedAre, Fitting
<1>. QED BY <1>1, <1>2, <1>3, <1>4, <1>5, <1>6 DEF Bodies

LEMMA StartTidy ==
  ASSUME TidyInv, ~disturbed', NEW w \in Workers, Start(w)
  PROVE  Tidy'
<1>. HIDE DEF Idle
<1>0. TypeInv
  BY DEF TidyInv
<1>1. PICK k : Started(w, k)
  BY <1>0, StartsAt
<1>2. /\ Begin(w, k) /\ IsCall(k) /\ FirstReads(k) /\ Recorded(k)
      /\ UNCHANGED <<objects, media, drawn, galleries, templates, avatar>>
  BY <1>1 DEF Started, stores, refs
<1>3. PICK q : q = calls'[w]
  OBVIOUS
<1>4. /\ q.op = k.op /\ q.pc = k.pc /\ q.inv = k.inv /\ q.file = k.file /\ q.given = k.given
      /\ q.todo = k.todo /\ q.used = k.used /\ q.view = k.view /\ q.tmpl = k.tmpl
      /\ \A v \in Workers : v # w => calls'[v] = calls[v]
      /\ ~disturbed /\ Quiet
  <2>1. /\ calls'[w].op = k.op /\ calls'[w].pc = k.pc /\ calls'[w].inv = k.inv
        /\ calls'[w].file = k.file /\ calls'[w].given = k.given /\ calls'[w].todo = k.todo
        /\ calls'[w].used = k.used /\ calls'[w].view = k.view /\ calls'[w].tmpl = k.tmpl
        /\ \A v \in Workers : v # w => calls'[v] = calls[v]
        /\ disturbed' = (disturbed \/ ~Quiet)
    BY <1>0, <1>2, Begun
  <2>2. ~disturbed /\ Quiet
    BY <2>1
  <2>. QED BY <1>3, <2>1, <2>2
<1>5. /\ \A v \in Workers : calls[v].op = "none" /\ calls[v].pc = "idle"
      /\ \A f \in Files : f \in objects <=> f \in Rows
      /\ \A p \in Lasting : \A f \in Shows(p) : f \in Rows \cup LocalFiles \cup deleted
      /\ OnePlace /\ AllDrawn
  BY <1>4, QuietTidy
<1>6. (\A f : Free(f)' <=> Free(f)) /\ (\A p : Shows(p)' = Shows(p)) /\ Rows' = Rows
  BY <1>2, FreeStays, SameShows DEF Rows
<1>7. deleted \subseteq deleted' /\ (k.op = "delete" => k.file \in deleted')
  BY <1>2 DEF Recorded
<1>8. \A f \in Spare : Free(f) /\ Free(f)'
  BY <1>4, <1>6, SpareFree
<1>9. CallTidy(q)'
  <2>1. CASE k = Idle
    <3>1. q.op = "none" /\ q.pc = "idle"
      BY <1>4, <2>1 DEF Idle
    <3>. QED BY <3>1 DEF CallTidy, Deletes
  <2>2. CASE /\ k.op \in {"upload", "avatar", "guest", "look", "review", "removeReview"}
             /\ k.pc \in {"putObject", "storeStamp", "readGallery", "fillShelf", "readReview", "remove"}
    BY <1>4, <2>2 DEF CallTidy, Deletes
  <2>3. CASE k.op \in {"moment", "newTemplate"} /\ k.pc \in {"push", "insertTemplate"} /\ k.file \in Spare
    BY <1>4, <1>8, <2>3 DEF CallTidy, Deletes
  <2>4. CASE k.op = "noAvatar" /\ k.pc = "setAvatar" /\ k.file = 0
    BY <1>4, <2>4 DEF CallTidy, Deletes
  <2>5. CASE k.op = "edit" /\ k.pc = "readInvitation" /\ k.given \in Bodies(galleries[k.inv])
    <3>1. PICK g : g = galleries[q.inv]
      OBVIOUS
    <3>2. FitBody(g, q.given)
      BY <1>4, <1>8, <2>5, <3>1, BodiesFit
    <3>3. FitBody(g, q.given)'
      BY <1>6, <3>2, FitStays
    <3>4. g = galleries'[q.inv]
      BY <1>2, <3>1
    <3>. QED BY <1>4, <2>5, <3>3, <3>4 DEF CallTidy, Deletes
  <2>6. CASE k.op = "delete" /\ k.pc = "deleteObject" /\ k.todo = {k.file}
    BY <1>4, <1>7, <2>6 DEF CallTidy, Deletes
  <2>7. CASE k.op = "clean" /\ k.pc = "readTemplates" /\ k.used = GalleryFiles
    <3>1. ASSUME NEW kind \in Kinds, NEW i \in Invitations PROVE Shows(<<kind, i>>) \subseteq k.used
      <4>1. Shows(<<kind, i>>) = Group(galleries[i], kind)
        BY ShowsAre
      <4>2. \A f \in Group(galleries[i], kind) : f \in ListsOf(galleries[i])
        BY GroupsAre DEF Kinds, ListsOf
      <4>3. \A f \in ListsOf(galleries[i]) : f \in GalleryFiles
        BY DEF ListsOf, GalleryFiles
      <4>. QED BY <2>7, <4>1, <4>2, <4>3
    <3>2. \A p \in Kinds \X Invitations : Shows(p) \subseteq k.used
      BY <3>1
    <3>. QED BY <1>4, <1>6, <2>7, <3>2 DEF CallTidy, Deletes
  <2>8. CASE k.op = "previews" /\ k.pc \in {"putObject", "readInvitations"} /\ k.view = templates
    <3>1. ASSUME NEW s \in DOMAIN templates, NEW t \in DOMAIN templates,
                 templates[s].preview = templates[t].preview, s # t
          PROVE  FALSE
      <4>1. s \in Nat /\ t \in Nat
        BY <1>0 DEF TypeInv, StoresOK
      <4>2. <<"preview", s>> \in Spots /\ <<"preview", t>> \in Spots /\ <<"preview", s>> # <<"preview", t>>
        BY <3>1, <4>1 DEF Spots
      <4>3. templates[s].preview \in Shows(<<"preview", s>>) /\ templates[s].preview \in Shows(<<"preview", t>>)
        BY <3>1, ShowsAre DEF Ids
      <4>. QED BY <1>5, <4>2, <4>3 DEF OnePlace
    <3>2. \A s, t \in DOMAIN q.view : q.view[s].preview = q.view[t].preview => s = t
      BY <1>4, <2>8, <3>1
    <3>. QED BY <1>4, <2>8, <3>2 DEF CallTidy, Deletes
  <2>9. CASE /\ k.op = "template" /\ k.given \in Spare \cup {None}
             /\ \/ k.pc = "writeTemplate"
                \/ k.pc = "deleteObject" /\ k.todo = {templates[k.tmpl].preview} /\ k.given # None
    <3>1. k.pc = "deleteObject" => q.todo \subseteq Leaves(q)'
      BY <1>2, <1>4, <2>9 DEF Leaves
    <3>2. q.given = None \/ Free(q.given)'
      BY <1>4, <1>8, <2>9
    <3>. QED BY <1>4, <2>9, <3>1, <3>2 DEF CallTidy, Deletes
  <2>. QED BY ONLY <1>2, <2>1, <2>2, <2>3, <2>4, <2>5, <2>6, <2>7, <2>8, <2>9 DEF FirstReads
<1>10. \A v \in Workers : CallTidy(calls[v])'
  <2>1. ASSUME NEW v \in Workers, v # w PROVE CallTidy(calls[v])'
    <3>1. calls'[v].op = "none" /\ calls'[v].pc = "idle"
      BY <1>4, <1>5, <2>1
    <3>. QED BY <3>1 DEF CallTidy, Deletes
  <2>2. CallTidy(calls[w])'
    BY <1>3, <1>9 DEF CallTidy
  <2>. QED BY <2>1, <2>2
<1>11. StoresAgree' /\ OnePlace' /\ AllDrawn' /\ RefsAgree'
  <2>1. StoresAgree'
    BY <1>2, <1>5, <1>6 DEF StoresAgree
  <2>2. OnePlace' /\ AllDrawn'
    BY <1>2, <1>5, <1>6 DEF OnePlace, AllDrawn
  <2>3. RefsAgree'
    BY <1>5, <1>6, <1>7 DEF RefsAgree
  <2>. QED BY <2>1, <2>2, <2>3
<1>. QED BY <1>10, <1>11 DEF Tidy

LEMMA StepTidy ==
  ASSUME TidyInv, ~disturbed', NEW w \in Workers, Step(w)
  PROVE  Tidy'
<1>1. ~RequestFails(w)
  BY DEF RequestFails
<1>2. ~disturbed
  <2>1. Moved(w)
    BY StepMoves DEF TidyInv
  <2>2. disturbed' = disturbed \/ disturbed' = TRUE
    BY <2>1 DEF Moved
  <2>. QED BY ONLY <2>2, ~disturbed'
<1>3. ASSUME MediaStep(w) PROVE Tidy'
  <2>1. CASE PutObject(w) \/ InsertRow(w) \/ ScriptRow(w) \/ DeleteObject(w) \/ DeleteRow(w)
    BY <1>2, <2>1, PutObjectTidy, InsertRowTidy, ScriptRowTidy, DeleteObjectTidy, DeleteRowTidy
  <2>2. CASE ReadInvitation(w) \/ ReadTemplates(w) \/ ReadOld(w) \/ ReadInvitations(w) \/ ReadMoments(w)
    BY <1>2, <2>2, ReadInvitationTidy, ReadTemplatesTidy, ReadOldTidy, ReadInvitationsTidy, ReadMomentsTidy
  <2>3. CASE \/ Push(w) \/ SetAvatar(w) \/ WriteInvitation(w) \/ WriteMoments(w) \/ WritePreview(w)
             \/ InsertTemplate(w) \/ WriteTemplate(w)
    BY <1>2, <2>3, PushTidy, SetAvatarTidy, WriteInvitationTidy, WriteMomentsTidy, WritePreviewTidy,
       InsertTemplateTidy, WriteTemplateTidy
  <2>4. CASE StoreStamp(w) \/ ReadGallery(w)
    BY <1>2, <2>4, SilentStepsTidy
  <2>. QED BY ONLY <1>1, <1>3, <2>1, <2>2, <2>3, <2>4 DEF MediaStep
<1>4. CASE \/ FillShelf(w) \/ DropAll(w) \/ DropActive(w) \/ DropDetail(w) \/ ReadReview(w) \/ Upsert(w)
           \/ Remove(w) \/ DropReviews(w)
  BY <1>2, <1>4, SilentStepsTidy
<1>. QED BY ONLY <1>3, <1>4, Step(w) DEF Step

\* A step that leaves calls, objects, rows and references as they are.
LEMMA TidyKept ==
  ASSUME TidyInv, Rows' = Rows,
         UNCHANGED <<objects, drawn, galleries, templates, avatar, deleted, calls, disturbed>>
  PROVE  Tidy'
<1>1. /\ \A p : Shows(p)' = Shows(p)
      /\ \A f : Unused(f)' <=> Unused(f)
      /\ \A c : Leaves(c)' = Leaves(c)
  BY SameShows
<1>2. \A f : Free(f)' <=> Free(f)
  BY <1>1 DEF Free
<1>3. ASSUME NEW c, CallTidy(c) PROVE CallTidy(c)'
  <2>1. PICK g : g = galleries[c.inv]
    OBVIOUS
  <2>2. g = galleries'[c.inv]
    BY <2>1
  <2>3. c.op = "edit" => FitBody(g, c.given)'
    BY <1>2, <1>3, <2>1, FitStays DEF CallTidy
  <2>. QED BY <1>1, <1>2, <1>3, <2>1, <2>2, <2>3 DEF CallTidy
<1>4. ASSUME ~disturbed'
      PROVE  /\ StoresAgree' /\ OnePlace' /\ AllDrawn' /\ RefsAgree'
             /\ \A w \in Workers : CallTidy(calls[w])'
  <2>1. StoresAgree /\ OnePlace /\ AllDrawn /\ RefsAgree /\ \A w \in Workers : CallTidy(calls[w])
    BY <1>4 DEF TidyInv, Tidy
  <2>2. StoresAgree' /\ OnePlace' /\ AllDrawn' /\ RefsAgree'
    BY <1>1, <2>1 DEF StoresAgree, OnePlace, AllDrawn, RefsAgree
  <2>3. ASSUME NEW w \in Workers PROVE CallTidy(calls[w])'
    <3>1. PICK c : c = calls[w]
      OBVIOUS
    <3>2. CallTidy(c)'
      BY <1>3, <2>1, <3>1
    <3>3. c = calls'[w]
      BY <3>1
    <3>. QED BY <3>2, <3>3 DEF CallTidy
  <2>. QED BY <2>2, <2>3
<1>. QED BY <1>4 DEF Tidy

LEMMA NextTidy == TidyInv /\ [Next]_vars => TidyInv'
<1> SUFFICES ASSUME TidyInv, [Next]_vars, ~disturbed' PROVE Tidy'
  BY NextTypeInv, NextAlone DEF TidyInv, Tidy
<1>1. ASSUME NEW w \in Workers, Start(w) PROVE Tidy'
  BY <1>1, StartTidy
<1>2. ASSUME NEW w \in Workers, Step(w) PROVE Tidy'
  BY <1>2, StepTidy
<1>3. ASSUME NEW w \in Workers, Fail(w) PROVE FALSE
  BY <1>3 DEF Fail
<1>4. ASSUME NEW g \in Files, GrowOld(g) PROVE Tidy'
  <2>1. UNCHANGED <<objects, drawn, galleries, templates, avatar, deleted, calls, disturbed>>
        /\ media' = [media EXCEPT ![g] = "old"] /\ media[g] = "new"
    BY <1>4 DEF GrowOld, TimeOut, refs, history
  <2>2. Rows' = Rows
    BY <2>1 DEF Rows, TidyInv, TypeInv, StoresOK
  <2>. QED BY <2>1, <2>2, TidyKept
<1>5. CASE \/ \E now \in 1 .. MaxCalls : MinutePasses(now)
           \/ \E key \in ShelfKeys : ShelfExpires(key)
           \/ UNCHANGED vars
  <2>1. UNCHANGED <<objects, media, drawn, galleries, templates, avatar, deleted, calls, disturbed>>
    BY <1>5 DEF MinutePasses, ShelfExpires, TimeOut, vars, mediaVars, stores, refs, history
  <2>2. Rows' = Rows
    BY <2>1 DEF Rows
  <2>. QED BY <2>1, <2>2, TidyKept
<1>. QED BY <1>1, <1>2, <1>3, <1>4, <1>5 DEF Next, TimePasses

\* uploadFile, the deletions of update and of the templates, cleanupOrphans and the
\* script write S3, the table media and the references one after another: for any
\* galleries, templates and number of calls, as long as no calls overlap and no
\* request fails, between two calls S3 holds exactly the files that media lists,
\* and every picture of a gallery or a template is among them.  Out of this are
\* pictures still on the local disk, files that somebody deleted by their id, and
\* photos that the script stored with the URL of the bucket and an edit sent back:
\* those update deletes although it keeps them.
THEOREM FilesInStep == Spec => []FilesAgree
<1>. QED BY InitTidy, NextTidy, TidyAgrees, PTL DEF Spec
====
