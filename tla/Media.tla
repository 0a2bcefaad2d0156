------------------------------- MODULE Media -------------------------------
(***************************************************************************)
(* Uploaded files: the objects in S3, the table media that lists them, and *)
(* the galleries, template previews and avatars that refer to them.        *)
(* src/src/media/media.service.ts, s3.service.ts, the galleries of         *)
(* src/src/invitation/invitation.service.ts, the preview of                *)
(* src/src/template/template.service.ts, the avatar of                     *)
(* src/src/user/user.service.ts and the script                             *)
(* src/scripts/migrate-local-images-to-s3.ts.                              *)
(*                                                                         *)
(* No transaction spans the three: a call writes them one after another,   *)
(* one action per query, cache operation or request to S3.  CLOUDFRONT_URL *)
(* is set, so that a URL is the key of its object below that address; only *)
(* the script stores URLs of the bucket, which an owner is shown below     *)
(* CLOUDFRONT_URL all the same.                                            *)
(***************************************************************************)
EXTENDS Integers, Sequences, FiniteSets

CONSTANTS
    Invitations,   \* invitations with a gallery
    InitGallery,   \* their galleries at first
    InitTemplates, \* the templates at first, a sequence of rows
    InitAvatar,    \* the avatar of the account at first, 0 if none
    InitFiles,     \* number of files at first
    LocalFiles,    \* those of them that are still on the local disk
    GuestLimit,    \* photos in a gallery that close it for guests (50)
    MomentLimit,   \* photos in a gallery that close it for its owner (100)
    UploadLimit,   \* uploads of a guest per minute (5)
    Workers,       \* bound: calls in progress at the same time
    MaxCalls,      \* bound: number of calls
    MaxTimeouts,   \* bound: number of files that grow old and minutes that pass
    MaxFailures,   \* bound: calls that die, and requests that fail
    None           \* undefined / NULL

\* Files are numbered as they are stored; a call stores at most one new file,
\* the script at most one for each local file.
Files == 1 .. InitFiles + MaxCalls * (1 + Cardinality(LocalFiles))

\* images and hidden stand for three and two lists each: hiddenImages and
\* deletedImages, and deletedMoments, are shown elsewhere but cleaned up alike.
\* raw: the photos of moments that are stored with the URL of the bucket.
Galleries == [images : SUBSET Files, moments : SUBSET Files, hidden : SUBSET Files,
              music : {0} \cup Files, raw : SUBSET Files]

TemplateRows == [preview : Files, active : BOOLEAN]

ASSUME MediaAssumption ==
    /\ InitFiles \in Nat /\ LocalFiles \subseteq 1 .. InitFiles
    /\ InitGallery \in [Invitations -> Galleries]
    /\ InitTemplates \in Seq(TemplateRows)
    /\ InitAvatar \in 0 .. InitFiles
    /\ {GuestLimit, MomentLimit, UploadLimit} \subseteq Nat
    /\ {MaxCalls, MaxTimeouts, MaxFailures} \subseteq Nat
    /\ None \notin BOOLEAN /\ None \notin Files /\ None \notin {"redis", "memory"}
    /\ IsFiniteSet(Workers)

\* What is referred to at first has been stored.
ASSUME ReferencesAssumption ==
    /\ \A i \in Invitations : LET g == InitGallery[i] IN
          /\ g.images \cup g.moments \cup g.hidden \cup {g.music} \subseteq 0 .. InitFiles
          /\ g.raw \subseteq g.moments
    /\ \A t \in DOMAIN InitTemplates : InitTemplates[t].preview \in 1 .. InitFiles

Kinds == {"images", "photos", "music"}

\* The files of one group of lists; a photo that is hidden stays in its group.
Group(g, kind) ==
    CASE kind = "images" -> g.images
      [] kind = "photos" -> g.moments \cup g.hidden
      [] kind = "music"  -> {g.music} \ {0}

\* Where galleries gs, templates ts and avatar a may refer to a file, and what
\* they refer to there.
Places(ts) == (Kinds \X Invitations) \cup ({"preview"} \X DOMAIN ts) \cup {<<"avatar", 0>>}

UsedAt(gs, ts, a, p) ==
    CASE p[1] \in Kinds   -> Group(gs[p[2]], p[1])
      [] p[1] = "preview" -> {ts[t].preview : t \in DOMAIN ts \cap {p[2]}}
      [] p[1] = "avatar"  -> {a} \ {0}

\* As in Spare, a file is used in one place.
ASSUME OnePlaceAssumption ==
    \A p, q \in Places(InitTemplates) : p # q =>
        UsedAt(InitGallery, InitTemplates, InitAvatar, p)
            \cap UsedAt(InitGallery, InitTemplates, InitAvatar, q) = {}

VARIABLES
    objects,     \* the keys that S3 holds
    media,       \* the media table: "none", "new" or "old" (a day) per key
    drawn,       \* number of keys so far
    galleries,   \* the lists of each invitation
    templates,   \* the templates table; the id of a template is its position
    avatar,      \* users.avatar_url of one account
    cache,       \* "redis" or "memory"; None until the first guest shows which
    stamps,      \* per invitation: the cached time stamps of a guest's uploads
    oldest,      \* time stamps up to this one are more than a minute old
    granted,     \* history: the uploads that passed the limit
    guests,      \* history: the photos that guests pushed, with their invitation
    edited,      \* history: invitations whose lists somebody set out to replace
    deleted,     \* history: files that a call sets out to delete by their id, or
                 \* though it keeps them in their list
    migrated,    \* history: the script has been started
    calls,       \* per worker: where its handler stands and what it has read
    begun,       \* number of calls so far
    timeouts,    \* number of time-outs so far
    failures,    \* number of failures so far
    disturbed    \* history: calls have overlapped, or something has failed

stores == <<objects, media, drawn>>

refs == <<galleries, templates, avatar>>

window == <<cache, stamps, oldest, granted>>

history == <<guests, edited, deleted, migrated>>

bounds == <<begun, timeouts, failures>>

mediaVars == <<stores, refs, window, history>>
-----------------------------------------------------------------------------
(* Calls *)

\* given: the lists a body names; todo: files still to delete or to migrate;
\* used: references or time stamps that were read; from: the local file that
\* moves; view: what was read of lists; stamp: when it came; seen: the files that
\* were stored, by calls that had ended, when it began.
Idle == [op |-> "none", pc |-> "idle", inv |-> None, file |-> 0, given |-> None,
         todo |-> {}, used |-> {}, from |-> 0, view |-> None, tmpl |-> 0,
         active |-> None, stamp |-> 0, seen |-> {}]

Init ==
    /\ objects = 1 .. InitFiles \ LocalFiles
    /\ media = [k \in Files |-> IF k \in objects THEN "old" ELSE "none"]
    /\ drawn = InitFiles
    /\ galleries = InitGallery
    /\ templates = InitTemplates
    /\ avatar = InitAvatar
    /\ cache = None
    /\ stamps = [i \in Invitations |-> {}]
    /\ oldest = 0
    /\ granted = [i \in Invitations |-> {}]
    /\ guests = {}
    /\ edited = {}
    /\ deleted = {}
    /\ migrated = FALSE
    /\ calls = [w \in Workers |-> Idle]
    /\ begun = 0
    /\ timeouts = 0
    /\ failures = 0
    /\ disturbed = FALSE

Quiet == \A w \in Workers : calls[w].pc = "idle"

At(w, pc) == calls[w].pc = pc

Rows == {k \in Files : media[k] # "none"}

Held == {calls[w].file : w \in Workers}

\* A free worker takes a call.  Bound: MaxCalls.
Begin(w, call) ==
    /\ At(w, "idle")
    /\ begun < MaxCalls
    /\ begun' = begun + 1
    /\ calls' = [calls EXCEPT ![w] = IF call = Idle THEN Idle
                                      ELSE [call EXCEPT !.seen = Rows \ Held]]
    /\ disturbed' = (disturbed \/ ~Quiet)
    /\ UNCHANGED <<timeouts, failures>>

Continue(w, call) == calls' = [calls EXCEPT ![w] = call] /\ UNCHANGED <<bounds, disturbed>>

Goto(w, pc) == Continue(w, [calls[w] EXCEPT !.pc = pc])

Return(w) == Continue(w, Idle)
-----------------------------------------------------------------------------
(* Uploads: uploadMedia, uploadAvatar, guestUpload *)

UploadMedia(w, op) ==
    /\ Begin(w, [Idle EXCEPT !.op = op, !.pc = "putObject"])
    /\ UNCHANGED mediaVars

\* mutation: one upload more is let through
TooMany_OffByOne(n) == n > UploadLimit + 1

\* n counts the upload itself.
TooMany(n) == n > UploadLimit

InWindow(stamp) == stamp > oldest

\* checkUploadLimit.  Redis adds the time stamp and counts in one transaction,
\* and the stamp of a refused upload stays; a cache in memory is read now and
\* stored by a later step.
GuestUpload(w, i) ==
    LET now == begun + 1
        recent == {s \in stamps[i] : InWindow(s)}
        refused == TooMany(Cardinality(recent) + 1)
    IN /\ \/ /\ cache' = "redis"
             /\ stamps' = [stamps EXCEPT ![i] = recent \cup {now}]
             /\ granted' = [granted EXCEPT ![i] = IF refused THEN @ ELSE @ \cup {now}]
             /\ Begin(w, IF refused THEN Idle
                         ELSE [Idle EXCEPT !.op = "guest", !.pc = "readGallery", !.inv = i])
          \/ /\ cache' = "memory"
             /\ ~refused
             /\ Begin(w, [Idle EXCEPT !.op = "guest", !.pc = "storeStamp", !.inv = i,
                                      !.stamp = now, !.used = recent])
             /\ UNCHANGED <<stamps, granted>>
       /\ cache \in {None, cache'}
       /\ UNCHANGED <<stores, refs, oldest, history>>

StoreStamp(w) ==
    /\ At(w, "storeStamp")
    /\ LET i == calls[w].inv
           now == calls[w].stamp
       IN /\ stamps' = [stamps EXCEPT ![i] = calls[w].used \cup {now}]
          /\ granted' = [granted EXCEPT ![i] = @ \cup {now}]
    /\ Continue(w, [calls[w] EXCEPT !.pc = "readGallery", !.used = {}, !.stamp = 0])
    /\ UNCHANGED <<stores, refs, cache, oldest, history>>

\* mutation: a full gallery takes more photos
Full_Unchecked(i) == FALSE

Full(i) == Cardinality(galleries[i].moments) >= GuestLimit

\* guestUpload reads the invitation, which is active and takes uploads, after
\* the limit on uploads.
ReadGallery(w) ==
    /\ At(w, "readGallery")
    /\ IF Full(calls[w].inv) THEN Return(w) ELSE Goto(w, "putObject")
    /\ UNCHANGED mediaVars

\* uploadFile: a new key, the object first.
PutObject(w) ==
    /\ At(w, "putObject")
    /\ drawn' = drawn + 1
    /\ objects' = objects \cup {drawn'}
    /\ Continue(w, [calls[w] EXCEPT !.pc = "insertRow", !.file = drawn'])
    /\ UNCHANGED <<media, refs, window, history>>

Script == {"previews", "photos"}

\* What follows the row.
AfterRow(op) ==
    CASE op = "guest" -> "push"
      [] op = "avatar" -> "setAvatar"
      [] OTHER -> "idle"

InsertRow(w) ==
    /\ At(w, "insertRow")
    /\ calls[w].op \notin Script
    /\ media' = [media EXCEPT ![calls[w].file] = "new"]
    /\ IF AfterRow(calls[w].op) = "idle" THEN Return(w) ELSE Goto(w, AfterRow(calls[w].op))
    /\ UNCHANGED <<objects, drawn, refs, window, history>>

\* The owner links a photo; its own limit is read before the push.
AddMoment(w, i, k) ==
    /\ Cardinality(galleries[i].moments) < MomentLimit
    /\ Begin(w, [Idle EXCEPT !.op = "moment", !.pc = "push", !.inv = i, !.file = k])
    /\ UNCHANGED mediaVars

\* The photo is appended to whatever the list holds by now; the page of the
\* invitation is dropped from the cache as in Invitations.
Push(w) ==
    /\ At(w, "push")
    /\ LET call == calls[w] IN
         /\ galleries' = [galleries EXCEPT ![call.inv].moments = @ \cup {call.file}]
         /\ guests' = IF call.op = "guest" THEN guests \cup {<<call.inv, call.file>>} ELSE guests
    /\ Return(w)
    /\ UNCHANGED <<stores, templates, avatar, window, edited, deleted, migrated>>

SetAvatar(w) ==
    /\ At(w, "setAvatar")
    /\ avatar' = calls[w].file
    /\ Return(w)
    /\ UNCHANGED <<stores, galleries, templates, window, history>>

\* removeAvatar; the file is left to the clean-up.
RemoveAvatar(w) ==
    /\ avatar # 0
    /\ Begin(w, [Idle EXCEPT !.op = "noAvatar", !.pc = "setAvatar"])
    /\ UNCHANGED mediaVars
-----------------------------------------------------------------------------
(* Edits of a gallery: update *)

NotGiven == [images |-> None, moments |-> None, hidden |-> None, music |-> None]

InUse == (UNION {g.images \cup g.moments \cup g.hidden \cup {g.music} :
                     g \in {galleries[i] : i \in Invitations}})
         \cup {templates[t].preview : t \in DOMAIN templates} \cup {avatar}

\* Files that were uploaded and that nothing refers to.  Bound: a file is used
\* in one place, which its uploader chooses after the upload.
Spare == Rows \ (InUse \cup Held)

\* What an owner who looks at gallery g may send back: whole lists.
Bodies(g) ==
    {[NotGiven EXCEPT !.images = g.images \cup {k}] : k \in Spare}
    \cup {[NotGiven EXCEPT !.images = g.images \ {k}] : k \in g.images}
    \cup {[NotGiven EXCEPT !.moments = g.moments \ {k}, !.hidden = g.hidden \cup {k}]
              : k \in g.moments}
    \cup {[NotGiven EXCEPT !.moments = g.moments \ {k}] : k \in g.moments}
    \cup {[NotGiven EXCEPT !.hidden = g.hidden \ {k}] : k \in g.hidden}
    \cup {[NotGiven EXCEPT !.music = k] : k \in Spare}

\* The owner opens the editor and sends lists that rest on what it showed.
Edit(w, i) ==
    /\ \E b \in Bodies(galleries[i]) :
          Begin(w, [Idle EXCEPT !.op = "edit", !.pc = "readInvitation", !.inv = i,
                                !.given = b])
    /\ edited' = edited \cup {i}
    /\ UNCHANGED <<stores, refs, window, guests, deleted, migrated>>

Given(new, old) == IF new = None THEN old ELSE new

\* The gallery after body b, whose URLs are those that the owner was shown.
Merged(g, b) == [images |-> Given(b.images, g.images), moments |-> Given(b.moments, g.moments),
                 hidden |-> Given(b.hidden, g.hidden), music |-> Given(b.music, g.music),
                 raw |-> IF b.moments = None THEN g.raw ELSE {}]

\* The photos of g as their URLs are stored: a file, and whether in the bucket.
PhotoUrls(g) == {<<k, k \in g.raw>> : k \in g.moments} \cup {<<k, FALSE>> : k \in g.hidden}

\* mutation: the hidden photos are not looked at
Removed_Hidden(old, new) ==
    (old.images \ new.images) \cup (old.moments \ new.moments)
    \cup ({old.music} \ {0, new.music})

\* Files with a URL that is in no list of its group any more.
Removed(old, new) ==
    (old.images \ new.images)
    \cup {url[1] : url \in PhotoUrls(old) \ PhotoUrls(new)}
    \cup ({old.music} \ {0, new.music})

\* A call with files to delete goes on to the first of them, then to its write.
Deleting(call, todo, write) ==
    IF todo = {} THEN [call EXCEPT !.todo = {}, !.pc = write]
    ELSE [call EXCEPT !.todo = todo, !.pc = "deleteObject", !.file = CHOOSE k \in todo : TRUE]

\* A photo that the script moved is shown, and sent back, with another URL than
\* the stored one: it is removed although it stays in its list.
ReadInvitation(w) ==
    /\ At(w, "readInvitation")
    /\ LET old == galleries[calls[w].inv]
           new == Merged(old, calls[w].given)
       IN /\ Continue(w, Deleting(calls[w], Removed(old, new), "write"))
          /\ deleted' = deleted \cup (Removed(old, new) \cap old.raw
                                        \cap (new.moments \cup new.hidden))
    /\ UNCHANGED <<stores, refs, window, guests, edited, migrated>>

\* A local path names no key of S3: nothing is deleted there.
DeleteObject(w) ==
    /\ At(w, "deleteObject")
    /\ objects' = objects \ {calls[w].file}
    /\ Goto(w, "deleteRow")
    /\ UNCHANGED <<media, drawn, refs, window, history>>

\* The write that follows the deletions, if there is one.
AfterDelete(op) ==
    CASE op = "edit" -> "write"
      [] op = "template" -> "writeTemplate"
      [] OTHER -> "idle"

DeleteRow(w) ==
    /\ At(w, "deleteRow")
    /\ media' = [media EXCEPT ![calls[w].file] = "none"]
    /\ LET left == Deleting(calls[w], calls[w].todo \ {calls[w].file}, AfterDelete(calls[w].op))
       IN IF left.pc = "idle" THEN Return(w) ELSE Continue(w, left)
    /\ UNCHANGED <<objects, drawn, refs, window, history>>

\* The next local file of the script; after the previews come the photos.
NextLocal(call) ==
    IF call.todo # {}
    THEN LET f == CHOOSE f \in call.todo : TRUE
         IN [call EXCEPT !.pc = "putObject", !.from = f, !.todo = @ \ {f}]
    ELSE IF call.op = "previews" THEN [call EXCEPT !.pc = "readInvitations"] ELSE Idle

\* Where call goes when its request fails.  update and the edit of a template
\* go on with the row if S3 fails and with the next file if the row stays; a
\* clean-up takes the next file, and so does the script when it cannot verify an
\* object; deleteMedia and uploads end with the error.
AfterFailure(call) ==
    CASE call.pc = "putObject" \/ call.op = "delete" -> Idle
      [] call.pc = "insertRow" -> NextLocal(call)
      [] call.op \in {"edit", "template"} /\ call.pc = "deleteObject" ->
             [call EXCEPT !.pc = "deleteRow"]
      [] OTHER -> Deleting(call, call.todo \ {call.file}, AfterDelete(call.op))

RequestFails(w) ==
    /\ \/ calls[w].pc \in {"putObject", "deleteObject", "deleteRow"}
       \/ calls[w].op \in Script /\ calls[w].pc = "insertRow"
    /\ failures < MaxFailures
    /\ failures' = failures + 1
    /\ disturbed' = TRUE
    /\ LET next == AfterFailure(calls[w])
       IN calls' = [calls EXCEPT ![w] = IF next.pc = "idle" THEN Idle ELSE next]
    /\ UNCHANGED <<mediaVars, begun, timeouts>>

\* Only the lists the body names are written, as they were sent.
WriteInvitation(w) ==
    /\ At(w, "write")
    /\ LET i == calls[w].inv IN
         galleries' = [galleries EXCEPT ![i] = Merged(@, calls[w].given)]
    /\ Return(w)
    /\ UNCHANGED <<stores, templates, avatar, window, history>>
-----------------------------------------------------------------------------
(* deleteMedia and cleanupOrphans *)

DeleteMedia(w, k) ==
    /\ media[k] # "none"
    /\ Begin(w, Deleting([Idle EXCEPT !.op = "delete"], {k}, "idle"))
    /\ deleted' = deleted \cup {k}
    /\ UNCHANGED <<stores, refs, window, guests, edited, migrated>>

CleanupOrphans(w) ==
    /\ Begin(w, [Idle EXCEPT !.op = "clean", !.pc = "readTemplates",
                 !.used = UNION {g.images \cup g.moments \cup g.hidden \cup {g.music} :
                                     g \in {galleries[i] : i \in Invitations}}])
    /\ UNCHANGED mediaVars

ReadTemplates(w) ==
    /\ At(w, "readTemplates")
    /\ Continue(w, [calls[w] EXCEPT !.pc = "readOld",
           !.used = @ \cup {templates[t].preview : t \in DOMAIN templates}])
    /\ UNCHANGED mediaVars

\* mutation: files uploaded a moment ago are cleaned up too
Candidates_All == Rows

\* Only files that were uploaded more than a day ago.
Candidates == {k \in Files : media[k] = "old"}

\* Avatars are not among the references.
ReadOld(w) ==
    /\ At(w, "readOld")
    /\ LET left == Deleting([calls[w] EXCEPT !.used = {}], Candidates \ calls[w].used, "idle")
       IN IF left.pc = "idle" THEN Return(w) ELSE Continue(w, left)
    /\ UNCHANGED mediaVars
-----------------------------------------------------------------------------
(* The script that moves local files to S3 *)

\* Photos lie in public/uploads, previews among the images of the frontend.
LocalPhotos == LocalFiles \ {InitTemplates[t].preview : t \in DOMAIN InitTemplates}

\* Templates that already show a URL are skipped; files in public/uploads are
\* moved again whenever the script runs.
RunScript(w) ==
    /\ LET local == {templates[t].preview : t \in DOMAIN templates} \cap LocalFiles
       IN Begin(w, NextLocal([Idle EXCEPT !.op = "previews", !.todo = local,
                                          !.view = templates]))
    /\ migrated' = TRUE
    /\ UNCHANGED <<stores, refs, window, guests, edited, deleted>>

ReadInvitations(w) ==
    /\ At(w, "readInvitations")
    /\ Continue(w, NextLocal([calls[w] EXCEPT !.op = "photos", !.todo = LocalPhotos,
                                  !.view = [i \in Invitations |-> galleries[i].moments]]))
    /\ UNCHANGED mediaVars

\* The invitation that showed the file when the invitations were read.
HomeOf(call) == {i \in Invitations : call.from \in call.view[i]}

ScriptRow(w) ==
    /\ At(w, "insertRow")
    /\ calls[w].op \in Script
    /\ media' = [media EXCEPT ![calls[w].file] = "new"]
    /\ LET call == calls[w] IN
         Continue(w, IF call.op = "previews" THEN [call EXCEPT !.pc = "writePreview"]
                     ELSE IF HomeOf(call) # {} THEN [call EXCEPT !.pc = "readMoments"]
                     ELSE NextLocal(call))
    /\ UNCHANGED <<objects, drawn, refs, window, history>>

\* The template gets the new file whatever it shows by now.
WritePreview(w) ==
    /\ At(w, "writePreview")
    /\ LET call == calls[w]
           shows(t) == t \in DOMAIN call.view /\ call.view[t].preview = call.from
       IN /\ templates' = [t \in DOMAIN templates |->
                IF shows(t) THEN [templates[t] EXCEPT !.preview = call.file]
                            ELSE templates[t]]
          /\ Continue(w, NextLocal(call))
    /\ UNCHANGED <<stores, galleries, avatar, window, history>>

\* The list is read again before it is replaced.
ReadMoments(w) ==
    /\ At(w, "readMoments")
    /\ \E i \in HomeOf(calls[w]) :
          Continue(w, [calls[w] EXCEPT !.pc = "writeMoments", !.inv = i,
                                       !.given = galleries[i].moments,
                                       !.used = galleries[i].raw])
    /\ UNCHANGED mediaVars

\* The moved photo gets the URL of the bucket; the others keep theirs.
WriteMoments(w) ==
    /\ At(w, "writeMoments")
    /\ LET call == calls[w]
           moved(k) == IF k = call.from THEN call.file ELSE k
           raw == call.used \cup {moved(k) : k \in call.given \cap {call.from}}
       IN /\ galleries' = [galleries EXCEPT ![call.inv] =
                [@ EXCEPT !.moments = {moved(k) : k \in call.given}, !.raw = raw]]
          /\ edited' = edited \cup {call.inv}
          /\ Continue(w, NextLocal(call))
    /\ UNCHANGED <<stores, templates, avatar, window, guests, deleted, migrated>>
-----------------------------------------------------------------------------
(* Previews of templates *)

CreateTemplate(w, k) ==
    /\ Begin(w, [Idle EXCEPT !.op = "newTemplate", !.pc = "insertTemplate", !.file = k])
    /\ UNCHANGED mediaVars

InsertTemplate(w) ==
    /\ At(w, "insertTemplate")
    /\ templates' = Append(templates, [preview |-> calls[w].file, active |-> TRUE])
    /\ Goto(w, "dropAll")
    /\ UNCHANGED <<stores, galleries, avatar, window, history>>

\* A body with another preview deletes the old file before the row is written.
UpdateTemplate(w, t, k, b) ==
    /\ LET old == templates[t].preview
           call == [Idle EXCEPT !.op = "template", !.tmpl = t, !.given = k, !.active = b]
       IN Begin(w, Deleting(call, IF k \in {None, old} THEN {} ELSE {old}, "writeTemplate"))
    /\ UNCHANGED mediaVars

WriteTemplate(w) ==
    /\ At(w, "writeTemplate")
    /\ LET call == calls[w] IN
         templates' = [templates EXCEPT ![call.tmpl] =
                           [preview |-> Given(call.given, @.preview),
                            active |-> Given(call.active, @.active)]]
    /\ Goto(w, "dropAll")
    /\ UNCHANGED <<stores, galleries, avatar, window, history>>
-----------------------------------------------------------------------------
\* Bound: MaxTimeouts.
TimeOut ==
    /\ timeouts < MaxTimeouts
    /\ timeouts' = timeouts + 1
    /\ UNCHANGED <<calls, begun, failures, disturbed>>

\* A day passes.  Bound: calls are short, so those in progress began after the
\* call that stored the file had ended.
GrowOld(k) ==
    /\ TimeOut
    /\ media[k] = "new"
    /\ \A w \in Workers : At(w, "idle") \/ k \in calls[w].seen
    /\ media' = [media EXCEPT ![k] = "old"]
    /\ UNCHANGED <<objects, drawn, refs, window, history>>

\* Only the age of the time stamps there are can show.
MinutePasses(now) ==
    /\ TimeOut
    /\ InWindow(now)
    /\ now \in (UNION {stamps[i] : i \in Invitations}) \cup {calls[w].stamp : w \in Workers}
    /\ oldest' = now
    /\ UNCHANGED <<stores, refs, cache, stamps, granted, history>>

MediaStart(w) ==
    \/ \E op \in {"upload", "avatar"} : UploadMedia(w, op)
    \/ \E i \in Invitations : GuestUpload(w, i) \/ Edit(w, i)
    \/ \E i \in Invitations, k \in Spare : AddMoment(w, i, k)
    \/ \E k \in Files : DeleteMedia(w, k)
    \/ CleanupOrphans(w)
    \/ RemoveAvatar(w)
    \/ RunScript(w)
    \/ \E k \in Spare : CreateTemplate(w, k)
    \/ \E t \in DOMAIN templates :
          \/ \E k \in Spare : UpdateTemplate(w, t, k, None)
          \/ \E b \in BOOLEAN : UpdateTemplate(w, t, None, b)

\* The steps of a call in progress.
MediaStep(w) ==
    \/ StoreStamp(w)
    \/ ReadGallery(w)
    \/ PutObject(w)
    \/ InsertRow(w)
    \/ Push(w)
    \/ SetAvatar(w)
    \/ ReadInvitation(w)
    \/ DeleteObject(w)
    \/ DeleteRow(w)
    \/ RequestFails(w)
    \/ WriteInvitation(w)
    \/ ReadTemplates(w)
    \/ ReadOld(w)
    \/ ReadInvitations(w)
    \/ ScriptRow(w)
    \/ WritePreview(w)
    \/ ReadMoments(w)
    \/ WriteMoments(w)
    \/ InsertTemplate(w)
    \/ WriteTemplate(w)

TimePasses ==
    \/ \E k \in Files : GrowOld(k)
    \/ \E now \in 1 .. MaxCalls : MinutePasses(now)
-----------------------------------------------------------------------------
(* Properties *)

\* Every variable of this module has its type (media.service.ts).
MediaTypeOK ==
    /\ objects \subseteq 1 .. drawn /\ drawn \in Files \cup {0}
    /\ media \in [Files -> {"none", "new", "old"}]
    /\ galleries \in [Invitations -> Galleries]
    /\ templates \in Seq(TemplateRows)
    /\ avatar \in {0} \cup Files
    /\ \A i \in Invitations : stamps[i] \cup granted[i] \subseteq 1 .. begun
    /\ guests \subseteq Invitations \X Files /\ deleted \subseteq Files /\ edited \subseteq Invitations /\ migrated \in BOOLEAN
    /\ begun <= MaxCalls /\ timeouts <= MaxTimeouts /\ failures <= MaxFailures

\* What galleries and templates refer to, apart from files of the local disk,
\* files that somebody deletes by their id and photos that the script has moved
\* and an edit sends back: update compares URLs as they are stored, and deletes
\* a photo that it keeps when the owner was shown another URL of it.
Referenced == InUse \ (LocalFiles \cup deleted \cup {0, avatar})

\* The objects in S3, the rows of media and the references are written one
\* after another: as long as nothing is disturbed they agree, so that neither a
\* clean-up, nor the script, nor an edit, apart from the photos above, leaves a
\* picture without its object, and nothing leaves an object without its row.
FilesAgree ==
    ~disturbed /\ Quiet => objects = Rows /\ Referenced \subseteq Rows

\* The photos of a gallery that guests pushed to it.
GuestPhotos(i) == {k \in galleries[i].moments : <<i, k>> \in guests}

\* A clean-up works on references it read before it deletes.  Because it skips
\* the files of the last day, it never takes a photo that a guest has pushed to
\* a gallery whose lists nobody edits, whatever overlaps, fails or dies.
GuestPhotosSafe ==
    \A i \in Invitations \ edited : GuestPhotos(i) \ deleted \subseteq objects \cap Rows

\* guestUpload reads the length of the list three awaits before the push: a
\* gallery whose lists nobody edits takes photos of guests up to its limit, the
\* photos it held before included, and one more for each other call that can be
\* in progress.
GuestPhotosBounded ==
    \A i \in Invitations \ edited : GuestPhotos(i) # {} =>
        Cardinality(GuestPhotos(i) \cup InitGallery[i].moments)
            <= GuestLimit + IF disturbed THEN Cardinality(Workers) - 1 ELSE 0

\* In Redis the window of uploads is kept in one transaction: a guest never
\* gets more than the limit in a minute.  Without Redis that holds as long as
\* nothing is disturbed.
UploadsInWindow ==
    cache = "redis" \/ ~disturbed =>
        \A i \in Invitations : Cardinality({s \in granted[i] : InWindow(s)}) <= UploadLimit
=============================================================================
