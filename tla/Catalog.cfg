SPECIFICATION Spec
CONSTANTS
    i1 = i1
    Invitations = {i1}
    InitGallery <- MCGallery
    InitTemplates <- MCTemplates
    InitAvatar = 0
    InitFiles = 3
    LocalFiles = {2, 3}
    GuestLimit = 2
    MomentLimit = 3
    UploadLimit = 2
    Purchases = {q1}
    Texts = {x1, x2}
    Placeholder = Placeholder
    Workers = {w1, w2}
    MaxCalls = 3
    MaxTimeouts = 1
    MaxFailures = 1
    None = None
SYMMETRY Symmetry
INVARIANTS TypeOK FilesAgree GuestPhotosSafe GuestPhotosBounded UploadsInWindow CatalogFresh RemovedStaysRemoved
CHECK_DEADLOCK FALSE
