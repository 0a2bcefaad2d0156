SPECIFICATION Spec
CONSTANTS
    i1 = i1
    Invitations = {i1}
    InitGallery <- MCGallery
    InitTemplates <- MCTemplates
    InitAvatar = 0
    InitFiles = 3
    LocalFiles = {2, 3}
    GuestLimit = 2
    MomentLimit = 3
    UploadLimit = 2
    Purchases = {q1}
    Texts = {x1}
    Placeholder = Placeholder
    Workers = {w1}
    MaxCalls = 2
    MaxTimeouts = 1
    MaxFailures = 0
    None = None
INVARIANT AvatarStored
CHECK_DEADLOCK FALSE
