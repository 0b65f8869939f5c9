SPECIFICATION Spec
CONSTANTS
    ann = ann
    auditor = auditor
    Nodes = {owner, ann, bob}
    Owner = owner
    Docs = {root, d1, d2}
    Root = root
    CustomRoles = {auditor}
    Folders = {root, d1}
    InitialRoles <- AnnAdmin
    InitialDocs = {d1}
    Requests = {q1, q2, q3}
    MaxRequests = 3
    MaxKeyVersion = 3
    AclEdits <- Edits
    MemberRoleEdits <- RoleEdits
    Templates <- SeedOnly
    Invites = {i1}
SYMMETRY Symmetry
INVARIANTS AcceptedIsMember RowsNameRoles TokensToMembers CurrentKeyStored
PROPERTIES RotationByOne KeysAreKept
