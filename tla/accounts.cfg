CONSTANTS
    ann = ann
    ben = ben
    i1 = i1
    i2 = i2
    s1 = s1
    s2 = s2
    r1 = r1
    r2 = r2
    None = None
    People = {ann, ben}
    FirstAdmins = {ann}
    Invitations = {i1, i2}
    Roles = {"ADMIN"}
    Secrets = {s1, s2}
    Requests = {r1, r2}
    DemoMode = FALSE
    MaxRaces = 1
SPECIFICATION Spec
SYMMETRY AccountSymmetry
INVARIANTS
    TypeOK
    OneInvitationAccepted
    OneOpenInvitation
    EnrolledCanSignIn
    SomeAdminIsActive
CHECK_DEADLOCK FALSE
