SPECIFICATION Spec
CONSTANTS
    Users = {u1, u2}
    Subjects = {s1, s2}
    Invitations = {i1}
    Invitee <- InviteSecond
    OfferedScope <- ToOrganization
    OfferedRole <- AsViewer
    Requirement <- DefaultActionPolicy
    GivenRoles = {"admin", "viewer"}
    InitialMembers <- FourStarts
    NamedOps = {"accept"}
    Claims = {"none", "admin"}
    Parallel = 2
    MaxCalls = 2
    MaxFaults = 1
    u1 = u1
    u2 = u2
    i1 = i1

PROPERTY IdentityKeepsUser
PROPERTY ChangedByEntitled
PROPERTY AdminRemains
CHECK_DEADLOCK FALSE
