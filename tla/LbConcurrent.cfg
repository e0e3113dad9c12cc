CONSTANTS
    None = None
    Absent = Absent
    Gone = Gone
    GroupName = {"web", "api"}
    Server <- MCServer
    Acl = {"rule"}
    Certificate = {"cert"}
    Vpc = {"v1", "v2"}
    Client = {c1, c2}
    Menus <- MCTwoMenus
    InitialBalancers <- MCInitialBalancers

SPECIFICATION Spec
SYMMETRY Symmetry

INVARIANT TypeOK
INVARIANT KeepsServing
INVARIANT SecureModesHaveCertificate
PROPERTY InternalIsPrivate
PROPERTY FamilyNeverChanges
