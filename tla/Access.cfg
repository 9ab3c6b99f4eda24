SPECIFICATION MCSpec
CONSTANTS
    Absent = Absent
    Users = {1}
    Groups = {1, 2}
    Roles = {1, 2}
    Priorities = {1}
    AclTopics = {"a", "#"}
    Passwords = {0, 1}
    ClientIds = {0}
    Acls <- SmallAcls
    AclLists <- SmallAclLists
    RoleLists <- SmallRoleLists
    JoinLists <- SmallJoinLists
    Files <- SmallFiles
    MayFail = {2}
    MaxCommands = 3
INVARIANTS
    
    
    
    ReloadIsApplied
PROPERTIES
    ChangeIsEnforced
CHECK_DEADLOCK FALSE
