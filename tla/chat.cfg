SPECIFICATION Spec
CONSTANTS
    User = {a, b}
    Owner = a
    Request = {r1, r2}
    Earlier = earlier
    Granted = {"MEMBER"}
    MaxInFlight = 2
    Operations = {"createConversation", "createTeamConversation", "addConversationMember", "addTeamConversationMember", "blockConversationMember", "blockTeamConversationMember", "ensureTeamConversation", "joinRoom", "sendMessage", "getMessages", "deleteUser", "changeTeam"}
SYMMETRY Symmetry
CHECK_DEADLOCK FALSE
INVARIANTS
    TypeOK
    NothingMissed
PROPERTIES
    OnlyDuplicatesEvadeBlocks
    OnlyOverlapDuplicatesMembers
