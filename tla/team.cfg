SPECIFICATION Spec
CONSTANTS
    User = {o1, o2, a}
    Owner = {o1, o2}
    Subscribed = {"B2B"}
    Request = {r1, r2}
    Sent = sent
    Invited = {a}
    Candidate = {a}
    Granted = {"MEMBER"}
    Batches = {{a}}
    Seats = 1
    MaxInFlight = 2
    Operations = {"directCreateMember", "bulkDirectCreateMembers", "inviteMember", "approveTeamMember", "bulkApprove", "acceptInvitation", "rejectTeamMember", "removeTeamMember", "updateTeamMemberRole", "requestToJoinTeam", "register", "deleteUser", "hardDeleteUser"}
SYMMETRY Symmetry
CHECK_DEADLOCK FALSE
INVARIANT TypeOK
PROPERTIES
    OnlyStaleCountsOversell
    OnlyRacesUnpair
    MembersAreNotTaken
    InvitationsLeadToTheirTeam
