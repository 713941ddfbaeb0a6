SPECIFICATION Spec
INVARIANTS
    
    
    KeysInStep
    StateFollowsReadiness
    NoticeFollowsState
    
    MembersAgree
    
    
    

    
CHECK_DEADLOCK FALSE
