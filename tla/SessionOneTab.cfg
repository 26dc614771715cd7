\* One tab, two users, a session of each.
SPECIFICATION FairSpec
CONSTANTS
    Tabs = {t1}
    Users = {"alice", "bob"}
    Sessions = {"alice's", "bob's"}
    Owner <- MCOwner
    Queries = {"account", "market"}
    MaxChanges = 1
INVARIANT OwnSessionOnly
PROPERTIES CatchesUp
