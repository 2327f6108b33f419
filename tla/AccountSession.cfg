CONSTANTS
    l1 = l1
    l2 = l2
    ann = ann
    bob = bob
    Tabs = {t1}
    Logins = {l1, l2}
    Users = {ann, bob}
    Owner <- OwnerOf
    NoLogin = NoLogin
    NoUser = NoUser
    MaxFaults = 1
SPECIFICATION FairSpec
PROPERTIES LogoutRevokes OnlyTheSessionEnds CallsSettle
CHECK_DEADLOCK FALSE
