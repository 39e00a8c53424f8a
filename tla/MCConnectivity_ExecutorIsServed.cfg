CONSTANTS
    e1 = e1
    e2 = e2
    Endpoints = {e1, e2}
    Preferred = e1
    Clients = {1, 2, 3}
    ExecutorClient = 1
    Dials = {1, 2}
    MaxFailures = 1
    MaxReconnects = 1
    ZombieThreshold = 2
    MaxChanges = 1
    Weathers = {"up", "mute", "limited", "down"}
    None = None
SPECIFICATION FairSpec
PROPERTY ExecutorIsServed
