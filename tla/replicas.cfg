\* A rolling upgrade or rollback from `old` to `new`, with crashes.
SPECIFICATION FairSpec
CONSTANTS
    old = old  new = new
    read = read  write = write  gone = gone
    Replicas = {r1, r2}
    Builds = {old, new}
    Permissions = {read, write, gone}
    Catalog <- MCCatalog
    Seeded = {read}
    Edits <- MCEdits
INVARIANTS TypeOK ServedPermissionsExist DeadlockTakesTwoOrders
PROPERTIES StartsOrEnds SignalStops AcceptedIsAnswered
