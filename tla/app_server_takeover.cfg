SPECIFICATION Spec
CONSTANTS
    a = a
    b = b
    c = c
    x = x
    y = y
    z = z
    k = k
    l = l
    m = m
    None = None
    Boot = Boot
    Entries <- MCEntries
    KeyOf <- MCKeyOf
    UriOf <- MCUriOf
    Verified <- MCVerified
    Directories <- MCDirectories
    Listing <- MCListing
    Models = {m}
    Calls <- TakeoverCalls
    Files <- NewInstallation
    Requests = {1, 2}
    MaxThreads = 1
    Faulty = {}
    MaxCrashes = 0
INVARIANTS NoTakeover
CHECK_DEADLOCK FALSE
