SPECIFICATION Spec
CONSTANTS
    a = a
    b = b
    c = c
    x = x
    y = y
    z = z
    k = k
    l = l
    m = m
    None = None
    Boot = Boot
    Entries <- MCEntries
    KeyOf <- MCKeyOf
    UriOf <- MCUriOf
    Verified <- MCVerified
    Directories <- MCDirectories
    Listing <- MCListing
    Models = {m}
    Calls <- MCCalls
    Files <- MCFiles
    Requests = {1, 2}
    MaxThreads = 2
    Faulty = {1}
    MaxCrashes = 1
INVARIANTS WarningIsCurrent
CHECK_DEADLOCK FALSE
