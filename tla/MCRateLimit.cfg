SPECIFICATION Spec
CONSTANTS
    client = client
    proxy = proxy
    other = other
    troll = troll
    Troll = Troll
    house = house
    flood = flood
    Hosts = {client, proxy, other}
    Clients = {client}
    Trusted = {proxy}
    Headers <- HeadersSent
    Relays <- RelaysPassed
    Blank = Blank
    Garbage = Garbage
    Deployments = {{"direct", "forwarded"}, {"pooled"}}
    Emails = {troll, Troll, house, flood}
    EmailKey <- BucketOf
    Burst <- Bursts
    Refill <- Refills
    MaxTracked = 2
    Threads = {t1, t2}
    MaxTime = 2
    NoBucket = NoBucket
    NoAttempt = NoAttempt
SYMMETRY Symmetry
INVARIANTS TypeOK WithinBudget TableBounded ChargedToItsClient
PROPERTIES BurstIsThere
