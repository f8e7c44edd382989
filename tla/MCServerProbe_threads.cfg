SPECIFICATION Spec
CONSTANTS
    None = None
    w1 = w1
    t1 = t1
    t2 = t2
    url1 = url1
    url2 = url2
    good = good
    bad = bad
    Workers = {w1}
    Threads = {t1, t2}
    WorkerOf <- OneWorker
    Urls = {url1, url2}
    Tokens = {good, bad}
    Accepted = good
    FirstSettings <- Works
    Ttl = 2
    MaxClock = 3
    MaxPages = 4
SYMMETRY Alike
INVARIANTS
    TypeOK OwnBackendAndFresh NotFromBeforeForget NoGoingBack
