\* No retries: the delay alone, between two threads and two pages of one domain.
CONSTANTS
    a = a
    b = b
    c = c
    a1 = a1
    a1ad = a1ad
    aroot = aroot
    asignal = asignal
    b1 = b1
    c1 = c1
    p1 = p1
    p2 = p2
    Urls = {a1, a1ad, aroot, asignal, b1, c1}
    Domains = {a, b, c}
    Providers = {p1, p2}
    DomainOf <- MCDomainOf
    PageOf <- MCPageOf
    SignalPages <- MCSignalPages
    Age <- MCAge
    Answers <- MCAnswers
    Inside <- MCInside
    JsonOf <- MCJsonOf
    Document <- MCDocument
    Serves <- MCServes
    Request <- MCRequest
    Understandings <- MCUnderstandings
    Enrichments <- MCEnrichments
    Profiles <- MCProfiles
    Extractions <- MCExtractions
    DomainOfMail <- MCDomainOfMail
    ProfileLinks = {}
    ShortText = 3
    Skipped = {c1}
    Preferred = {}
    CachedBefore = {}
    MaxLinks = 2
    MinScore = 1500
    HotThreshold = 6500
    WarmThreshold = 3500
    MostPerSignal = 3
    Workers = 2
    SearchWorkers = 2
    Delay = 2
    Retries = 0
    Backoff = 2
    MaxUrls = 2
    PerDomain = {1}
    TopLeads = 1
    ScoreWorkers = 2
SPECIFICATION Spec
CHECK_DEADLOCK FALSE
PROPERTIES
    DelayKept
