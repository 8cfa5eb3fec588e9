\* Two articles with one URL and a newer third, all with one page title; lists of one row; a database failure.
SPECIFICATION FairSpec
CONSTANTS
    Jobs = {j1, j2, j3}
    Articles = {a1, a2, a3}
    Workers = {w1, w2}
    NoWorker = NoWorker
    NoJob = NoJob
    NoArticle = NoArticle
    NoUrl = NoUrl
    a1 = a1
    a2 = a2
    a3 = a3
    j1 = j1
    j2 = j2
    j3 = j3
    ArticleOf <- OwnJobs3
    Url <- SharedUrl
    Title <- FeedTitles
    CanonicalOf <- Canonicals
    CleanTitle <- OnePageTitle
    CreatedAt <- Batches
    ComparableLimit = 1
    SimilarLimit = 1
    Sources = 1
    MaxAttempts = 2
    MaxFaults = 1
INVARIANTS
    TypeOK
    AnnouncedIsComplete
    OneAnnouncedPerUrl
    LaterDuplicateIsCaught
    StatusesAgree
    IInv
PROPERTIES
    DecisionIsFinal
    EveryArticleDecided
CHECK_DEADLOCK FALSE
