\* A server that accepts the request and never answers.
SPECIFICATION CodeSpec
CONSTANTS
    Jobs = {j1, j2}
    Articles = {a1, a2}
    Workers = {w1, w2}
    NoWorker = NoWorker
    NoJob = NoJob
    NoArticle = NoArticle
    NoUrl = NoUrl
    a1 = a1
    a2 = a2
    a3 = a3
    j1 = j1
    j2 = j2
    j3 = j3
    ArticleOf <- OwnJobs2
    Url <- SharedUrl
    Title <- FeedTitles
    CanonicalOf <- Canonicals
    CleanTitle <- PageTitles
    CreatedAt <- Batches
    ComparableLimit = 3
    SimilarLimit = 3
    Sources = 1
    MaxAttempts = 2
    MaxFaults = 0
PROPERTIES
    FetchEnds
CHECK_DEADLOCK FALSE
