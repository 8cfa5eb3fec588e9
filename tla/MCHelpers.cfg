\* Every instant of a day, spellings of URLs, pairs of articles, pages, texts, links, entries and webs.
SPECIFICATION Spec
CONSTANTS
    Steps = {0, 1, 7, 15, 20, 45, 59, 60, 90, 120}
    HourLists <- Lists
    Hosts = {"host", "HOST"}
    Paths <- SomePaths
    Tails <- SomeTails
    Articles <- SomeArticles
    Headlines <- SomeHeadlines
    Site <- SiteName
    Documents <- SomeDocuments
    Directories <- SomeDirectories
    Files <- SomeFiles
    Queries <- SomeQueries
    Hrefs <- SomeHrefs
    Contents <- SomeContents
    Entries <- SomeEntries
    Webs <- SomeWebs
    Links <- SomeLinks
INVARIANTS
    SoundIsCron
    NextIsAhead
    NormalizedUrlIsKey
    OrderDoesNotMatter
    HeadlineDecides
    NothingVisibleIsLost
    NoiseIsStripped
    FieldIsText
    LinkResolves
    EntryIsRead
    ResolvedIsFinal
    ResolvedIsOnPath
CHECK_DEADLOCK FALSE
