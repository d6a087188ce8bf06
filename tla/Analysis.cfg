SPECIFICATION AnalysisSpec
CONSTANTS
  r1 = r1
  r2 = r2
  r3 = r3
  blank = blank
  noParent = noParent
  notStated = notStated
  today = today
  nothing = nothing
  v1 = v1
  v2 = v2
  url1 = url1
  url2 = url2
  noFile = noFile
  NoParent = noParent
  Blank = blank
  MaxRequirements = 3
  MaxFound = 2
  TemplateWords = 120
  ProfileName = "tenant"
  SlugOf <- Slugs
  Overlap <- SharedWords
  FirstFiles <- SomeFiles
  FileSets <- SomeEdits
  MaxMishaps = 2
  BidRequests <- SomeBids
  Briefs <- SomeBriefs
  Comparisons <- SomeComparisons
  Texts <- SomeTexts
  Rubrics <- SomeRubrics
  Evidence <- SomeEvidence
  Talks <- SomeTalks
  DealProfiles <- SomeProfiles
  Relationships <- SomeRelationships
  NotStated = notStated
  Today = today
  Overviews <- SomeOverviews
  Framings <- SomeFramings
  Buyers <- SomeBuyers
  Fits <- SomeFits
  MaxFailures = 2
  Searches <- SomeSearches
  Pages <- SomePages
  Readings <- SomeReadings
  Facts <- TwoFacts
  Nothing = nothing
  MaxCompanies = 2
  Uploads <- SomeUploads
  Unreadable = noFile
  NoTitle = notStated
  UploadProfiles <- SomeUploadProfiles
  ChunkSize = 500
  ChunkOverlap = 75
  ShortSection = 40
  ShortFront = 400
  Exports <- SomeExports
  Anonymous = notStated
  FieldMap <- NotesToPricing
  MetadataKeys = {"title"}
  LongEnough = 80
  LoadProfiles <- SomeUploadProfiles
  BatchSize = 2
  MaxStarts = 5
  MaxEdits = 3
  w1 = w1
  w2 = w2
  ann = ann
  ben = ben
  noJob = noJob
  noTag = noTag
  Workflows <- TwoWorkflows
  Jobs <- SomeJobs
  NoJob = noJob
  Drafting <- SomeDrafting
  Spenders <- ResearchTools
  Viewers <- SomeViewers
  NoTag = noTag
  MaxCalls = 2
  MaxTools = 2
INVARIANTS ScoresExplained NoDraftLost DealSound UploadKept SafeToRerun LedgerTrue
PROPERTY ResearchSound
SYMMETRY EqualWorkflows
CHECK_DEADLOCK FALSE
