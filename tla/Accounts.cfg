\* Three requests: of any kind to sign in, from any of four accounts, or for
\* two solutions of one person.  Or a browser session with three answered
\* calls, or two analyses in the form of the intent page.
SPECIFICATION AccountsSpec
CONSTANTS
  q1 = q1
  q2 = q2
  q3 = q3
  alice = alice
  boss = boss
  apiKey = apiKey
  Earlier = Earlier
  Nobody = Nobody
  Requests <- ThreeRequests
  EmailVerification = TRUE
  Cooldown = 1
  CodeTtl = 1
  LockTime = 1
  MaxAttempts = 2
  MaxNow = 3
  Visits <- ThreeRequests
  Demands <- SomeDemands
  ApiKey = apiKey
  Promoted <- OneBoss
  Stored <- TwoSolutions
  Clients = {"Contoso", "Fabrikam"}
  Keys = {"executive_summary", "pricing_notes"}
  Outcomes <- AllOrOneFailed
  MaxAnswers = 3
  Overview = {"client_name"}
  Notes = "notes"
  Words = {"x"}
  Scores = {0}
  Domains <- TwoProfiles
  Default = "default"
  Lowest <- LowestStages
  Findings <- SomeFindings
  NoScore = NoScore
  MaxAnalyses = 2
INVARIANTS CodeStaysUsable SecondFactorSound SolutionsSound SessionSound FormSound
SYMMETRY EqualRequests
CHECK_DEADLOCK FALSE
