SPECIFICATION ClientSpec
CONSTANTS
  Routes = {"redeem", "login"}
  CdkCodes = {"a", "b"}
  BlankCode = "?"
  CdkForm <- MCForm
  CdkTexts <- MCTexts
  CdkUses <- MCUses
  HistoryLimit = 2
  MaxRedeemCalls = 1
  ConvTexts <- MCConvTexts
  JwtClaims <- MCClaims
  ValidDates = {"d1"}
  CredIds = {1, 2}
  FirstCreds = {1, 2}
  CredStates = {"all", "unused"}
  CredSizes = {1}
  MaxCredCalls = 2
  MaxCredChanges = 2
  LogoFiles = {"f1", "f2"}
  BadFiles = {"f2"}
  NoLogo = "none"
  MaxVersion = 3
  MaxChecks = 2
  FaqTexts = {"p"}
  BlankFaq = ""
  FirstFaq = {2}
  MaxFaqId = 3
  MaxFaqCalls = 2
  CodeIds = {1, 2}
  UsedUp = {2}
  CodesPerPage = 1
  CodeTabs = {"all", "active", "used", "disabled"}
  MaxBatchCalls = 2
  MaxHaste = 1
  MaxStock = 1
  MaxCreates = 2
  MaxStockMoves = 1
  LogIds = {1, 2}
  LogFilters = {"", "failed"}
  LogsPerPage = 1
  MaxLogCalls = 2
  Tabs = {"t1", "t2"}
  MaxSessions = 1
PROPERTIES
  SubmissionEnds
  GateOpens
