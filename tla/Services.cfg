SPECIFICATION Spec
CONSTANTS
  Requests = {1, 2}
  NoName = ""
  Users = {"u", "r", "g"}
  Referrer <- ReferrerOf
  Devices = {"edge", "cand"}
  NodeType <- TypeOfNode
  FirstOwner <- OwnerAtFirst
  Profits <- ProfitsByType
  Commission <- CommissionOfLevel
  ParentCommission <- CommissionOfLevel
  Threshold <- ThresholdOfLevel
  LastLevel = 1
  KolUsers = {"r"}
  Binders = {"r"}
  MaxRounds = 2
  MaxFaults = 1
  Edges = {"a", "b"}
  RowDays = 3
  Gains <- TwoGains
  MaxFetches = 2
  MaxErrors = 1
  Names = {"a", "b"}
  Wallets = {"w"}
  MaxCodes = 1
  MaxNonces = 1
  MaxLost = 1
  Owners = {"a", "b"}
  Nodes = {1}
  NoNode = 0
  MaxSignatures = 2
  MaxOwnerRounds = 1
  MaxFailures = 1
  NodeUsers = {"a", "b"}
  MaxBreaks = 1
  LinkOwners = {"o"}
  Targets = {"f"}
  Urls = {"l"}
  Passwords = {"p"}
  LinkTime = 2
  MaxLinks = 2
  Drains = {1, 2}
  EnableVIP = FALSE
  MaxVisits = 1
  MaxTotalFlow = 1
  NoFlow = 9
  MaxBegun = 3
  MaxIgnored = 1
  FileAreas = {"a", "b"}
  FirstArea = "a"
  Syncs = {1, 2}
  MaxShares = 1
  MaxDownloads = 1
  MaxFileSteps = 5
  StorageUsers = {"u", "v"}
  KeplrAddresses = {"k"}
  MaxPasswords = 4
  MaxOutages = 1
  KeyNames = {"m", "n", "o"}
  MaxKeys = 2
  MaxKeysMade = 3
  Miners = {"m"}
  Addresses = {"owner", "worker"}
  SignerOf <- OneMiner
  LastDate = 2
  Macs = {"e"}
  MaxAddresses = 4
  MaxBatchFailures = 1
  Areas = {"a", "b", "c"}
  DefaultAreaId = "a"
  CountryOf <- TwoCountries
  Hosts = {1, 2, 3}
  NoHost = 0
  FirstEtcd <- EtcdAtFirst
  Request = 1
  MaxAreaChanges = 1
  MaxLoads = 3
  Params <- Orders
  Ages = {1, 2, 25, 48, 49, 145, 337, 1439, 1440, 1441}
  Buyers = {"a"}
  Hashes = {"h"}
  HourParts = 2
  Window = 2
  Retention = 4
  LastHour = 5
  MaxReports = 4
  MaxDelay = 3
  Clients = {1}
  MaxUnsync = 0
  MaxAppIncome = 2
  LastTime = 3
  Traces = {1, 2}
  Uploaders = {"u"}
  Claims <- TwoClaims
  Bodies <- SixBodies
  TraceNodes = {"m", "n"}
  LastDay = 1
  MaxTransfers = 2
INVARIANTS TypeOK RewardsCorrect DailyRowsAgree ReferrersAreOlder OwnersBound OperationsAgree
  ExpireDaysNotNegative LimitsHold PasswordsAgree KeysAsAnswered
CHECK_DEADLOCK FALSE
