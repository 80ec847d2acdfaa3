\* The scan of the worker, the network scanner, probes, parsers and the host scan in turn.
CONSTANTS
  None = None
  NoTarget = NoTarget
  NoPrint = NoPrint
  \* two targets on one host, two changes
  Targets = {"web", "mail"}
  Hosts = {"host"}
  HostOf <- BothOnHost
  AgentEnabled = {"web"}
  TargetIds <- BothTargets
  Scanners <- AllScanners
  NetworkFinds <- CertificateAndPolicy
  AgentFinds <- CertificateAndStore
  ScanChanges = 2
  \* every kind of target, two certificates, two suites asked for
  Peers <- EachKind
  Names = {"a", "b"}
  Certificates <- TwoCertificates
  Suites = {"s1"}
  SuiteList <- TwoSuites
  Limit = 2
  \* two hosts, of which the agent reaches one, two samples, three losses
  ProbeHosts <- TwoHosts
  ProbePorts = {443, 465}
  ProbeServices = {"closed", "mute", "tls"}
  HostLimit = 1
  Samples = 2
  ProbeTroubles = 3
  \* one host, the probes of three ports against services of theirs and of others
  SweepHosts <- OneHost
  SweepPorts = {143, 500, 5432}
  SweepServices = {"closed", "mute", "imap", "ike", "postgres-tls"}
  SweepTroubles = 1
  \* four files, three capabilities, one change
  Files <- FourFiles
  Base <- WithoutDirectory
  KeyFiles = {}
  Roots <- RootsOverlap
  Requests <- Asked
  Supported = {"certs", "keys", "keystore"}
  MaxFiles = 2
  Forms = {"absolute", "relative"}
  HostChanges = 1
  \* files of up to three lines, a server with and without a certificate
  ConfigKinds = {"nginx", "postgresql", "sshd"}
  Versions <- ThreeVersions
  Lines <- EachLine
  ServerCerts = {"none", "RSA-2048"}
  MaxLines = 3
  \* short and longer answers, lengths around those of the headers
  Sizes = {20, 48, 72}
  Lengths = {0, 3, 4, 8, 12, 16, 20, 40, 200}
  Ids = {12, 19, 99}
  \* pages with no, one and five keywords of each rule
  Homepages <- ThreePages
  HttpCodes = {0, 200, 404}
  HitCounts = {0, 1, 5}
  \* two performance runs left to the worker
  RunIds = {"r1", "r2"}
  Measurable <- ThreeMeasurable
  Snapshot = 2
SPECIFICATION Spec
CHECK_DEADLOCK FALSE
INVARIANTS
  TypeOK
  EveryScannerAccounted
  CompletedIsWhole
  NetworkScanIsWhole
  ServiceRecognised
  QuietScanIsWhole
  PolicyAsWritten
  LengthsNest
  RulesAgree
PROPERTIES
  FailureHasReason
