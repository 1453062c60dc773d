SPECIFICATION Spec
CONSTANTS
  Traces = {"t1", "t2"}
  RunAttr <- MCSharedRun
  Services = {"triage", "billing"}
  ServicesOf <- MCServicesOf
  Configured = {"triage", "billing"}
  Wildcard = TRUE
  FetchLimit = 2
  Types = {"loop", "retry_storm", "cost_spike", "anomaly_cluster"}
  Hits <- MCHits
  Flaky = {"cost_spike"}
  Cluster = "anomaly_cluster"
  ClusterMin = 2
  Poller = "worker"
  CliProcs = {}
  None = None
  MaxFaults = 1
  MaxCliRuns = 0
INVARIANT OneAnomalyPerType
PROPERTY EventuallySummarised
PROPERTY ProcessesEachRunOnce
PROPERTY PassesEnd
