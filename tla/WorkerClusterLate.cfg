SPECIFICATION Spec
CONSTANTS
  Traces = {"t1"}
  RunAttr <- MCRunAttr
  Services = {"triage"}
  ServicesOf <- MCServicesOf
  Configured = {"triage"}
  Wildcard = FALSE
  FetchLimit = 2
  Types = {"loop", "retry_storm", "cost_spike", "anomaly_cluster"}
  Hits <- MCHits
  Flaky = {}
  Cluster = "anomaly_cluster"
  ClusterMin = 2
  Poller = "worker"
  CliProcs = {}
  None = None
  MaxFaults = 0
  MaxCliRuns = 0
INVARIANT ClustersAreReported
