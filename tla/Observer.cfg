SPECIFICATION Spec
CONSTANTS
  Mac = {d, e, h}
  HostMacs = {h}
  Ip <- Addresses
  Unroutable <- NotRoutable
  Zero = 0
  Hostname = {n1, n2}
  ArpKinds = {"gratuitous-arp"}
  Adapter = {"selected", "other"}
  Selected = "selected"
  Hosts <- HostAddresses
  MaxObservations = 3
  None = None
  NoAddress = NoAddress
SYMMETRY Symmetry
CHECK_DEADLOCK FALSE
INVARIANTS CandidateIsCurrent HostnameKept SuggestionUsable PingReaches
PROPERTY NeverDemoted
