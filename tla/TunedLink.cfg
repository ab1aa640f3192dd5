SPECIFICATION TunedSpec
CONSTANTS
  ffffffff = ffffffff
  home = home
  annex = annex
  connect = connect
  satellite = satellite
  Nobody = Nobody
  Client = {connect, satellite}
  NetworkOf <- MCNetworkOf
  Network = {ffffffff, home, annex}
  BootSync = ffffffff
  IdCount = 3
  MaxIssued = 5
  MaxResets = 1
INVARIANTS ExchangeOnItsNetwork NobodyElseTransmits
\* The bound on commands, and a start that fails, stop the service.
CHECK_DEADLOCK FALSE
