SPECIFICATION FairSpec
CONSTANTS
  Pump = a
  Padded = a_blank
  Others = {b, c}
  Addrs = {ip1, ip2}
  Elsewhere = ip9
  QueueMax = 2
  SeenMax = 2
  MaxEvents = 2
  None = None
INVARIANTS TypeOK HostWasMet
PROPERTIES EntriesAskedFor Offered HostFollows
