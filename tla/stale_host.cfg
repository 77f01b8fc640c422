SPECIFICATION FairSpec
CONSTANTS
  Pump = a
  Padded = a_blank
  Others = {b}
  Addrs = {ip1, ip2}
  Elsewhere = ip9
  QueueMax = 1
  SeenMax = 2
  MaxEvents = 1
  None = None
PROPERTIES HostUpdated
