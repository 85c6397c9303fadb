CONSTANTS
  c1 = c1  c2 = c2  s1 = s1  s2 = s2  d1 = d1  d2 = d2
  h1 = h1  h2 = h2  h3 = h3  h4 = h4  h5 = h5  h6 = h6
  Host = {h1, h2, h3, h4, h5, h6}
  NoHost = NoHost
  Null = Null
  Nobody = Nobody
  Client = {c1}
  Server = {s1}
  Destination = {d1}
  HostOf <- ApartHostOf
  ServerHost <- OneServer
  DestNames <- ProperNames
  Backlog = 2
  Reads = {4}
  Faults = FALSE
  Interruptible = {}
SPECIFICATION Spec
INVARIANT ReplyIsAPacket
