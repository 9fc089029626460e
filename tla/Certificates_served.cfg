CONSTANTS
  Loop = loop
  Shot = {shot}
  Domains = 1
  Life = 3
  Ahead = 2
  MaxAge = 1
  MaxClock = 4
  MaxOrders = 2
  MaxStops = 1
  Tolerance = 1
SPECIFICATION Spec
INVARIANT ServedNotExpired
