SPECIFICATION FairSpec
CONSTANTS
  Parts = {"routers", "agent", "power", "battery", "net", "watch", "page", "admin"}
  None = None
  f1 = f1  f2 = f2  s1 = s1  s2 = s2
  o1 = o1  o2 = o2  v1 = v1  v2 = v2
  r1 = r1  r2 = r2  g1 = g1
  Session = {o1, o2}
  Code = {v1}
  CodeOf <- CodeOfC
  Report = {q1, q2}
  Bytes = {0, 2}
  Sightings = {{}, {64}, {63, 127, 254}}
  MaxPosts = 2
  MaxApiDeaths = 1
  Watched = {r1, r2}
  Login = {l1}
  AgentFailures = 2
  FailedLogins = 2
  DbFaults = TRUE
  MaxApiRestarts = 1
  Bought = {p1}
  Printed = {c1}
  Payout = {w1}
  Entry = {e1}
  DayLen = 3
  Offset = 1
  FewestDays = 2
  FirstNow = 5
  MaxNow = 8
  Conv = {a1, a2}
  Turn = {t1, t2}
  Inputs <- InputsC
  Engine = {"claude", "codex"}
  Folder = {f1, f2}
  Home = f1
  Sid = {s1, s2}
  Gone = Gone
  MaxCrashes = 1
  Editor = {x1, x2}
  Channel = {c1, c2, c3}
  Admin = {b1, b2}
  MaxChanges = 2
  FloorUgx = 1
  CeilingUgx = 15
  MinBand = 1
  Schedules <- SchedulesC
  Balances = {0, 5, 8, 11}
  MaxSaves = 1
  NetFailures = 2
  ApiFailures = 2
  Charge = {7, 100}
  MaxAgentRestarts = 1
  Device = {d1, d2}
  Address = {i1, i2}
  MaxLeases = 2
  MaxMisses = 1
  Sampler = {g1, g2}
  MaxBytes = 2
  MaxEntries = 2
  ReadFaults = 1
  Router = {r1, r2}
  Client = {m1}
  Uplink <- UplinkC
  Addressed = {r2}
  MaxEdits = 1
  Purchase = {p1, p2}
  Tick = {k1, k2}
  Asking = {n1, n2}
  Proving = {j1, j2}
  MaxCodes = 2
  MaxHiccups = 1
  MaxForms = 1
  MaxLoads = 1
  MaxForgets = 1
  Site = {z1, z2}
  MaxLookups = 4
  LogLimit = 4
  TruncateFaults = 1
  AgentStarts = 1
  Flow = {u1, u2}
  MaxMoved = 2
  Call = {y1, y2}
  Period = {h1, h2}
  FirstPeriod = h1
  MaxData = 1
  MaxLost = 1
PROPERTIES OutagesTold EntitledGetsIn PaidIsShown PageIsCurrent
CHECK_DEADLOCK FALSE
