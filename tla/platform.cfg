SPECIFICATION PlatformSpec
CONSTANTS
  w1 = w1 w2 = w2 a1 = a1 a2 = a2 i1 = i1 i2 = i2 p1 = p1 p2 = p2
  r1 = r1 r2 = r2 r3 = r3 x1 = x1 x2 = x2 l1 = l1 u1 = u1 u2 = u2
  h1 = h1 h2 = h2 k1 = k1 k2 = k2
  ReclaimWallets = {w1, w2} Broken = {w2} Administrators = {a1, a2} Reclaimers = {i1, i2}
  ReclaimTake = 2 RefillUnits = 1 FeeUnits = 1 MaxReclaimJobs = 2 MaxPaid = 1 MaxMishaps = 1
  Partners = {p1, p2} Operators = {a1, a2} Raws = {r1, r2, r3} PrefixOf <- TwoAlike
  Logs = {l1} Clerks = {a1, a2}
  ExternalIds = {u1, u2} Addresses = {w1, w2, x1} Requests = {r1, r2}
  MaxOverlap = 2
  Hashes = {h1, h2} MaxFetchFails = 2
  MaxPages = 3 MaxRetry = 5 MaxRefusals = 8
  Tokens = {k1, k2} Servers = {"TEST", "LIVE"} MaxLoads = 3
  MaxClicks = 2
  t1 = t1 t2 = t2 c1 = c1 c2 = c2 c3 = c3
  Tenants = {t1, t2} Records = {c1, c2, c3} OwnerOf <- TwoOfOne MaxTurns = 3 MaxChanges = 1 MaxFlights = 1
  PageSize = 2 ButtonCount = 3 Window = 16 MaxOffset = 12 Totals = {0, 1, 2, 3, 7, 12, 13, 15, 16, 17, 20}
INVARIANTS PlatformTypeOK OneRowPerAuthor NotGivenUp RotatedKeyWorks ReplacedKeyRefused
  DeletedIsDone SuspendedStaysSo BlockComesWhole RequestsAuthorized LinksLead
  RequestsAccepted BulkStaysWithPartner PagerReaches
PROPERTIES ReclaimEnds CyclesAlternate ResultShown ExpiredSignedOut ListFollowsPartner
CHECK_DEADLOCK FALSE
