SPECIFICATION Spec
CONSTANTS
  Requests = {r1}
  Certs = {"c1", "c2"}
  Sources = {"s1", "s2"}
  RateKeys = {"k1"}
  Bodies = {"b1", "b3"}
  Envelopes = {"e1", "e2", "bad"}
  ValidEnvelopes = {"e1", "e2"}
  Adapters = {"a1", "a2"}
  None = None
  Generations = {0, 2}
  RequestLifetime = 2
  CacheLifetime = 1
  RateLimit = 2
  RateWindow = 3
  RateKeyOf <- MCRateKeyOf
  CertOf <- MCCertOf
INVARIANTS ServiceConsistent
PROPERTIES HistoryHolds
