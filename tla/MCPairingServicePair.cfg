SPECIFICATION FairSpec
CONSTANTS
  Requests = {r1, r2}
  Certs = {"c1", "c2"}
  Sources = {"s1"}
  RateKeys = {"k1"}
  Bodies = {"b1", "b3"}
  Envelopes = {"e1"}
  ValidEnvelopes = {"e1"}
  Adapters = {"a1"}
  None = None
  Generations = {0, 2}
  RequestLifetime = 1
  CacheLifetime = 1
  RateLimit = 2
  RateWindow = 1
  RateKeyOf <- MCRateKeyOf
  CertOf <- MCCertOf
INVARIANTS OneLiveRequestPerCertificate
PROPERTIES ImplementsLedger RequestsRunOut
