SPECIFICATION SpecPairing
CONSTANTS
  Requests = {r1}
  Certs = {"c1"}
  Sources = {"s1"}
  RateKeys = {"k1"}
  Bodies = {"b1"}
  Envelopes = {"e1"}
  ValidEnvelopes = {"e1"}
  Adapters = {"a1", "a2"}
  Uids = {u1}
  None = None
  Generations = {0, 2}
  MaxConsents = 1
  RequestLifetime = 1
  CacheLifetime = 1
  RateLimit = 1
  RateWindow = 1
  RateKeyOf <- MCRateKeyOf
  CertOf <- MCCertOf
INVARIANTS PairingConsistent ConsentPerGrant
PROPERTIES AccessAsReviewed
