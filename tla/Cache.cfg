CONSTANTS
  a = a
  b = b
  ka = ka
  kab = kab
  s1 = s1
  NoKey = NoKey
  NoKb = NoKb
  Api = Api
  Kbs = {a, b}
  Keys = {ka, kab}
  KbsOf <- TwoKbs
  Searches = {s1}
  Writers = {}
  MaxEntries = 1
  Semantic = TRUE
  RedisFails = TRUE
  KbFails = TRUE
  MaxChanges = 1
SPECIFICATION Spec
CONSTRAINT FewTainted
INVARIANTS
  CacheInv
  AnswersAreFresh
  EntriesBounded
