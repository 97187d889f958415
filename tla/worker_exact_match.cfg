SPECIFICATION Spec
CONSTANTS
  Threads = {t1, t2}
  r1 = r1
  r2 = r2
  r3 = r3
  r4 = r4
  wp = wp
  sitemap = sitemap
  other = other
  Requests = {r1, r2, r3, r4}
  UriOf <- Uris
  NoScript = NoScript
  None = None
  Handlers = {wp, sitemap, other}
  Mappings <- WithExact
  Backlog = 2
INVARIANTS ExactMatchFires
