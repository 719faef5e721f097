\* Two keys, three releases, one config service, at most two failed
\* requests, no expiry: the cache does not converge to the latest release.
CONSTANTS
  k1 = k1  k2 = k2  v1 = v1  v2 = v2  s1 = s1
  Absent = Absent  Meta = Meta
  Keys = {k1, k2}
  Releases <- MCReleases
  Servers = {s1}
  MaxFaults = 2
  Expiry = FALSE
SPECIFICATION FairSpec
PROPERTY EventuallyCurrent
