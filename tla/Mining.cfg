SPECIFICATION Spec
CONSTANTS
  m1 = m1
  m2 = m2
  r1 = r1
  s1 = s1
  home = home
  sub = sub
  page = page
  link = link
  profile = profile
  Nobody = Nobody
  NoSource = NoSource
  Miners = {m1, m2}
  Researchers = {r1}
  Sites = {s1}
  Urls = {home, sub}
  Candidates = {link, profile}
  OwnerOf <- Owners
  SiteOf <- SitesOf
  UrlOf <- UrlsOf
  Profiles = {profile}
  ChildrenOf <- Children
  Sources = {page}
  LinksOn <- Links
  Directory = {profile}
  Eligible = {r1}
  Finds <- Found
  MaxChanges = 1
  MaxAudits = 1
  MaxFaults = 1
SYMMETRY MiningSymmetry
INVARIANTS
  TypeOK
  LinksNeverLost
  ApprovedIsListed
PROPERTIES
  HoldsHold
  ImplementsWorkList
