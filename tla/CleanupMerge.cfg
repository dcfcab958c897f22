SPECIFICATION Spec
CONSTANTS
  home = home
  Researchers = {1, 2, 3}
  Papers = {1, 2, 3}
  Garbage = {}
  SameName = {}
  Compatible <- InitialNames
  Abbreviates = {}
  ProfileOf <- NoProfiles
  Pages = {home}
  PageOf <- ListedOn
  Unfixable = {}
  Identified = {}
  CleanTitle <- SameTitles
  NearTitles = {}
  Seeds = {}
  Crowd = 100
  Threshold = 2
  WeakThreshold = 5
PROPERTIES
  MergedCreditKept

CHECK_DEADLOCK FALSE
