SPECIFICATION Spec
CONSTANTS
  r1 = r1
  r2 = r2
  Requests = {r1, r2}
  Vendors <- MCVendors
  ChatVendors = {"anthropic", "openai"}
  Keys = {"ant", "oai"}
  Accepted <- MCAccepted
  Catalogue <- MCCatalogue
  VendorDefault <- MCDefault
  ClassifierModel = "mini"
  Registry <- MCRegistry
  Intake = "intake"
  Refs = {"vendor", "key"}
  Unset = Unset
  None = None
  Nothing = Nothing
  Torn = Torn
SYMMETRY Symmetry
INVARIANTS CallsMatchVendor SavedIsLive CacheAgrees
