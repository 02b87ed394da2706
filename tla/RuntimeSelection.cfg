SPECIFICATION Spec
CONSTANTS
  Requests = {h1, h2, h3}
  Profiles <- MCProfiles
  DefaultProfile = "chat"
  Lineage <- MCLineage
  Catalogues <- MCCatalogues
  Unencodable = {"NaN"}
SYMMETRY Symmetric
INVARIANTS TypeOK PlanInv EngineInv
CHECK_DEADLOCK FALSE
