SPECIFICATION Spec
CONSTANTS
  MaxProvider = 2
  MaxProfile = 1
  Role = {"document_conversion", "query_router"}
  Request = {t1, t2}
  Setting = {s1, s2}
  None = None
  Ops = {"create_provider", "provider_settings", "provider_on", "provider_off",
         "delete_provider", "create_profile", "profile_settings", "profile_provider",
         "profile_on", "profile_off", "delete_profile", "test", "bind", "unbind"}
  Exclusive = {"test"}
INVARIANTS
  RolesReachTheirProvider
  ResolvedRolesAreTested
SYMMETRY AdminSymmetry
CHECK_DEADLOCK FALSE
