SPECIFICATION Spec
CONSTANTS
  Versions <- Releases
  Generated <- GENERATED_PROFILE_VERSIONS
  Routable <- GENERATED_ROUTABLE_PROFILE_VERSIONS
  Operations <- GENERATED_OPERATIONS
  Contracts <- reviewed_operations
  Requests <- RoutedRequests
  Results <- ClientResults
  Plugins <- ClientPlugins
INVARIANTS
  ReachesItsOperation
  NarrowestOperation
  RemovedBuiltinsNeedContract
  FieldsNeedTheirProfile
