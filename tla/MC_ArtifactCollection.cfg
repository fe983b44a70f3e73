\* Mutations that raise never reached the server. The handle may be built
\* from legacy attrs, and another client edits the tags and description.
CONSTANTS
  n1 = n1
  n2 = n2
  d1 = d1
  d2 = d2
  dataset = dataset
  model = model
  wandbHistory = wandbHistory
  tagA = tagA
  tagB = tagB
  Names <- MC_Names
  Descriptions <- MC_Descriptions
  Types <- MC_Types
  Reserved <- MC_Reserved
  Tags <- MC_Tags
  MaxFailures <- MC_MaxFailures
  LostResponses = FALSE
  LegacyAttrs = TRUE
  OtherWriter = TRUE
SYMMETRY MC_Symmetry
SPECIFICATION Spec
INVARIANTS
  SavedMatchesServer
  SyncedFieldsMatch
  LoadFindsLiveCollection
  UnknownTagsKept
PROPERTIES
  TypeMoveGuarded
