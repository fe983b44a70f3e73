\* A raising mutation may have been applied by the server, its response lost.
CONSTANTS
  n1 = n1
  n2 = n2
  d1 = d1
  d2 = d2
  dataset = dataset
  model = model
  wandbHistory = wandbHistory
  tagA = tagA
  tagB = tagB
  Names <- MC_Names
  Descriptions <- MC_Descriptions
  Types <- MC_Types
  Reserved <- MC_Reserved
  Tags <- MC_Tags
  MaxFailures <- MC_MaxFailures
  LostResponses = TRUE
  LegacyAttrs = FALSE
  OtherWriter = FALSE
SYMMETRY MC_Symmetry
SPECIFICATION Spec
INVARIANT LoadFindsLiveCollection
