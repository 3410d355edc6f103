\* The gate run again and again on one report directory while layouts change.
SPECIFICATION Spec
CONSTANTS
  MaxRev = 3
  Defects <- MCDefects
  Hollow = {"extracted"}
  Options <- MCOptions
  Manifests <- MCManifests
  Files <- MCFiles
  erc_electrical = erc_electrical
  sta_pvt = sta_pvt
  RequiredStages = {erc_electrical, sta_pvt}
INVARIANTS
  VerdictIsDeserved
  ReleaseIsClosed
