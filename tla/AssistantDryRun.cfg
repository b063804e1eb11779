SPECIFICATION Spec
CONSTANTS
  dry = dry
  review = review
  note = note
  draft = draft
  sign = sign
  odd = odd
  SafeTools = {dry, review, note, draft}
  RequiredTools = {dry, review}
  LocalTools = {note, draft}
  ForbiddenTools = {sign}
  OtherNames = {odd}
  Modelled = {dry, review, note}
  Supplied = {review, note, sign, odd}
  DryRun = dry
  MaxEntries = 3
  ManifestFiles <- MCManifestFiles
  ConformanceFiles <- MCConformanceFiles
  None = None
INVARIANTS
  AcceptedDryRunsAreFixed
