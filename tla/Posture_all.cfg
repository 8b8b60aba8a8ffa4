SPECIFICATION Spec
CONSTANTS
  bucket = bucket  instance = instance  summary = summary
  east = east
  d1 = d1  d2 = d2
  Resources = {bucket, instance, summary}
  ServiceOf <- Services
  RegionOf <- Places
  PosturesOf <- Reports
  Regions = {east}
  Discoveries = {d1, d2}
  Environment = {"failure", "crash", "cancel", "triage"}
SYMMETRY Interchangeable
VIEW ExceptForgotten
INVARIANT TypeOK
INVARIANT CompletedDiscoveryIsExact
PROPERTY OnlyBucketsGoStaleUnseen
PROPERTY DiscoveryOutcomeStands
PROPERTY OnlyRacingTriageIsLost
PROPERTY ResolvedWasFixed
