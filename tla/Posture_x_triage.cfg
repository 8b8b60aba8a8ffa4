SPECIFICATION Spec
CONSTANTS
  bucket = bucket  instance = instance  summary = summary
  east = east
  d1 = d1  d2 = d2
  Resources = {bucket, instance, summary}
  ServiceOf <- Services
  RegionOf <- Places
  PosturesOf <- Reports
  Regions = {east}
  Discoveries = {d1, d2}
  Environment = {"triage"}
SYMMETRY Interchangeable
PROPERTY AcknowledgementStands
