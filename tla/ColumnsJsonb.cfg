\* A Jsonb column on PostgreSQL.
SPECIFICATION Spec
CONSTANTS
  Kinds = {"jsonb"}
  Versions = {"old", "new"}
  Max = 3
  Known <- MCKnown
PROPERTIES
  RefusedForReason
