\* Numbers of three bits; an old and a new version of the program.
SPECIFICATION Spec
CONSTANTS
  Kinds = {"int", "enum", "wrapper", "json"}
  Versions = {"old", "new"}
  Max = 3
  Known <- MCKnown
PROPERTIES
  ReadsWhatWasWritten RefusedForReason
