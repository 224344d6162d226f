SPECIFICATION Spec
CONSTANTS
  Units = {"0", "a", "b"}
  Terminator = "0"
  Keys <- MCKeys
  Values <- MCValues
  None = None
  domain_error = domain_error
INVARIANTS ReadsWhatWasWritten PythonReadsItsTypes
