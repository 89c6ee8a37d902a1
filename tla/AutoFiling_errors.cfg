\* What the architecture document says of a failed request.
SPECIFICATION Spec
CONSTANTS
  Sources = {s1, s2}
  MaxVersion = 2
  Private = {}
  MaxMatters = 0
  Instructions = {a}
  Limit = 2
PROPERTIES
  ErrorsWaitForResume
