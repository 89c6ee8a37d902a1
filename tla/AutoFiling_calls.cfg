\* Two documents whose second version cannot be read, one request at a time for
\* one document, under the fairness of the worker.
SPECIFICATION FairSpec
CONSTANTS
  Sources = {s1, s2}
  MaxVersion = 2
  Private = {2}
  MaxMatters = 1
  Instructions = {a}
  Limit = 1
INVARIANTS
  ExplicitChoicesWin
  RunningTasksAreHeld
PROPERTIES
  OpenedSuggestionsAreCurrent
  QueuedDocumentsAreSettled
  ImplementsPaidCalls
