CONSTANTS
  Entity = {task, rule}
  MaxRevision = 3
SPECIFICATION Spec
INVARIANT AcceptedEditsSawTheLatest
