SPECIFICATION Spec
CONSTANTS
  None = None
  Uses <- Safety
INVARIANTS TypeOK EntitiesConserved QueuedIsPolled PostedIsScheduled
PROPERTIES NoSwapDuringSwitch
