CONSTANTS
  N = 5
  Order <- Letters
  NoThread = NoThread
SPECIFICATION Spec
INVARIANTS TurnIsAwaited NoUseAfterDestroy
PROPERTIES PrintsInOrder AllPrint
