SPECIFICATION ControllerSpec
CONSTANTS
  Node = {n1, n2}
  Off = off
  User = user
  Watchdog = watchdog
  Answers = {"ok", "refused", "lost"}
INVARIANTS SwitchOwnsCore ActiveIsServed
