SPECIFICATION FairSpec
CONSTANTS
  w1 = w1
  Workspace = {w1}
  Canaries = {w1}
  Strict = Strict
  Name = {"core"}
  Nothing = Nothing
  Old = "old"
  New = "new"
  Release = {"old", "new"}
  Trouble = {"release","reboot","registry","credential","audit","root","clock","client"}
  MaxTrouble = 1
  MaxStarts = 2
  Doubt = {"probe"}
  MaxAttempts = 1
  Window = 2
  MaxTime = 2
  Kind = {"PLAIN", "SEALED"}
  Declarations <- StrictOrDeclared
  Signal = {"SIGKILL", "INTERRUPT"}
  Flaw = {"start", "switch", "stage", "stop", "latch"}
  MaxRuns = 1
INVARIANTS ReplacedStaysOut RestartsWithinBudget AcceptedIsJustified
PROPERTIES SwitchIsQuiet SwitchedIsWhole FrozenStopsService
CHECK_DEADLOCK FALSE
