SPECIFICATION Spec
CONSTANTS
  Logins = {l1, l2}
  Providers = {"claude", "codex", "gemini", "antigravity", "iflow", "iflow-cookie",
               "qwen", "copilot", "kiro", "kiro-social", "kiro-import"}
  None = None
  MaxCallbacks = 2
  MaxPolls = 1
INVARIANTS ToldTruly OwnCode PortReleased ReadyWhenSaved
PROPERTY OutcomeTold
CHECK_DEADLOCK FALSE
