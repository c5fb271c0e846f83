\* One request at every executor and in every mode, with shutdown and a reload.
SPECIFICATION ProviderFairSpec
CONSTANTS
  Requests = {r1}
  Contexts = {x1}
  NoRequest = NoRequest
  NoContext = NoContext
  Executors = {"claude", "codex", "gemini", "vertex", "vertex-key", "qwen", "openai-compat",
               "iflow", "github-copilot", "gemini-cli", "antigravity", "kiro", "aistudio"}
  Fallbacks = 2
  MaxLines = 2
INVARIANTS BodiesClosed RefusalTold
PROPERTIES CallsFinish RecordsHandled
CHECK_DEADLOCK FALSE
