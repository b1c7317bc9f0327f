\* Termination of reloads and chats under the fairness of the code.
CONSTANTS
  Loaders = {l1, l2}
  Clients = {c1}
  Engines = {e1, e2, e3}
  Paths = {"hermes.gguf"}
  DefaultPath = "hermes.gguf"
  Format <- FormatOf
  Size <- SizeOf
  Adapter = {}
  Ram = 600
  MaxTokens = 1
  Nobody = Nobody
  NoEngine = NoEngine
SPECIFICATION FairSpec
PROPERTIES ReloadEnds ChatEnds
