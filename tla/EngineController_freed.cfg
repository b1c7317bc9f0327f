\* A reload frees the model under a running chat.
CONSTANTS
  Loaders = {l1}
  Clients = {c1}
  Engines = {e1, e2, e3}
  Paths = {"hermes.gguf", "model.bin"}
  DefaultPath = "model.bin"
  Format <- FormatOf
  Size <- SizeOf
  Adapter = {}
  Ram = 600
  MaxTokens = 2
  Nobody = Nobody
  NoEngine = NoEngine
SPECIFICATION Spec
INVARIANT NoUseAfterFree
