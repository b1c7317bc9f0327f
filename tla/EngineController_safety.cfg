\* Two reloads and a chat over a GGUF and a LiteRT model.
CONSTANTS
  Loaders = {l1, l2}
  Clients = {c1}
  Engines = {e1, e2, e3}
  Paths = {"hermes.gguf", "model.bin"}
  DefaultPath = "model.bin"
  Format <- FormatOf
  Size <- SizeOf
  Adapter = {}
  Ram = 600
  MaxTokens = 1
  Nobody = Nobody
  NoEngine = NoEngine
SPECIFICATION Spec
SYMMETRY Symmetry
INVARIANTS TypeOK NoLeakedModel HandleNeverDangles ReadyEngineUsable StatusHonest
PROPERTY SlotSpec
