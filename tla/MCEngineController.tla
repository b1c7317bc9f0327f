-------------------------- MODULE MCEngineController --------------------------
(* Small instances of EngineController for TLC. *)
EXTENDS EngineController, TLC

(* A quick and a large GGUF model, the LiteRT default, a file of another   *)
(* kind, and a draft adapter, on a phone of 6 GB.                          *)
MCFormat(p) == CASE p = "hermes.gguf" -> "gguf"
                 [] p = "qwen.gguf"   -> "gguf"
                 [] p = "moe.coli"    -> "colibri"
                 [] p = "model.bin"   -> "litert"
                 [] p = "notes.zip"   -> "other"
                 [] p = "draft-adapter.gguf" -> "gguf"
MCSize(p) == CASE p = "hermes.gguf" -> 180
               [] p = "qwen.gguf"   -> 450
               [] p = "moe.coli"    -> 300
               [] p = "model.bin"   -> 100
               [] p = "notes.zip"   -> 1
               [] p = "draft-adapter.gguf" -> 40
FormatOf == [p \in Paths |-> MCFormat(p)]
SizeOf   == [p \in Paths |-> MCSize(p)]

Symmetry == Permutations(Loaders) \cup Permutations(Clients) \cup Permutations(Engines)
=============================================================================
