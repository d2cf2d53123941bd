CONSTANTS
  p1 = p1
  NoProgram = NoProgram
  p2 = p2
  shell = shell
  venv = venv
  Programs = {p1, p2}
  Envs = {shell, venv}
  Setups <- Ways
  Elsewhere <- Before
  Bare <- OnPath
  Registers <- Named
  Repository <- Contents
  Catalogs <- Lists
  Toolings <- States
  Skips <- Skipping
  MaxUpsets = 2
SPECIFICATION Spec
INVARIANTS TypeOK CompleteMeansReady GreenAfterBootstrap KnownAfterBootstrap
