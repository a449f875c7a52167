SPECIFICATION Spec
CONSTANTS
  claude = claude
  cursor = cursor
  instruction = instruction
  settings = settings
  skill = skill
  internal = internal
  command = command
  fallback = fallback
  Platforms = {claude, cursor}
  NoPlatform = NoPlatform
  Paths = {instruction, settings, skill, internal, command, fallback}
  NoPath = NoPath
  Kind <- MCKind
  Writes <- MCWrites
  Bundled = {internal}
  MaintainerOnly = {internal}
  Policy <- MCPolicy
  MaxVersion = 2
  MaxUpsets = 2
INVARIANT TypeOK
INVARIANT LastOwnerDeletes
INVARIANT NoDriftNothingStale
 
PROPERTY SiblingsStand
