SPECIFICATION Spec
CONSTANTS
  rr3 = rr3
  fmod = fmod
  event = event
  libc = libc
  fmodPath = fmodPath
  libcPath = libcPath
  create = create
  open = open
  mix = mix
  emit = emit
  gone = gone
  Nobody = Nobody
  Files <- MCFiles
  Root = rr3
  Builtin = {libc}
  Needables <- MCNeedables
  Base <- MCBase
  Symbols <- MCSymbols
  Host = {open}
  Marker = create
  EntryPoints = {create}
  Images <- MCImages
INVARIANTS OnceEach DependenciesFirst KnownBound
CHECK_DEADLOCK FALSE
