SPECIFICATION Spec
CONSTANTS
    P1 = P1
    P2 = P2
    Pads <- MCPads
    Uses <- MCUses
    Timeout = 2
INVARIANT NothingStuck
