\* Three overlapping bodies, three installers, clicks in between.
SPECIFICATION Spec
CONSTANTS
    Bodies = {b1, b2, b3}
    Installers = {i1, i2, i3}
    Xhrs = {x1}
    MaxIds = 2
INVARIANTS Unwinds Nested InstalledWhileHeld
