CONSTANTS
    i1 = i1
    i2 = i2
    i3 = i3
    i4 = i4
    Installers <- MCInstallers
    MaxMinor <- MCMaxMinor
SYMMETRY MCSymmetry
SPECIFICATION Spec
\* Once every installer has returned and the listing has ended, nothing
\* is left to do.
CHECK_DEADLOCK FALSE
INVARIANT TypeOK
INVARIANT InstalledDevicesOpen
INVARIANT ListingComplete
