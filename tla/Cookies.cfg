SPECIFICATION JarSpec
CONSTANTS
    Threads = {t1, t2}
    IpHosts <- MCIpHosts
    Offers <- MCOffers
    Uris <- MCUris
    Names = {"n", "m"}
    MaxTime = 1
    MaxAdds = 3
    None = None
SYMMETRY ThreadSymmetry
CHECK_DEADLOCK FALSE
INVARIANT JarInv
INVARIANT SentWhereSet
PROPERTY SecureLeftAlone
PROPERTY OrderKept
