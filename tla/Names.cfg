CONSTANTS
    Char <- mcChar
    BaseMax = 2
    ExtMax = 1
    CacheMax = 2
    UpperOf <- mcUpperOf
    Pattern <- mcPattern
    DosDir <- mcDosDir
    Trees <- mcTrees
SPECIFICATION Spec
INVARIANT TypeOK
 
 
INVARIANT OpenAndDeleteAgree
