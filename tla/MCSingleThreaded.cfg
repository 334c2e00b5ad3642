CONSTANTS
    Bytes <- MCBytes
    kinitSize_ = 1
    kprependSize_ = 2
    kextra_buf_len = 2
    MaxReadable = 4
    BigitBits = 4
    SignificandSize = 6
    MaxBits = 32
    MaxPow5 = 1
    MaxDigits10 = 3
    ExponentBits = 5
    DiyFpSize = 13
    kAlpha <- MCkAlpha
    kGamma <- MCkGamma
    kCachedPowersSize = 6
    kCachedPowersMinDecExp <- MCkCachedPowersMinDecExp
    kCachedPowersDecExpStep = 2
    UInt32Max = 999999999
    IntegerTypes <- MCIntegerTypes
    Texts <- MCTexts
    DecimalInputs <- MCDecimalInputs
    ByteBase = 5
    kHeaderLen = 2
    MaxPacketLen = 8
    Messages <- MCMessages
    MaxSent = 3
SPECIFICATION Spec_
INVARIANTS
    IndexesInRange
    ContentIsReadable
    PrependRoom
    PacketsComeOut
    NumberAsserts
    TextReadsBack
    DoublesAreShortest
