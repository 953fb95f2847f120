SPECIFICATION Spec
CONSTANTS
    MaxWireChunks = 6
    MaxItems = 3
    MaxOpusChunks = 5
    MaxChanges = 2
    MaxSpeech = 2
INVARIANTS
    WireAgrees
    OpusAgrees
    Codec2Agrees
    QuantisersAgree
    TransformsAgree
CHECK_DEADLOCK FALSE
