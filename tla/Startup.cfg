\* Buffers for four characters, which are two bytes, and for five of a number;
\* a long of 12 bits.
SPECIFICATION StartSpec
CONSTANTS
    Letters <- MCLetters
    Files <- MCFiles
    conf_defaults <- MCDefaults
    Names <- MCNames
    KeyName <- MCKeyName
    output_buffer_size <- MCSizes
    MAX_HMAC_KEY_LENGTH = 2
    LONG_MAX = 2047
    Missing = Missing
INVARIANTS
    FileThenDefaults
    DamageIsLocal
    IntAsWritten
    SameAsServer
\* The value is found and converted, or there is none.
CHECK_DEADLOCK FALSE
