SPECIFICATION FairSpec
CONSTANTS
    DNS_TABLE_SIZE = 1
    DNS_MAX_RETRIES = 2
    DNS_MAX_TTL = 1
    TtlMod = 3
    NumServers = 2
    Names <- MCNames
    Dotted <- MCDotted
    Ttls = {0, 2}
    NULL = NULL
INVARIANTS TypeOK AnswerForHost CallbackHasCaller TableHasRoom
PROPERTIES LookupEnds CacheExpires
