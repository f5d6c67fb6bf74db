SPECIFICATION Spec
CONSTANTS
    Watchdogs = {"data_ack"}
    Mode = {"full_hk", "basicstas_hk"}
    Channel = {0, 7}
    Delays = {0, 300}
INVARIANTS TypeOK HkIsAnswer OutputsAsTold
