CONSTANTS
    BlockSize = 16
    IvLen = 16
    IntSize = 4
    MaxBlockLen = 32
    SizeBits = 16
    MaxIn = 40
    MaxOut = 50
    MaxHdr = 48
    Funcs = {"ecb_encrypt", "ecb_decrypt", "unwrap_key"}
SPECIFICATION Spec
INVARIANT NoOverflow
CHECK_DEADLOCK FALSE
