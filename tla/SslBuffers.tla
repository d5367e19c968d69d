------------------------------ MODULE SslBuffers ------------------------------
(***************************************************************************)
(* The buffer arithmetic of the ssl_util functions that take lengths from *)
(* their caller or from their input (src/unnamed/part_002):               *)
(* ssl_aes_ecb_encrypt and ssl_aes_ecb_decrypt, which check the caller's  *)
(* *outlen against a bound computed from inlen, and ssl_unwrap_key, which  *)
(* reads two int lengths from the wrapped key and checks their sum        *)
(* against the buffer's length.                                           *)
(*                                                                         *)
(* One call is one step.  Its inputs are the lengths (and, for the       *)
(* unwrapping, the two header fields), the padding flag, and whether each *)
(* library call fails.  The step records the size of each buffer and     *)
(* every byte range the function and the EVP calls it makes read or      *)
(* write; what the EVP calls write is OpenSSL's documented behaviour for  *)
(* a block cipher (the Evp* operators).                                   *)
(***************************************************************************)
EXTENDS Integers

CONSTANTS
    BlockSize,  \* EVP_CIPHER_block_size of AES-ECB and AES-256-CBC: 16
    IvLen,      \* EVP_CIPHER_iv_length(aes-256-cbc): 16
    IntSize,    \* sizeof(int): 4
    MaxBlockLen,\* EVP_MAX_BLOCK_LENGTH: 32
    SizeBits,   \* the width of size_t in the model
    MaxIn,      \* the largest input length a call is made with
    MaxOut,     \* the largest *outlen a call is made with
    MaxHdr,     \* the largest magnitude of a header field of a wrapped key
    Funcs       \* the functions called: a subset of FuncNames

FuncNames == {"ecb_encrypt", "ecb_decrypt", "unwrap_key"}

VARIABLES
    op,    \* the function called; "none" before the call
    size,  \* the size of each buffer: the input and the output
    acc,   \* the byte ranges read or written, [buf, lo, hi) each
    ret    \* the function's result

vars == <<op, size, acc, ret>>

KeyLens == {16, 24, 32}

Bufs == {"in", "out"}

(* A range of n bytes of buffer b from offset lo. *)
Range(b, lo, n) == [buf |-> b, lo |-> lo, hi |-> lo + n]

TypeOK ==
    /\ op \in FuncNames \cup {"none"}
    /\ size \in [Bufs -> Nat]
    /\ \A a \in acc : a.buf \in Bufs /\ a.lo \in Int /\ a.hi \in Int
    /\ ret \in {0, -1}

-----------------------------------------------------------------------------
(* OpenSSL.  Encryption writes every complete block in Update and, with  *)
(* padding, one more full block in Final (the remainder plus padding, or *)
(* a whole block of padding when inlen is a multiple of the block size). *)
(* Without padding Final fails unless inlen is a multiple of the block.  *)
Full(n) == (n \div BlockSize) * BlockSize

EvpEncryptUpdate(n) == Full(n)
EvpEncryptFinal(n, p) == IF p THEN BlockSize ELSE 0
EvpEncryptFinalOk(n, p) == p \/ n % BlockSize = 0

(* Decryption with padding holds back the last block in Update and       *)
(* writes it without its padding (1 to BlockSize bytes) in Final, which  *)
(* fails on a bad padding or a partial block.  Update refuses a negative *)
(* length.                                                               *)
EvpDecryptUpdate(n, p) == IF p /\ n % BlockSize = 0 /\ n > 0 THEN n - BlockSize ELSE Full(n)
EvpDecryptUpdateOk(n) == n >= 0
EvpDecryptFinal(n, p, padlen) == IF p THEN BlockSize - padlen ELSE 0
EvpDecryptFinalOk(n, p) == n % BlockSize = 0 /\ (p => n > 0)

-----------------------------------------------------------------------------
(* The code. *)

(* pad_len: the bytes the code expects padding to add. *)
PadLen(n) == IF n % BlockSize # 0 THEN BlockSize - (n % BlockSize) ELSE 0

(* maxlen = ADD_WITH_OVERFLOW_CHECK(inlen, pad_len). *)
MaxLen(n) == n + PadLen(n)

(* An int converted to size_t: sign extension, then reduction modulo     *)
(* 2^SizeBits.                                                           *)
ToSize(i) == i % (2 ^ SizeBits)

Init ==
    /\ op = "none" /\ size = [b \in Bufs |-> 0] /\ acc = {} /\ ret = 0

(* An early return (-1): an unsupported key length, a failed             *)
(* EVP_CIPHER_CTX_new, _init, _EncryptInit_ex or _set_padding.  Nothing  *)
(* is read or written.                                                   *)
Refused == acc' = {} /\ ret' = -1

(* ssl_aes_ecb_encrypt. *)
EcbEncrypt(n, c, p) ==
    \E keylen \in KeyLens, setupOk \in BOOLEAN :
        /\ op' = "ecb_encrypt" /\ size' = [in |-> n, out |-> c]
        /\ IF keylen \notin {16, 32} \/ ~setupOk \/ c < MaxLen(n)
              THEN Refused
              ELSE LET upd == EvpEncryptUpdate(n)
                       read == {Range("in", 0, n), Range("out", 0, upd)}
                   IN IF EvpEncryptFinalOk(n, p)
                        THEN /\ acc' = read \cup {Range("out", upd, EvpEncryptFinal(n, p))}
                             /\ ret' = 0
                        ELSE acc' = read /\ ret' = -1

(* ssl_aes_ecb_decrypt: the key length and *outlen < inlen are checked   *)
(* before the context is allocated.                                      *)
EcbDecrypt(n, c, p) ==
    \E keylen \in KeyLens, setupOk \in BOOLEAN, padlen \in 1..BlockSize :
        /\ op' = "ecb_decrypt" /\ size' = [in |-> n, out |-> c]
        /\ IF keylen \notin {16, 32} \/ c < n \/ ~setupOk
              THEN Refused
              ELSE LET upd == EvpDecryptUpdate(n, p)
                       read == {Range("in", 0, n), Range("out", 0, upd)}
                   IN \/ /\ EvpDecryptFinalOk(n, p)
                         /\ acc' = read \cup {Range("out", upd, EvpDecryptFinal(n, p, padlen))}
                         /\ ret' = 0
                      \/ acc' = read /\ ret' = -1

(* ssl_unwrap_key on a wrapped key of n bytes whose header holds         *)
(* tmpkeylen and keylen.  The output buffer has n + EVP_MAX_BLOCK_LENGTH *)
(* bytes.  The steps after the length check each may fail and return -1: *)
(* EVP_CIPHER_CTX_new, EVP_OpenInit (reads the iv and tmpkeylen bytes of *)
(* the encrypted key), EVP_OpenUpdate (reads keylen bytes) and           *)
(* EVP_OpenFinal (a bad padding).                                        *)
UnwrapKey(n, tmpkeylen, keylen) ==
    \E typeOk, ctxOk, initOk \in BOOLEAN, padlen \in 1..BlockSize :
        LET hdr   == 2 * IntSize
            hdrRd == {Range("in", 0, hdr)}
            openRd == {Range("in", hdr, IvLen), Range("in", hdr + IvLen, tmpkeylen)}
            keyRd == Range("in", hdr + IvLen + tmpkeylen, keylen)
            upd   == EvpDecryptUpdate(keylen, TRUE)
        IN
        /\ op' = "unwrap_key" /\ size' = [in |-> n, out |-> n + MaxBlockLen]
        /\ CASE ~typeOk \/ n < hdr + IvLen ->
                   Refused
             [] ToSize(hdr + IvLen + tmpkeylen + keylen) # n \/ ~ctxOk ->
                   acc' = hdrRd /\ ret' = -1
             [] ~initOk ->
                   acc' = hdrRd \cup openRd /\ ret' = -1
             [] ~EvpDecryptUpdateOk(keylen) ->
                   acc' = hdrRd \cup openRd \cup {keyRd} /\ ret' = -1
             [] OTHER ->
                   LET rd == hdrRd \cup openRd \cup {keyRd, Range("out", 0, upd)}
                   IN \/ /\ EvpDecryptFinalOk(keylen, TRUE)
                         /\ acc' = rd \cup {Range("out", upd, EvpDecryptFinal(keylen, TRUE, padlen))}
                         /\ ret' = 0
                      \/ acc' = rd /\ ret' = -1

(* One call per behaviour: the functions keep no state between calls. *)
Next ==
    /\ op = "none"
    /\ \/ "ecb_encrypt" \in Funcs /\ \E n \in 0..MaxIn, c \in 0..MaxOut, p \in BOOLEAN :
                                        EcbEncrypt(n, c, p)
       \/ "ecb_decrypt" \in Funcs /\ \E n \in 0..MaxIn, c \in 0..MaxOut, p \in BOOLEAN :
                                        EcbDecrypt(n, c, p)
       \/ "unwrap_key" \in Funcs /\ \E n \in 0..MaxIn, t, k \in -MaxHdr..MaxHdr :
                                        UnwrapKey(n, t, k)

Spec == Init /\ [][Next]_vars

-----------------------------------------------------------------------------
(* Every byte range a call reads or writes, itself or through the EVP    *)
(* calls, has a non-negative length and lies inside its buffer: the      *)
(* length checks of the functions (outlen against inlen rounded up to    *)
(* the block; the header lengths against the wrapped key's length)      *)
(* admit only calls that stay inside the caller's buffers.               *)
NoOverflow ==
    \A a \in acc : 0 <= a.lo /\ a.lo <= a.hi /\ a.hi <= size[a.buf]
=============================================================================
