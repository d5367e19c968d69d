--------------------------- MODULE MC_SslCleanup ---------------------------
(* The sets of ssl_util functions the runs check. *)
EXTENDS SslPrograms

(* Every modelled function that commits no memory fault. *)
MCProgsAll ==
    {SslReadPkcs12Token, SslCreateCsr, SslWrapKey, SslVerifySignatureFromDigest,
     SslUnwrapKey, SslWrapKeySym, SslUnwrapKeySym, SslVerifyCertificate,
     SslHashFile, SslCreatePkcs12Token, SslNewpassPkcs12Token, SslMkreq,
     SslAddExtReq, SslMkkeypair, SslMkcert, SslAddExtCert, SslSelfSignCsr,
     SslVerifySignature, SslAesCtrInitEncrypt, SslAesCtrInitDecrypt}

(* The functions whose error paths release, close or pass on what they  *)
(* must not.                                                            *)
MCProgsFault == {SslInit, SslHashBuf, SslVerifySignatureFromBuf}

(* The functions that lose an object on some path: the output buffer of *)
(* the EVP wrapping functions, the PKCS#12 key and certificate, a chain  *)
(* certificate, extensions, certificates and requests under construction *)
(* and the buffers of ssl_verify_signature.                              *)
MCProgsLeak ==
    {SslUnwrapKey, SslWrapKeySym, SslUnwrapKeySym, SslNewpassPkcs12Token,
     SslVerifyCertificate, SslMkreq, SslAddExtReq, SslMkcert, SslAddExtCert,
     SslSelfSignCsr, SslVerifySignature}
(* Both: the functions whose error handling is checked for memory safety. *)
MCProgsMemory == MCProgsFault \cup MCProgsLeak
=============================================================================
