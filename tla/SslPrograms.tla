---------------------------- MODULE SslPrograms ----------------------------
(***************************************************************************)
(* Functions of ssl_util (src/unnamed/part_002) as programs of            *)
(* SslCleanup.  Each instruction is commented with its label (its index)  *)
(* and the C it stands for; logging and the data the calls compute are    *)
(* left out.  A function that returns a pointer reports success as 0 and  *)
(* NULL as -1.                                                             *)
(***************************************************************************)
EXTENDS SslCleanup

(* ssl_init: load the TPM2 engine, initialise it, make it the default;   *)
(* on error ENGINE_free then ENGINE_finish.                              *)
SslInit ==
    << Branch(13),                  \* 1  if (use_tpm) ... else
       Alloc("engine"),             \* 2  tpm_engine = ENGINE_by_id("tpm2")
       IfNull("engine", 12, {-1}),  \* 3  if (!tpm_engine) return -1
       Acquire("engine", 10, {}),   \* 4  if (!ENGINE_init(e)) goto error
       Call("engine", 10, {}),      \* 5  ENGINE_set_default_RSA || _RAND
       Branch(8),                   \* 6  if (pw)
       Call("engine", 10, {}),      \* 7    ENGINE_ctrl_cmd(e, "PIN", ...)
       Give("engine"),              \* 8  the engine stays in tpm_engine
       Return({0}),                 \* 9  return 0
       Free("engine"),              \* 10 error: ENGINE_free(tpm_engine)
       Free("engine"),              \* 11 ENGINE_finish(tpm_engine)
       Return({-1}),                \* 12 tpm_engine = NULL; return -1
       Call(None, 0, {}),           \* 13 ENGINE_register_all_complete()
       Return({0}) >>               \* 14 return 0

(* Variants of ssl_read_pkcs12_token with a plausible slip: fp closed  *)
(* again at end; ret initialised to 0 instead of -2.                    *)
SslReadPkcs12TokenCloseTwice ==
    << Mem("passphr"), Set(-2), Alloc("fp"), IfNull("fp", 12, {}), Alloc("p12"),
       Close("fp"), IfNull("p12", 12, {}), Call("p12", 12, {-1}),
       Acquire("creds", 12, {}), Give("creds"), Set(0), Close("fp"),
       Free0("passphr"), Return({}) >>

SslReadPkcs12TokenRetZero ==
    << Mem("passphr"), Set(0), Alloc("fp"), IfNull("fp", 12, {}), Alloc("p12"),
       Close("fp"), IfNull("p12", 12, {}), Call("p12", 12, {-1}),
       Acquire("creds", 12, {}), Give("creds"), Set(0), Free("p12"),
       Free0("passphr"), Return({}) >>

(* ssl_read_pkcs12_token. *)
SslReadPkcs12Token ==
    << Mem("passphr"),              \* 1  passphr = mem_strdup(passphrase)
       Set(-2),                     \* 2  ret = -2
       Alloc("fp"),                 \* 3  fp = fopen(token_file)
       IfNull("fp", 12, {}),        \* 4  if (!fp) goto end
       Alloc("p12"),                \* 5  p12 = d2i_PKCS12_fp(fp)
       Close("fp"),                  \* 6  fclose(fp)
       IfNull("p12", 12, {}),       \* 7  if (!p12) goto end
       Call("p12", 12, {-1}),       \* 8  PKCS12_verify_mac: ret = -1
       Acquire("creds", 12, {}),    \* 9  PKCS12_parse into *pkey, *cert, *ca
       Give("creds"),               \* 10 the caller owns them
       Set(0),                      \* 11 ret = 0
       Free("p12"),                 \* 12 end: if (p12) PKCS12_free(p12)
       Free0("passphr"),            \* 13 mem_free0(passphr)
       Return({}) >>                \* 14 return ret

(* Variant of ssl_create_csr whose tpmkey branch jumps past the end.    *)
SslCreateCsrBadLabel ==
    << Branch(5), Alloc("pkey"), IfNull("pkey", 29, {}), Goto(7),
       Alloc("pkey"), IfNull("pkey", 29, {}), Alloc("req"),
       IfNull("req", 29, {}), Alloc("fp"), IfNull("fp", 29, {}),
       Call("fp", 14, {}), Close("fp"), Goto(16), Close("fp"), Goto(29),
       Branch(32), Alloc("fp"), IfNull("fp", 29, {}), Branch(21),
       Call(None, 24, {}), Call("fp", 24, {}), Close("fp"), Goto(26),
       Close("fp"), Goto(29), Free("pkey"), Free("req"), Return({0}),
       Free("pkey"), Free("req"), Return({-1}) >>

(* ssl_create_csr. *)
SslCreateCsr ==
    << Branch(5),                   \* 1  if (!tpmkey) ... else
       Alloc("pkey"),               \* 2  pkeyp = ssl_mkkeypair()
       IfNull("pkey", 29, {}),      \* 3  if (!pkeyp) goto error
       Goto(7),                     \* 4
       Alloc("pkey"),               \* 5  pkeyp = ENGINE_load_private_key()
       IfNull("pkey", 29, {}),      \* 6  if (!pkeyp) goto error
       Alloc("req"),                \* 7  req = ssl_mkreq(pkeyp, ...)
       IfNull("req", 29, {}),       \* 8  if (!req) goto error
       Alloc("fp"),                 \* 9  fp = fopen(req_file)
       IfNull("fp", 29, {}),        \* 10 if (!fp) goto error
       Call("fp", 14, {}),          \* 11 PEM_write_X509_REQ fails: 14
       Close("fp"),                  \* 12 fclose(fp)
       Goto(16),                    \* 13
       Close("fp"),                  \* 14 fclose(fp)
       Goto(29),                    \* 15 goto error
       Branch(26),                  \* 16 if (!tpmkey) ...
       Alloc("fp"),                 \* 17 fp = fopen(key_file)
       IfNull("fp", 29, {}),        \* 18 if (!fp) goto error
       Branch(21),                  \* 19 if (passphrase)
       Call(None, 24, {}),          \* 20   EVP_get_cipherbyname fails: 24
       Call("fp", 24, {}),          \* 21 PEM_write_PrivateKey fails: 24
       Close("fp"),                  \* 22 fclose(fp)
       Goto(26),                    \* 23
       Close("fp"),                  \* 24 fclose(fp)
       Goto(29),                    \* 25 goto error
       Free("pkey"),                \* 26 EVP_PKEY_free(pkeyp)
       Free("req"),                 \* 27 X509_REQ_free(req)
       Return({0}),                 \* 28 return 0
       Free("pkey"),                \* 29 error: if (pkeyp) EVP_PKEY_free
       Free("req"),                 \* 30 if (req) X509_REQ_free(req)
       Return({-1}) >>              \* 31 return -1

(* Variant of ssl_wrap_key: *wrapped_key is set before EVP_SealFinal  *)
(* is checked.                                                         *)
SslWrapKeyGiveEarly ==
    << Set(-1), Call(None, 19, {}), Alloc("ctx"), IfNull("ctx", 19, {}),
       Mem("tmpkey"), Mem("iv_buf"), Mem("out"), Call("ctx", 14, {}),
       Call("ctx", 14, {}), Mem("wrapped"), Give("wrapped"),
       Call("ctx", 14, {}), Set(0), Free0("tmpkey"), Free0("iv_buf"),
       Free0("out"), Free("ctx"), Return({}), Return({}) >>

(* ssl_wrap_key: EVP_Seal* into out, then the caller's buffer. *)
SslWrapKey ==
    << Set(-1),                     \* 1  res = -1
       Call(None, 19, {}),          \* 2  EVP_get_cipherbyname: return res
       Alloc("ctx"),                \* 3  ctx = EVP_CIPHER_CTX_new()
       IfNull("ctx", 19, {}),       \* 4  if (!ctx) return res
       Mem("tmpkey"),               \* 5  tmpkey = mem_alloc()
       Mem("iv_buf"),               \* 6  iv_buf = mem_alloc()
       Mem("out"),                  \* 7  out = mem_alloc()
       Call("ctx", 14, {}),         \* 8  EVP_SealInit: goto cleanup
       Call("ctx", 14, {}),         \* 9  EVP_SealUpdate: goto cleanup
       Call("ctx", 14, {}),         \* 10 EVP_SealFinal: goto cleanup
       Mem("wrapped"),              \* 11 p = mem_alloc(len)
       Give("wrapped"),             \* 12 *wrapped_key = p
       Set(0),                      \* 13 res = 0
       Free0("tmpkey"),             \* 14 cleanup: mem_free0(tmpkey)
       Free0("iv_buf"),             \* 15 mem_free0(iv_buf)
       Free0("out"),                \* 16 mem_free0(out)
       Free("ctx"),                 \* 17 EVP_CIPHER_CTX_free(ctx)
       Return({}),                  \* 18 return res
       Return({}) >>                \* 19 return res

(* Variant of ssl_unwrap_key: *plain_key is set before EVP_OpenFinal.  *)
SslUnwrapKeyGiveEarly ==
    << Set(-1), Call(None, 15, {}), Branch(15), Branch(15), Alloc("ctx"),
       IfNull("ctx", 15, {}), Mem("out"), Call("ctx", 13, {}),
       Call("ctx", 13, {}), Give("out"), Call("ctx", 13, {}), Set(0),
       Free("ctx"), Return({}), Return({}) >>

(* ssl_unwrap_key: EVP_Open* into out, which becomes *plain_key. *)
SslUnwrapKey ==
    << Set(-1),                     \* 1  res = -1
       Call(None, 15, {}),          \* 2  EVP_get_cipherbyname: return res
       Branch(15),                  \* 3  wrapped_key_len too short: return
       Branch(15),                  \* 4  lengths do not add up: return
       Alloc("ctx"),                \* 5  ctx = EVP_CIPHER_CTX_new()
       IfNull("ctx", 15, {}),       \* 6  if (!ctx) return res
       Mem("out"),                  \* 7  out = mem_alloc0()
       Call("ctx", 13, {}),         \* 8  EVP_OpenInit: goto cleanup
       Call("ctx", 13, {}),         \* 9  EVP_OpenUpdate: goto cleanup
       Call("ctx", 13, {}),         \* 10 EVP_OpenFinal: goto cleanup
       Give("out"),                 \* 11 *plain_key = out
       Set(0),                      \* 12 res = 0
       Free("ctx"),                 \* 13 cleanup: EVP_CIPHER_CTX_free(ctx)
       Return({}),                  \* 14 return res
       Return({}) >>                \* 15 return res

(* ssl_wrap_key_sym and ssl_unwrap_key_sym: the same control flow, with *)
(* EVP_Encrypt* or EVP_Decrypt* into out.                               *)
SslWrapKeySym ==
    << Set(-1),                     \* 1  res = -1
       Call(None, 14, {}),          \* 2  EVP_get_cipherbyname: return res
       Alloc("ctx"),                \* 3  ctx = EVP_CIPHER_CTX_new()
       IfNull("ctx", 14, {}),       \* 4  if (!ctx) return res
       Mem("out"),                  \* 5  out = mem_alloc0()
       IfNull("out", 12, {-1}),     \* 6  if (!out) goto cleanup
       Call("ctx", 12, {}),         \* 7  EVP_*Init_ex: goto cleanup
       Call("ctx", 12, {}),         \* 8  EVP_*Update: goto cleanup
       Call("ctx", 12, {}),         \* 9  EVP_*Final_ex: goto cleanup
       Give("out"),                 \* 10 *wrapped_key = out
       Set(0),                      \* 11 res = 0
       Free("ctx"),                 \* 12 cleanup: EVP_CIPHER_CTX_free(ctx)
       Return({}),                  \* 13 return res
       Return({}) >>                \* 14 return res

SslUnwrapKeySym == SslWrapKeySym

(* Variants of ssl_verify_certificate: an unexpected verify error frees *)
(* the context before end; verify_ret == 0 yields 0.                    *)
SslVerifyCertificateFreeCtxEarly ==
    << Set(0), Alloc("store"), IfNull("store", 25, {-2}), Alloc("context"),
       IfNull("context", 25, {-2}), Call("store", 25, {-2}), Alloc("bio"),
       Call("bio", 25, {-2}), Acquire("cert", 25, {-2}), Alloc("chain"),
       IfNull("chain", 25, {-2}), Branch(17), Mem("chain_cert"),
       Call("chain", 25, {-2}), Adopt("chain_cert"), Goto(12),
       Call("context", 25, {-2}), Call("context", 21, {}), Set(0), Goto(25),
       Branch(24), Set(-1), Goto(25), Free("context"), Free("context"),
       Free("store"), Free("bio"), Free("chain"), Free("cert"), Return({}) >>

SslVerifyCertificateInvalidIsZero ==
    << Set(0), Alloc("store"), IfNull("store", 25, {-2}), Alloc("context"),
       IfNull("context", 25, {-2}), Call("store", 25, {-2}), Alloc("bio"),
       Call("bio", 25, {-2}), Acquire("cert", 25, {-2}), Alloc("chain"),
       IfNull("chain", 25, {-2}), Branch(17), Mem("chain_cert"),
       Call("chain", 25, {-2}), Adopt("chain_cert"), Goto(12),
       Call("context", 25, {-2}), Call("context", 21, {}), Set(0), Goto(25),
       Branch(24), Set(0), Goto(25), Set(-2), Free("context"), Free("store"),
       Free("bio"), Free("chain"), Free("cert"), Return({}) >>

(* ssl_verify_certificate: load the root CA and the chain, verify. *)
SslVerifyCertificate ==
    << Set(0),                      \* 1  ret = 0
       Alloc("store"),              \* 2  store = X509_STORE_new()
       IfNull("store", 25, {-2}),   \* 3  if (!store) ret = -2, goto end
       Alloc("context"),            \* 4  context = X509_STORE_CTX_new()
       IfNull("context", 25, {-2}), \* 5  if (!context) ret = -2, goto end
       Call("store", 25, {-2}),     \* 6  X509_STORE_load_locations
       Alloc("bio"),                \* 7  stackbio = BIO_new(BIO_s_file())
       Call("bio", 25, {-2}),       \* 8  BIO_read_filename
       Acquire("cert", 25, {-2}),   \* 9  PEM_read_bio_X509(&test_cert)
       Alloc("chain"),              \* 10 chainstack = sk_X509_new_null()
       IfNull("chain", 25, {-2}),   \* 11 if (!chainstack) goto end
       Branch(17),                  \* 12 while (PEM_read_bio_X509(&c)) {
       Mem("chain_cert"),           \* 13   the next certificate
       Call("chain", 25, {-2}),     \* 14   sk_X509_push fails: goto end
       Adopt("chain_cert"),         \* 15   the stack owns it
       Goto(12),                    \* 16 }
       Call("context", 25, {-2}),   \* 17 X509_STORE_CTX_init
       Call("context", 21, {}),     \* 18 X509_verify_cert != 1: 21
       Set(0),                      \* 19 ret = 0
       Goto(25),                    \* 20
       Branch(24),                  \* 21 verify_ret == 0 ?
       Set(-1),                     \* 22 ret = -1
       Goto(25),                    \* 23
       Set(-2),                     \* 24 ret = -2
       Free("context"),             \* 25 end: X509_STORE_CTX_free(context)
       Free("store"),               \* 26 X509_STORE_free(store)
       Free("bio"),                 \* 27 BIO_free(stackbio)
       Free("chain"),               \* 28 sk_X509_pop_free(chainstack)
       Free("cert"),                \* 29 X509_free(test_cert)
       Return({}) >>                \* 30 return ret

(* ssl_verify_signature_from_digest. *)
SslVerifySignatureFromDigest ==
    << Branch(31),                  \* 1  an empty buffer: return -1
       Set(0),                      \* 2  ret = 0
       Alloc("mem"),                \* 3  mem = BIO_new(BIO_s_mem())
       Alloc("cert"),               \* 4  cert = PEM_read_bio_X509(mem)
       Free("mem"),                 \* 5  BIO_free(mem)
       Alloc("key"),                \* 6  key = X509_get_pubkey(cert)
       IfNull("key", 27, {-2}),     \* 7  if (!key) ret = -2, goto error
       Alloc("pctx"),               \* 8  pkey_ctx = EVP_PKEY_CTX_new(key)
       IfNull("pctx", 27, {-2}),    \* 9  if (!pkey_ctx) goto error
       Call("pctx", 27, {-2}),      \* 10 EVP_PKEY_verify_init != 1
       Call(None, 27, {-2}),        \* 11 EVP_get_digestbyname
       Branch(15),                  \* 12 if (RSA_PSS)
       Call("pctx", 27, {-1}),      \* 13   ssl_set_pkey_ctx_rsa_pss < 0
       Goto(20),                    \* 14
       Branch(18),                  \* 15 else if (RSA)
       Call("pctx", 27, {-2}),      \* 16   EVP_PKEY_CTX_set_signature_md
       Goto(20),                    \* 17
       Set(-1),                     \* 18 else: unsupported key type
       Goto(27),                    \* 19 goto error
       Call("pctx", 23, {}),        \* 20 EVP_PKEY_verify != 1: 23
       Set(0),                      \* 21 ret = 0
       Goto(27),                    \* 22
       Branch(26),                  \* 23 ret == -1 ?
       Set(-2),                     \* 24 ret = -2
       Goto(27),                    \* 25
       Set(-1),                     \* 26 ret = -1
       Free("cert"),                \* 27 error: if (cert) X509_free
       Free("key"),                 \* 28 if (key) EVP_PKEY_free
       Free("pctx"),                \* 29 if (pkey_ctx) EVP_PKEY_CTX_free
       Return({}),                  \* 30 return ret
       Return({-1}) >>              \* 31 return -1

(* ssl_hash_buf.  ret is the digest buffer: -1 stands for NULL.  fp is *)
(* declared NULL and never opened, yet two error paths fclose it.     *)
SslHashBuf ==
    << Set(-1),                     \* 1  ret = NULL
       Call(None, 17, {}),          \* 2  EVP_get_digestbyname: return NULL
       Alloc("md_ctx"),             \* 3  md_ctx = EVP_MD_CTX_new()
       IfNull("md_ctx", 16, {}),    \* 4  if (!md_ctx) { fclose(fp); ... }
       Call("md_ctx", 0, {}),       \* 5  EVP_DigestInit, unchecked
       Call("md_ctx", 18, {}),      \* 6  EVP_DigestUpdate fails: 18
       Mem("digest"),               \* 7  ret = mem_alloc0(EVP_MAX_MD_SIZE)
       Set(0),                      \* 8  ret is not NULL
       Call("md_ctx", 12, {}),      \* 9  EVP_DigestFinal != 1: 12
       Give("digest"),              \* 10 the caller owns ret
       Goto(14),                    \* 11
       Free0("digest"),             \* 12 mem_free0(ret)
       Set(-1),                     \* 13 ret = NULL; goto error
       Free("md_ctx"),              \* 14 error: EVP_MD_CTX_free(md_ctx)
       Return({}),                  \* 15 return ret
       Close("fp"),                 \* 16 fclose(fp)
       Return({}),                  \* 17 return NULL
       Close("fp"),                 \* 18 fclose(fp)
       Goto(14) >>                  \* 19 goto error

(* ssl_hash_file. *)
SslHashFile ==
    << Set(-1),                     \* 1  ret = NULL
       Alloc("fp"),                 \* 2  fp = fopen(file_to_hash)
       IfNull("fp", 22, {}),        \* 3  if (!fp) return NULL
       Call(None, 21, {}),          \* 4  EVP_get_digestbyname: fclose, NULL
       Alloc("md_ctx"),             \* 5  md_ctx = EVP_MD_CTX_new()
       IfNull("md_ctx", 21, {}),    \* 6  if (!md_ctx) fclose, return NULL
       Call("md_ctx", 0, {}),       \* 7  EVP_DigestInit, unchecked
       Branch(11),                  \* 8  while (fread(...) > 0) {
       Call("md_ctx", 23, {}),      \* 9    EVP_DigestUpdate fails: 23
       Goto(8),                     \* 10 }
       Close("fp"),                 \* 11 fclose(fp)
       Mem("digest"),               \* 12 ret = mem_alloc0(EVP_MAX_MD_SIZE)
       Set(0),                      \* 13 ret is not NULL
       Call("md_ctx", 17, {}),      \* 14 EVP_DigestFinal != 1: 17
       Give("digest"),              \* 15 the caller owns ret
       Goto(19),                    \* 16
       Free0("digest"),             \* 17 mem_free0(ret)
       Set(-1),                     \* 18 ret = NULL; goto error
       Free("md_ctx"),              \* 19 error: EVP_MD_CTX_free(md_ctx)
       Return({}),                  \* 20 return ret
       Close("fp"),                 \* 21 fclose(fp)
       Return({}),                  \* 22 return NULL
       Close("fp"),                 \* 23 fclose(fp)
       Goto(19) >>                  \* 24 goto error

(* ssl_create_pkcs12_token. *)
SslCreatePkcs12Token ==
    << Mem("passphr"),              \* 1  passphr = mem_strdup(passphrase)
       Alloc("pkey"),               \* 2  pkey = ssl_mkkeypair()
       IfNull("pkey", 24, {}),      \* 3  if (!pkey) goto error
       Alloc("cert"),               \* 4  cert = ssl_mkcert(pkey, ...)
       IfNull("cert", 24, {}),      \* 5  if (!cert) goto error
       Alloc("p12"),                \* 6  p12 = PKCS12_create(...)
       IfNull("p12", 24, {}),       \* 7  if (!p12) goto error
       Call("p12", 24, {}),         \* 8  PKCS12_set_mac != 1
       Alloc("fp"),                 \* 9  fp = fopen(token_file)
       IfNull("fp", 24, {}),        \* 10 if (!fp) goto error
       Call("fp", 23, {}),          \* 11 i2d_PKCS12_fp != 1: 23
       Close("fp"),                 \* 12 fclose(fp)
       Branch(18),                  \* 13 if (cert_file) ... else
       Alloc("fp"),                 \* 14 fp = fopen(cert_file)
       IfNull("fp", 24, {}),        \* 15 if (!fp) goto error
       Call("fp", 23, {}),          \* 16 PEM_write_X509 != 1: 23
       Close("fp"),                 \* 17 fclose(fp)
       Free("pkey"),                \* 18 EVP_PKEY_free(pkey)
       Free("cert"),                \* 19 X509_free(cert)
       Free("p12"),                 \* 20 PKCS12_free(p12)
       Free0("passphr"),            \* 21 mem_free0(passphr)
       Return({0}),                 \* 22 return 0
       Close("fp"),                 \* 23 fclose(fp); goto error
       Free("pkey"),                \* 24 error: if (pkey) EVP_PKEY_free
       Free("cert"),                \* 25 if (cert) X509_free(cert)
       Free("p12"),                 \* 26 if (p12) PKCS12_free(p12)
       Free0("passphr"),            \* 27 mem_free0(passphr)
       Return({-1}) >>              \* 28 return -1

(* ssl_newpass_pkcs12_token.  PKCS12_parse hands the function a key and *)
(* a certificate ("creds"), which it passes to PKCS12_create.           *)
SslNewpassPkcs12Token ==
    << Branch(18),                  \* 1  oldpass or newpass NULL: error
       Alloc("fp"),                 \* 2  fp = fopen(token_file)
       IfNull("fp", 18, {}),        \* 3  if (!fp) goto error
       Alloc("p12"),                \* 4  p12 = d2i_PKCS12_fp(fp)
       Close("fp"),                 \* 5  fclose(fp)
       IfNull("p12", 18, {}),       \* 6  if (!p12) goto error
       Acquire("creds", 18, {}),    \* 7  PKCS12_parse(&pkey, &cert) == 0
       Free("p12"),                 \* 8  PKCS12_free(p12)
       Alloc("p12"),                \* 9  p12 = PKCS12_create(newpass, ...)
       IfNull("p12", 18, {}),       \* 10 if (!p12) goto error
       Alloc("fp"),                 \* 11 fp = fopen(token_file)
       IfNull("fp", 18, {}),        \* 12 if (!fp) goto error
       Call("fp", 17, {}),          \* 13 i2d_PKCS12_fp != 1: 17
       Close("fp"),                 \* 14 fclose(fp)
       Free("p12"),                 \* 15 PKCS12_free(p12)
       Return({0}),                 \* 16 return 0
       Close("fp"),                 \* 17 fclose(fp); goto error
       Free("p12"),                 \* 18 error: if (p12) PKCS12_free(p12)
       Return({-1}) >>              \* 19 return -1


(* ssl_mkreq: returns req (0) or NULL (-1).  The error label frees only *)
(* req; uri_uuid is said to be freed with req but is never referenced  *)
(* by it (X509V3_EXT_conf_nid copies the value).                       *)
SslMkreq ==
    << Alloc("req"),                \* 1  req = X509_REQ_new()
       IfNull("req", 22, {}),       \* 2  if (!req) goto error
       Call("req", 22, {}),         \* 3  X509_REQ_set_version
       Call("req", 22, {}),         \* 4  X509_REQ_set_pubkey
       Call("req", 22, {}),         \* 5  X509_REQ_get_subject_name == NULL
       Call("req", 22, {}),         \* 6  X509_NAME_add_entry_by_txt "C"
       Call("req", 22, {}),         \* 7  ... "O"
       Call("req", 22, {}),         \* 8  ... "OU"
       Call("req", 22, {}),         \* 9  ... "CN"
       Alloc("exts"),               \* 10 exts = sk_X509_EXTENSION_new_null()
       IfNull("exts", 22, {}),      \* 11 if (!exts) goto error
       Call("exts", 22, {}),        \* 12 add_ext_req(NID_key_usage) != 0
       Call("exts", 22, {}),        \* 13 add_ext_req(NID_ext_key_usage)
       Mem("uri_uuid"),             \* 14 uri_uuid = mem_printf(...)
       Call("exts", 22, {}),        \* 15 add_ext_req(NID_subject_alt_name)
       Call("req", 22, {}),         \* 16 X509_REQ_add_extensions
       Free("exts"),                \* 17 sk_X509_EXTENSION_pop_free(exts)
       Call(None, 22, {}),          \* 18 EVP_get_digestbyname == NULL
       Call("req", 22, {}),         \* 19 X509_REQ_sign
       Give("req"),                 \* 20 return req
       Return({0}),                 \* 21
       Free("req"),                 \* 22 error: if (req) X509_REQ_free
       Return({-1}) >>              \* 23 return NULL

(* add_ext_req. *)
SslAddExtReq ==
    << Alloc("ex"),                 \* 1  ex = X509V3_EXT_conf_nid(...)
       IfNull("ex", 6, {}),         \* 2  == NULL: return -1
       Call("ex", 6, {}),           \* 3  sk_X509_EXTENSION_push == 0
       Adopt("ex"),                 \* 4  the stack owns ex
       Return({0}),                 \* 5  return 0
       Return({-1}) >>              \* 6  return -1

(* ssl_mkkeypair: returns pkey (0) or NULL (-1). *)
SslMkkeypair ==
    << Set(-1),                     \* 1  pkey = NULL
       Branch(5),                   \* 2  RSA_SSA_PADDING == key_type ?
       Alloc("ctx"),                \* 3  ctx = EVP_PKEY_CTX_new_id(RSA)
       Goto(7),                     \* 4
       Branch(15),                  \* 5  RSA_PSS_PADDING ? else return NULL
       Alloc("ctx"),                \* 6  ctx = EVP_PKEY_CTX_new_id(RSA_PSS)
       IfNull("ctx", 15, {}),       \* 7  if (!ctx) return NULL
       Call("ctx", 13, {}),         \* 8  EVP_PKEY_keygen_init <= 0: out
       Call("ctx", 13, {}),         \* 9  set_rsa_keygen_bits <= 0: out
       Acquire("pkey", 13, {}),     \* 10 EVP_PKEY_keygen(ctx, &pkey) <= 0
       Give("pkey"),                \* 11 return pkey
       Set(0),                      \* 12 pkey is not NULL
       Free("ctx"),                 \* 13 out: EVP_PKEY_CTX_free(ctx)
       Return({}),                  \* 14 return pkey
       Return({}) >>                \* 15 return NULL

(* ssl_mkcert: returns cert (0) or NULL (-1); the error label frees    *)
(* nothing.                                                            *)
SslMkcert ==
    << Alloc("cert"),               \* 1  cert = X509_new()
       IfNull("cert", 23, {}),      \* 2  if (!cert) goto error
       Call("cert", 23, {}),        \* 3  X509_set_version
       Call("cert", 23, {}),        \* 4  ASN1_INTEGER_set(serial)
       Call("cert", 23, {}),        \* 5  X509_gmtime_adj(notBefore)
       Call("cert", 23, {}),        \* 6  X509_gmtime_adj(notAfter)
       Call("cert", 23, {}),        \* 7  X509_set_pubkey
       Call("cert", 23, {}),        \* 8  X509_get_subject_name == NULL
       Call("cert", 23, {}),        \* 9  X509_NAME_add_entry_by_txt "C"
       Call("cert", 23, {}),        \* 10 ... "ST"
       Call("cert", 23, {}),        \* 11 ... "L"
       Call("cert", 23, {}),        \* 12 ... "O"
       Call("cert", 23, {}),        \* 13 ... "OU"
       Call("cert", 23, {}),        \* 14 ... "OU"
       Call("cert", 23, {}),        \* 15 ... "CN"
       Call("cert", 23, {}),        \* 16 X509_set_issuer_name
       Call("cert", 23, {}),        \* 17 ssl_add_ext_cert(basic_constraints)
       Call("cert", 23, {}),        \* 18 ssl_add_ext_cert(key_usage)
       Call("cert", 23, {}),        \* 19 ssl_add_ext_cert(subject_key_id)
       Call("cert", 23, {}),        \* 20 X509_sign fails: return NULL
       Give("cert"),                \* 21 return cert
       Return({0}),                 \* 22
       Return({-1}) >>              \* 23 error: return NULL

(* ssl_add_ext_cert: X509_add_ext copies ex. *)
SslAddExtCert ==
    << Alloc("ex"),                 \* 1  ex = X509V3_EXT_conf_nid(...)
       IfNull("ex", 6, {}),         \* 2  == NULL: return -1
       Call("ex", 6, {}),           \* 3  X509_add_ext fails: return -1
       Free("ex"),                  \* 4  X509_EXTENSION_free(ex)
       Return({0}),                 \* 5  return 0
       Return({-1}) >>              \* 6  return -1

(* ssl_self_sign_csr. *)
SslSelfSignCsr ==
    << Set(-1),                     \* 1  ret = -1
       Alloc("csr"),                \* 2  csr = BIO_new_file(csr_file)
       IfNull("csr", 39, {}),       \* 3  if (!csr) goto error
       Acquire("csr_x509", 39, {}), \* 4  PEM_read_bio_X509_REQ(&csr_x509)
       Branch(14),                  \* 5  if (!tpmkey) ... else
       Alloc("key"),                \* 6  key = BIO_new_file(key_file)
       IfNull("key", 39, {}),       \* 7  if (!key) goto error
       Alloc("key_evp_priv"),       \* 8  key_evp_priv = EVP_PKEY_new()
       IfNull("key_evp_priv", 39, {}), \* 9
       Acquire("key_rsa", 39, {}),  \* 10 PEM_read_bio_RSAPrivateKey(&key_rsa)
       Call("key_evp_priv", 48, {}), \* 11 EVP_PKEY_assign_RSA != 1: 48
       Adopt("key_rsa"),            \* 12 key_evp_priv owns key_rsa
       Goto(16),                    \* 13
       Alloc("key_evp_priv"),       \* 14 ENGINE_load_private_key(...)
       IfNull("key_evp_priv", 39, {}), \* 15
       Alloc("cert_x509"),          \* 16 cert_x509 = X509_new()
       IfNull("cert_x509", 39, {}), \* 17 if (!cert_x509) goto error
       Call("cert_x509", 39, {}),   \* 18 X509_set_version
       Call("cert_x509", 39, {}),   \* 19 ASN1_INTEGER_set(serial)
       Call("cert_x509", 39, {}),   \* 20 X509_gmtime_adj(notBefore)
       Call("cert_x509", 39, {}),   \* 21 X509_gmtime_adj(notAfter)
       Alloc("key_evp_pub"),        \* 22 key_evp_pub = X509_REQ_get_pubkey
       IfNull("key_evp_pub", 39, {}), \* 23
       Call("cert_x509", 39, {}),   \* 24 X509_set_pubkey
       Call("csr_x509", 39, {}),    \* 25 X509_REQ_get_subject_name == NULL
       Alloc("cert_name"),          \* 26 cert_name = X509_NAME_dup(csr_name)
       IfNull("cert_name", 39, {}), \* 27 if (!cert_name) goto error
       Call("cert_x509", 39, {}),   \* 28 X509_set_subject_name (copies)
       Call("cert_x509", 39, {}),   \* 29 X509_set_issuer_name
       Alloc("ext_stack"),          \* 30 ext_stack = X509_REQ_get_extensions
       Branch(34),                  \* 31 for (i < sk_num(ext_stack)) {
       Call("cert_x509", 39, {}),   \* 32   X509_add_ext fails: goto error
       Goto(31),                    \* 33 }
       Call("cert_x509", 39, {}),   \* 34 X509_sign
       Alloc("cert"),               \* 35 cert = BIO_new_file(cert_file)
       IfNull("cert", 39, {}),      \* 36 if (!cert) goto error
       Call("cert", 39, {}),        \* 37 PEM_write_bio_X509
       Set(0),                      \* 38 ret = 0
       Free("csr"),                 \* 39 error: if (csr) BIO_free(csr)
       Free("cert"),                \* 40 if (cert) BIO_free(cert)
       Free("key"),                 \* 41 if (key) BIO_free(key)
       Free("key_evp_priv"),        \* 42 EVP_PKEY_free(key_evp_priv)
       Free("cert_x509"),           \* 43 X509_free(cert_x509)
       Free("csr_x509"),            \* 44 X509_REQ_free(csr_x509)
       Free("key_evp_pub"),         \* 45 EVP_PKEY_free(key_evp_pub)
       Free("ext_stack"),           \* 46 sk_X509_EXTENSION_pop_free
       Return({}),                  \* 47 return ret
       Free("key_rsa"),             \* 48 RSA_free(key_rsa)
       Goto(39) >>                  \* 49 goto error

(* ssl_verify_signature_from_buf: ssl_hash_buf may return NULL, and     *)
(* ssl_verify_signature_from_digest begins with ASSERT(hash).           *)
SslVerifySignatureFromBuf ==
    << Set(0),                      \* 1  ret = 0
       Alloc("mem"),                \* 2  mem = BIO_new(BIO_s_mem())
       Alloc("cert"),               \* 3  cert = PEM_read_bio_X509(mem)
       Free("mem"),                 \* 4  BIO_free(mem)
       Alloc("hash"),               \* 5  hash = ssl_hash_buf(...)
       Deref("hash"),               \* 6  ssl_verify_signature_from_digest(
       Call(None, 8, {-2}),         \* 7    ..., hash, ...) < 0: ret = -2
       Free0("hash"),               \* 8  mem_free0(hash)
       Free("cert"),                \* 9  if (cert) X509_free(cert)
       Return({}) >>                \* 10 return ret

(* ssl_verify_signature: nothing it allocates is freed. *)
SslVerifySignature ==
    << Mem("cert_buf"),             \* 1  cert_buf = mem_alloc0(cert_len)
       Call(None, 9, {}),           \* 2  file_read < 0: return -1
       Mem("sig_buf"),              \* 3  sig_buf = mem_alloc0(sig_len)
       Call(None, 9, {}),           \* 4  file_read < 0: return -1
       Alloc("hash"),               \* 5  hash = ssl_hash_file(...)
       IfNull("hash", 9, {}),       \* 6  if (!hash) return -1
       Call(None, 8, {-1}),         \* 7  ret = ssl_verify_signature_from_digest
       Return({}),                  \* 8  return ret
       Return({-1}) >>              \* 9  return -1

(* ssl_aes_ctr_init_encrypt and ssl_aes_ctr_init_decrypt: return ctx  *)
(* (0) or NULL (-1).                                                  *)
SslAesCtrInitEncrypt ==
    << Branch(11),                  \* 1  unsupported keylen: return NULL
       Branch(11),                  \* 2  ivlen mismatch: return NULL
       Alloc("ctx"),                \* 3  ctx = EVP_CIPHER_CTX_new()
       IfNull("ctx", 11, {}),       \* 4  if (!ctx) return NULL
       Call("ctx", 9, {}),          \* 5  EVP_CIPHER_CTX_init fails: out
       Call("ctx", 9, {}),          \* 6  EVP_{En,De}cryptInit_ex fails: out
       Give("ctx"),                 \* 7  return ctx
       Return({0}),                 \* 8
       Free("ctx"),                 \* 9  out: EVP_CIPHER_CTX_free(ctx)
       Return({-1}),                \* 10 return NULL
       Return({-1}) >>              \* 11 return NULL

SslAesCtrInitDecrypt == SslAesCtrInitEncrypt

=============================================================================
