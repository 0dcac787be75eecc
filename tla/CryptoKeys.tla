----------------------------- MODULE CryptoKeys -----------------------------
(***************************************************************************)
(* The keys a script makes, copies and hides in one another with           *)
(* crypto.subtle (crates/ferrijs-std/src/crypto/subtle).                   *)
(*                                                                         *)
(* A key is what its fields say: structured_clone yields the same one.     *)
(* What the script has seen of keys is the encodings it was given, the     *)
(* ones it exported and the bits it derived; wrapped keys are of use only  *)
(* to the key that unwraps them.  Signing and encrypting change none of    *)
(* this: the rules they pass come first, and the properties are about them *)
(* too.                                                                    *)
(*                                                                         *)
(* A key's handle is its material, <<id, half>>, in the shape the provider *)
(* keeps it in: the length of plain bytes, a point, a seed or one of the   *)
(* DER structures; "pkcs8+" is a PKCS#8 that carries the public key.       *)
(* An encoding is material outside a key.  Hashes, curves and lengths are  *)
(* one each: every EC key is on one curve, every AES key has 256 bits.     *)
(* What may be refused is a set with at most one element.                  *)
(***************************************************************************)
EXTENDS Naturals, FiniteSets

-----------------------------------------------------------------------------
(* What keys may do, what they are imported from and exported as. *)

Aes == {"AES-CBC", "AES-CTR", "AES-GCM", "AES-KW"}
Ec == {"ECDH", "ECDSA"}
Okp == {"Ed25519", "X25519"}
Rsa == {"RSA-OAEP", "RSA-PSS", "RSASSA-PKCS1-v1_5"}
MlDsa == {"ML-DSA-44", "ML-DSA-65", "ML-DSA-87"}
MlKem == {"ML-KEM-512", "ML-KEM-768", "ML-KEM-1024"}
HybridKem == {"MLKEM768-P256", "MLKEM768-X25519", "MLKEM1024-P384"}
Kem == MlKem \union HybridKem
Modern == MlDsa \union Kem
Derivation == {"HKDF", "PBKDF2"}
Symmetric == Aes \union {"HMAC", "ChaCha20-Poly1305"}
Asymmetric == Ec \union Okp \union Rsa \union Modern
Signing == {"HMAC", "ECDSA", "Ed25519", "RSA-PSS", "RSASSA-PKCS1-v1_5"} \union MlDsa
Encrypting == Aes \union {"ChaCha20-Poly1305", "RSA-OAEP"}
Deriving == {"ECDH", "X25519"} \union Derivation

Formats == {"jwk", "raw", "raw-private", "raw-public", "raw-secret", "raw-seed", "spki", "pkcs8"}

-----------------------------------------------------------------------------
(* Usages *)

\* The KeyUsageAlgorithm each algorithm asks for.
UsageAlgorithm(name) ==
    CASE name = "AES-KW" -> "AesKw"
      [] name \in Aes \ {"AES-KW"} \/ name = "ChaCha20-Poly1305" -> "Symmetric"
      [] name = "HMAC" -> "Hmac"
      [] name \in {"ECDH", "X25519"} -> "DeriveAsymmetric"
      [] name \in Derivation -> "DeriveSymmetric"
      [] name = "RSA-OAEP" -> "RsaOaep"
      [] name \in Kem -> "MlKem"
      [] OTHER -> "Sign"

\* What a private key and what any other may be used for.
MaskTable ==
    [AesKw |-> [private |-> {}, public |-> {"wrapKey", "unwrapKey"}],
     Symmetric |-> [private |-> {}, public |-> {"encrypt", "decrypt", "wrapKey", "unwrapKey"}],
     Hmac |-> [private |-> {}, public |-> {"sign", "verify"}],
     DeriveAsymmetric |-> [private |-> {"deriveKey", "deriveBits"}, public |-> {}],
     DeriveSymmetric |-> [private |-> {}, public |-> {"deriveKey", "deriveBits"}],
     RsaOaep |-> [private |-> {"decrypt", "unwrapKey"}, public |-> {"encrypt", "wrapKey"}],
     Sign |-> [private |-> {"sign"}, public |-> {"verify"}],
     MlKem |-> [private |-> {"decapsulateKey", "decapsulateBits"},
                public |-> {"encapsulateKey", "encapsulateBits"}]]

Masks(name) == MaskTable[UsageAlgorithm(name)]

\* classify_and_check_usages; `kind' is "any" until the key is known.  Its last
\* check repeats the first two.
Classified(name, kind, asked) ==
    LET private == IF kind \in {"secret", "public"} THEN {} ELSE Masks(name).private
        public == IF kind = "private" THEN {} ELSE Masks(name).public
    IN  IF asked \subseteq private \union public /\ (asked = {} => kind = "public")
        THEN {[private |-> asked \intersect private, public |-> asked \intersect public]}
        ELSE {}

\* The usage that stands for none asked.
SyntheticUsage(name) ==
    CASE name = "AES-KW" -> "wrapKey"
      [] name \in Encrypting \ {"AES-KW"} -> "encrypt"
      [] name \in Deriving -> "deriveKey"
      [] name \in Kem -> "encapsulateKey"
      [] OTHER -> "sign"

-----------------------------------------------------------------------------
(* Shapes *)

SeedShape(name) == IF name \in MlKem THEN "64" ELSE "32"

\* What the provider keeps of a key.
ShapesOf(name, kind) ==
    CASE name \in Aes \union {"ChaCha20-Poly1305"} -> {"32"}
      [] name \in Ec -> {IF kind = "private" THEN "pkcs8" ELSE "point"}
      [] name = "Ed25519" -> IF kind = "private" THEN {"pkcs8", "pkcs8+"} ELSE {"32"}
      [] name = "X25519" -> {"32"}
      [] name \in Rsa -> {"pkcs1"}
      [] name \in Modern -> {IF kind = "private" THEN SeedShape(name) ELSE name}
      [] OTHER -> {"32", "64", "point", "pkcs1"} \union Modern

\* generate_key: secret keys, and private keys by the shape of their handles.  An
\* Ed25519 key is generated without its public half.
GeneratedShape(name) ==
    CASE name = "HMAC" -> "64"
      [] name \in Ec \union {"Ed25519"} -> "pkcs8"
      [] name \in Rsa -> "pkcs1"
      [] name \in Modern -> SeedShape(name)
      [] OTHER -> "32"

PublicShape(name) == CHOOSE shape \in ShapesOf(name, "public") : TRUE

\* The public half of a private key's handle; an Ed25519 one must carry it.
PublicHandles(name, handle) ==
    IF name = "Ed25519" /\ handle.shape # "pkcs8+"
    THEN {}
    ELSE {[mat |-> <<handle.mat[1], "public">>, shape |-> PublicShape(name)]}

\* DER and JWK structures name an algorithm, but not always which of its kin.
DerType(name) ==
    IF name \in Ec THEN "EC" ELSE IF name \in Rsa THEN "RSA" ELSE name
JwkType(name) == IF name \in Ec THEN "EC" ELSE name

HasDer(name) == name \in Asymmetric \ HybridKem

-----------------------------------------------------------------------------
(* Import *)

Bytes(mat, shape) ==
    [form |-> "bytes", type |-> "none", kind |-> "none", shape |-> shape, ops |-> {}, mat |-> mat]

Read(kind, enc, shape) == {[kind |-> kind, handle |-> [mat |-> enc.mat, shape |-> shape]]}

\* What bytes are read as, if their length, or what they parse as, is right.
ReadBytes(kind, enc, shapes) ==
    IF enc.form = "bytes" /\ enc.shape \in shapes THEN Read(kind, enc, enc.shape) ELSE {}

\* Structured encodings of private keys keep the shape keys are generated in.
ReadDer(name, kind, enc) ==
    IF enc.form = (IF kind = "private" THEN "pkcs8" ELSE "spki") /\ enc.type = DerType(name)
    THEN Read(kind, enc,
              IF kind = "public" THEN PublicShape(name)
              ELSE IF name = "Ed25519" THEN enc.shape ELSE GeneratedShape(name))
    ELSE {}

ReadJwk(name, enc) ==
    IF enc.form = "jwk" /\ enc.type = JwkType(name)
    THEN Read(enc.kind, enc,
              CASE enc.kind = "secret" -> enc.shape
                [] enc.kind = "public" -> PublicShape(name)
                [] OTHER -> IF name = "Ed25519" THEN "pkcs8+" ELSE GeneratedShape(name))
    ELSE {}

ImportDeriveKey(format, enc) ==
    IF format \in {"raw", "raw-secret"}
    THEN ReadBytes("secret", enc, ShapesOf("HKDF", "secret"))
    ELSE {}

ImportSymmetricKey(name, format, enc) ==
    CASE format = "jwk" -> ReadJwk(name, enc)
      [] format \in {"raw", "raw-secret"} -> ReadBytes("secret", enc, ShapesOf("HMAC", "secret"))
      [] OTHER -> {}

\* from_aes: the length makes the key, and must be one of AES.
ImportAes(name, format, enc) ==
    {read \in ImportSymmetricKey(name, format, enc) : read.handle.shape = "32"}

\* from_hmac: any length there is.
ImportHmac(format, enc) == ImportSymmetricKey("HMAC", format, enc)

ImportChaCha(format, enc) ==
    CASE format = "jwk" -> ReadJwk("ChaCha20-Poly1305", enc)
      [] format = "raw-secret" -> ReadBytes("secret", enc, {"32"})
      [] OTHER -> {}

\* import_okp_key, import_ec_key and import_rsa_key
ImportKeyPair(name, format, enc) ==
    CASE format = "jwk" -> ReadJwk(name, enc)
      [] format \in {"raw", "raw-public"} -> ReadBytes("public", enc, {PublicShape(name)})
      [] format = "spki" -> ReadDer(name, "public", enc)
      [] format = "pkcs8" -> ReadDer(name, "private", enc)
      [] OTHER -> {}

\* from_hybrid_kem
ImportHybridKem(name, format, enc) ==
    CASE format = "jwk" -> ReadJwk(name, enc)
      [] format = "raw-public" -> ReadBytes("public", enc, {name})
      [] format = "raw-seed" -> ReadBytes("private", enc, {SeedShape(name)})
      [] OTHER -> {}

\* from_ml_dsa and from_ml_kem, which have DER too
ImportMl(name, format, enc) ==
    CASE format = "spki" -> ReadDer(name, "public", enc)
      [] format = "pkcs8" -> ReadDer(name, "private", enc)
      [] OTHER -> ImportHybridKem(name, format, enc)

Imported(name, format, enc) ==
    CASE name \in Derivation -> ImportDeriveKey(format, enc)
      [] name = "ChaCha20-Poly1305" -> ImportChaCha(format, enc)
      [] name = "HMAC" -> ImportHmac(format, enc)
      [] name \in Aes -> ImportAes(name, format, enc)
      [] name \in HybridKem -> ImportHybridKem(name, format, enc)
      [] name \in Modern \ HybridKem -> ImportMl(name, format, enc)
      [] OTHER -> ImportKeyPair(name, format, enc)

UsagesOf(kind, usages) == IF kind = "private" THEN usages.private ELSE usages.public

\* import_key: the algorithm's import, its usages, and what a JWK says of itself.
ImportKey(name, format, enc, extractable, asked) ==
    {[name |-> name, kind |-> read.kind, extractable |-> extractable,
      usages |-> asked, handle |-> read.handle] :
        read \in {r \in Imported(name, format, enc) :
                    /\ ~(extractable /\ name \in Derivation)
                    /\ \E usages \in Classified(name, r.kind, asked) :
                          enc.form = "jwk" => UsagesOf(r.kind, usages) \subseteq enc.ops}}

\* validate_import_algorithm, which comes first when a script imports a key.
ImportIsValid(name, format, extractable, asked) ==
    /\ Classified(name, "any", IF asked = {} THEN {SyntheticUsage(name)} ELSE asked) # {}
    /\ name \in Derivation => format \in {"raw", "raw-secret"} /\ ~extractable

-----------------------------------------------------------------------------
(* Export *)

ExportRaw(key) ==
    IF key.kind = "private" \/ key.name \in Rsa \union Modern
    THEN {}
    ELSE {Bytes(key.handle.mat, key.handle.shape)}

ExportDer(key, kind) ==
    IF HasDer(key.name) /\ key.kind = kind
    THEN {[form |-> IF kind = "private" THEN "pkcs8" ELSE "spki", type |-> DerType(key.name),
           kind |-> kind, shape |-> key.handle.shape, ops |-> {}, mat |-> key.handle.mat]}
    ELSE {}

ExportJwk(key) ==
    IF key.kind = "private" /\ PublicHandles(key.name, key.handle) = {}
    THEN {}
    ELSE {[form |-> "jwk", type |-> JwkType(key.name), kind |-> key.kind,
           shape |-> key.handle.shape, ops |-> key.usages, mat |-> key.handle.mat]}

\* What a key that may be exported is exported as.
Encoded(format, key) ==
    CASE format = "jwk" -> ExportJwk(key)
      [] format \in {"raw-public", "raw-seed"} /\ key.name \in Modern ->
            IF key.kind = (IF format = "raw-seed" THEN "private" ELSE "public")
            THEN {Bytes(key.handle.mat, key.handle.shape)}
            ELSE {}
      [] \/ format = "raw"
         \/ format = "raw-public" /\ key.name \notin Modern /\ key.kind # "secret"
         \/ format = "raw-secret" /\ key.kind = "secret" -> ExportRaw(key)
      [] format = "spki" -> ExportDer(key, "public")
      [] format = "pkcs8" -> ExportDer(key, "private")
      [] OTHER -> {}

\* Variant: of every key.
ExportKey_Any(format, key) == IF key.name \in Derivation THEN {} ELSE Encoded(format, key)

ExportKey(format, key) ==
    IF key.name \in Derivation \/ ~key.extractable THEN {} ELSE Encoded(format, key)

-----------------------------------------------------------------------------
(* Use: whether an operation under `alg' gets as far as the provider *)

\* subtle_sign and subtle_verify
Signs(key, alg) ==
    /\ key.name = alg /\ alg \in Signing /\ "sign" \in key.usages
    /\ key.kind = IF alg = "HMAC" THEN "secret" ELSE "private"
Verifies(key, alg) ==
    /\ key.name = alg /\ alg \in Signing /\ "verify" \in key.usages
    /\ key.kind = IF alg = "HMAC" THEN "secret" ELSE "public"

\* encrypt_decrypt: AES-KW, which only wraps, takes any key.
Encrypts(key, alg, wrapping) ==
    /\ alg \in Encrypting
    /\ CASE alg = "AES-KW" -> wrapping
         [] alg = "RSA-OAEP" -> key.name \in Rsa
         [] OTHER -> key.name = alg

\* derive_bits, and what DeriveAlgorithm asks of the other side's key.
Derives(key, alg, public) ==
    /\ key.name = alg /\ alg \in Deriving
    /\ alg \in {"ECDH", "X25519"} => public.name = alg /\ public.kind = "public"
    /\ alg = "ECDH" => key.kind = "private"

\* check_encapsulation_key
Encapsulates(key, alg, usage, kind) ==
    key.name = alg /\ alg \in Kem /\ usage \in key.usages /\ key.kind = kind

-----------------------------------------------------------------------------
\* subtle_supports, for algorithms with valid parameters.
Supports(operation, name) ==
    CASE operation = "generateKey" -> name \notin Derivation
      [] operation = "importKey" -> TRUE
      [] operation = "exportKey" -> name \notin Derivation
      [] operation \in {"sign", "verify"} -> name \in Signing
      [] operation \in {"encrypt", "decrypt"} -> name \in Encrypting \ {"AES-KW"}
      [] operation \in {"wrapKey", "unwrapKey"} -> name \in Encrypting
      [] operation \in {"deriveKey", "deriveBits"} -> name \in Deriving
      [] operation = "getPublicKey" -> name \in Asymmetric
      [] OTHER -> name \in Kem

-----------------------------------------------------------------------------
(* Keys in the hands of a script. *)

CONSTANTS
    Suites,         \* the names a behaviour is about, at a time
    Given,          \* encodings that come from elsewhere
    MaxKeys,        \* bound on the keys there are at a time
    MaxMade,        \* bound on the generations
    MaxSeen         \* bound on the encodings a script has, and on wrapped keys

VARIABLES
    suite,
    keys,           \* the CryptoKeys
    plain,          \* the encodings the script has
    wrapped,        \* the outputs of wrapKey: what, under which algorithm and material
    made,           \* generations so far
    sealed          \* those of keys made not extractable

vars == <<suite, keys, plain, wrapped, made, sealed>>

Init ==
    /\ suite \in Suites
    /\ keys = {} /\ wrapped = {} /\ made = 0 /\ sealed = {}
    /\ plain = Given

\* What a script may ask to use a key of this name for.
Asked(name) ==
    LET masks == Masks(name)
    IN  {{}, masks.private, masks.public, masks.private \union masks.public,
         {"sign", "encrypt"}}

Add(new) ==
    /\ Cardinality(keys \union new) <= MaxKeys
    /\ keys' = keys \union new

-----------------------------------------------------------------------------
(* Making keys *)

Learn(enc) ==
    /\ Cardinality(plain \union {enc}) <= MaxSeen
    /\ plain' = plain \union {enc}

Key(name, kind, extractable, usages, mat, shape) ==
    [name |-> name, kind |-> kind, extractable |-> extractable, usages |-> usages,
     handle |-> [mat |-> mat, shape |-> shape]]

\* subtle_generate_key: a secret key, or a pair whose public key is extractable.
GenerateKey(name, extractable, asked) ==
    /\ made < MaxMade /\ name \notin Derivation
    /\ \E usages \in Classified(name, "any", asked) :
          Add(IF name \in Symmetric
              THEN {Key(name, "secret", extractable, usages.public,
                        <<made + 1, "secret">>, GeneratedShape(name))}
              ELSE {Key(name, "private", extractable, usages.private,
                        <<made + 1, "secret">>, GeneratedShape(name)),
                    Key(name, "public", TRUE, usages.public,
                        <<made + 1, "public">>, PublicShape(name))})
    /\ made' = made + 1
    /\ sealed' = IF extractable THEN sealed ELSE sealed \union {made + 1}
    /\ UNCHANGED <<suite, plain, wrapped>>

AddImported(name, format, enc, extractable, asked) ==
    \E key \in ImportKey(name, format, enc, extractable, asked) : Add({key})

SubtleImportKey(name, format, enc, extractable, asked) ==
    /\ ImportIsValid(name, format, extractable, asked)
    /\ AddImported(name, format, enc, extractable, asked)
    /\ UNCHANGED <<suite, plain, wrapped, made, sealed>>

\* A key nobody refers to any more is collected.
Release(key) ==
    /\ keys' = keys \ {key}
    /\ UNCHANGED <<suite, plain, wrapped, made, sealed>>

SubtleExportKey(format, key) ==
    /\ \E enc \in ExportKey(format, key) : Learn(enc)
    /\ UNCHANGED <<suite, keys, wrapped, made, sealed>>

\* subtle_get_public_key: what a private key gives away is extractable.
GetPublicKey(key, asked) ==
    /\ key.name \in Asymmetric /\ key.kind = "private"
    /\ \E usages \in Classified(key.name, "public", asked),
          handle \in PublicHandles(key.name, key.handle) :
          Add({Key(key.name, "public", TRUE, usages.public, handle.mat, handle.shape)})
    /\ UNCHANGED <<suite, plain, wrapped, made, sealed>>

-----------------------------------------------------------------------------
(* Hiding keys *)

\* Padding to the blocks of AES-KW is undone for JWK alone: a DER encoding need not
\* come back.
WrapKey(format, key, wrapping, alg) ==
    /\ Cardinality(wrapped) < MaxSeen
    /\ "wrapKey" \in wrapping.usages /\ Encrypts(wrapping, alg, TRUE)
    /\ \E enc \in ExportKey(format, key) :
          wrapped' = wrapped \union {[enc |-> enc, alg |-> alg, under |-> wrapping.handle.mat[1]]}
    /\ UNCHANGED <<suite, keys, plain, made, sealed>>

\* subtle_unwrap_key, which leaves out validate_import_algorithm.
Opens(unwrapping, w) ==
    /\ "unwrapKey" \in unwrapping.usages /\ Encrypts(unwrapping, w.alg, TRUE)
    /\ w.under = unwrapping.handle.mat[1]

UnwrapKey(w, format, unwrapping, name, extractable, asked) ==
    /\ Opens(unwrapping, w)
    /\ AddImported(name, format, w.enc, extractable, asked)
    /\ UNCHANGED <<suite, plain, wrapped, made, sealed>>

-----------------------------------------------------------------------------
(* Deriving secrets.  A secret derived from a key says nothing of the key.  *)

Derived(key) == <<key.handle.mat[1], "derived">>

DerivedShape(name) == IF name = "HMAC" THEN "64" ELSE "32"

DeriveBits(key, public) ==
    /\ Derives(key, key.name, public) /\ "deriveBits" \in key.usages
    /\ Learn(Bytes(Derived(key), "32"))
    /\ UNCHANGED <<suite, keys, wrapped, made, sealed>>

\* A key to derive from has no length of its own, and HKDF and PBKDF2 want one.
SubtleDeriveKey(key, public, name, extractable, asked) ==
    /\ Derives(key, key.name, public) /\ "deriveKey" \in key.usages
    /\ name \in Symmetric \union Derivation
    /\ key.name \in Derivation => name \in Symmetric
    /\ AddImported(name, "raw-secret", Bytes(Derived(key), DerivedShape(name)), extractable, asked)
    /\ UNCHANGED <<suite, plain, wrapped, made, sealed>>

\* Both halves of a pair come to the same secret.
KemBits(key) ==
    /\ \/ Encapsulates(key, key.name, "encapsulateBits", "public")
       \/ Encapsulates(key, key.name, "decapsulateBits", "private")
    /\ Learn(Bytes(Derived(key), "32"))
    /\ UNCHANGED <<suite, keys, wrapped, made, sealed>>

KemKey(key, name, extractable, asked) ==
    /\ \/ Encapsulates(key, key.name, "encapsulateKey", "public")
       \/ Encapsulates(key, key.name, "decapsulateKey", "private")
    /\ AddImported(name, "raw-secret", Bytes(Derived(key), "32"), extractable, asked)
    /\ UNCHANGED <<suite, plain, wrapped, made, sealed>>

\* The encodings a name and a format make anything of.
ReadableAs(name, format, encodings) == {enc \in encodings : Imported(name, format, enc) # {}}

Next ==
    \/ \E name \in suite, format \in Formats : \E enc \in ReadableAs(name, format, plain) :
          \E extractable \in BOOLEAN, asked \in Asked(name) :
              SubtleImportKey(name, format, enc, extractable, asked)
    \/ \E w \in wrapped, name \in suite, format \in Formats : \E enc \in ReadableAs(name, format, {w.enc}) :
          \E key \in keys, extractable \in BOOLEAN, asked \in Asked(name) :
              UnwrapKey(w, format, key, name, extractable, asked)
    \/ \E name \in suite, extractable \in BOOLEAN : \E asked \in Asked(name) :
          \/ GenerateKey(name, extractable, asked)
          \/ \E key, public \in keys : SubtleDeriveKey(key, public, name, extractable, asked)
          \/ \E key \in keys : KemKey(key, name, extractable, asked)
    \/ \E key \in keys :
          \/ Release(key)
          \/ \E format \in Formats : SubtleExportKey(format, key)
          \/ \E asked \in Asked(key.name) : GetPublicKey(key, asked)
          \/ \E wrapping \in {k \in keys : "wrapKey" \in k.usages}, alg \in suite, format \in Formats :
                WrapKey(format, key, wrapping, alg)
          \/ \E public \in keys : DeriveBits(key, public)
          \/ KemBits(key)

Spec == Init /\ [][Next]_vars

-----------------------------------------------------------------------------
(* Properties *)

\* What a key may be used for is right for its half, though operations look at the
\* usages and not at the half (classify_and_check_usages).
UsagesFit ==
    \A key \in keys :
        key.usages \subseteq
            IF key.kind = "private" THEN Masks(key.name).private ELSE Masks(key.name).public

\* The provider finds what it expects in every handle, however the key came about.
HandlesFit == \A key \in keys : key.handle.shape \in ShapesOf(key.name, key.kind)

\* The secret of a key made not extractable stays in keys that are not.
SealedStaySealed ==
    LET secrets == {<<id, "secret">> : id \in sealed}
    IN  /\ \A enc \in plain : enc.mat \notin secrets
        /\ \A w \in wrapped : w.enc.mat \notin secrets
        /\ \A key \in keys : key.extractable => key.handle.mat \notin secrets

\* What a key is exported as comes back as the key, except that a secret of
\* ChaCha20-Poly1305 is exported as "raw" and not imported as such.
ComesBack(key, format) ==
    \A enc \in ExportKey(format, key) :
        \/ key.name = "ChaCha20-Poly1305" /\ format = "raw"
        \/ \E back \in ImportKey(key.name, format, enc, TRUE, key.usages) :
              back.kind = key.kind /\ back.handle.mat = key.handle.mat

ExportsComeBack ==
    \A key \in keys, format \in Formats :
        (key.kind = "private" => key.usages # {}) => ComesBack(key, format)

CipherUsages == {"encrypt", "decrypt", "wrapKey", "unwrapKey"}

\* An operation that reaches the provider has the half it needs, and is one that
\* supports() knows of; AES-KW alone takes keys of other names.
OperationsFit ==
    \A key \in keys :
        /\ \A alg \in suite, usage \in key.usages \intersect CipherUsages :
              Encrypts(key, alg, usage \in {"wrapKey", "unwrapKey"}) =>
                  /\ Supports(usage, alg)
                  /\ alg = "AES-KW" \/ alg = key.name
                  /\ alg = "RSA-OAEP" =>
                       (key.kind = "private" <=> usage \in {"decrypt", "unwrapKey"})
        /\ \A alg \in suite : Signs(key, alg) \/ Verifies(key, alg) => Supports("sign", alg)
        /\ \A public \in keys :
              Derives(key, key.name, public) /\ key.usages # {} /\ key.name \in Asymmetric =>
                  key.kind = "private" /\ public.kind = "public"
        /\ \A format \in Formats : ExportKey(format, key) # {} => Supports("exportKey", key.name)

KeysAreSound ==
    UsagesFit /\ HandlesFit /\ SealedStaySealed /\ ExportsComeBack /\ OperationsFit

-----------------------------------------------------------------------------
(* The inductive invariant *)

Names == Symmetric \union Asymmetric \union Derivation
KindsOf(name) == IF name \in Asymmetric THEN {"private", "public"} ELSE {"secret"}

\* A key as import_key and generate_key make one.
IsKey(key) ==
    /\ key.name \in Names /\ key.kind \in KindsOf(key.name)
    /\ key.usages \subseteq
          IF key.kind = "private" THEN Masks(key.name).private ELSE Masks(key.name).public
    /\ key.kind = "secret" => key.usages # {}
    /\ key.handle.shape \in ShapesOf(key.name, key.kind)

\* An encoding as export_key makes one, or as another library would.
IsEncoding(enc) ==
    /\ enc.form = "jwk" =>
          \E name \in Symmetric \union Asymmetric :
             /\ enc.type = JwkType(name) /\ enc.kind \in KindsOf(name)
             /\ enc.kind = "secret" => enc.shape \in ShapesOf(name, "secret")
    /\ enc.form = "pkcs8" /\ enc.type = "Ed25519" => enc.shape \in {"pkcs8", "pkcs8+"}

\* Material of a key that was made, 0 for what comes from elsewhere.
Known(mat, last) == \E id \in 0..last, half \in {"secret", "public", "derived"} : mat = <<id, half>>

Secrets(ids) == {<<id, "secret">> : id \in ids}

\* Whatever holds of keys holds of what is outside them too: no secret of a sealed
\* key is in an extractable one or in an encoding.
IInv ==
    /\ suite \subseteq Names /\ made \in Nat /\ sealed \subseteq 1..made
    /\ \A key \in keys :
          IsKey(key) /\ Known(key.handle.mat, made) /\ (key.extractable => key.handle.mat \notin Secrets(sealed))
    /\ \A enc \in plain : IsEncoding(enc) /\ Known(enc.mat, made) /\ enc.mat \notin Secrets(sealed)
    /\ \A w \in wrapped : IsEncoding(w.enc) /\ Known(w.enc.mat, made) /\ w.enc.mat \notin Secrets(sealed)
=============================================================================
