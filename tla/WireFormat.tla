----------------------------- MODULE WireFormat -----------------------------
(***************************************************************************)
(* The document a vault's content is stored and replicated as, which the    *)
(* service writes and reads in TypeScript (encryption/serialize.ts,         *)
(* EncryptionCipher.ts) and the clients in C# (VaultContent.cs,             *)
(* AuthenticationContext.cs, ValidationContext.cs): two implementations of  *)
(* one layout of three layers, the signed document, the encrypted payload   *)
(* and the private key with the entries.                                    *)
(*                                                                          *)
(* Bytes are sequences of units of four.  An int32 is one unit; what the    *)
(* layout does not look into, a seed, a key, a text, a signature or a       *)
(* ciphertext, is a run of equal units, of a length of its own.  The        *)
(* cryptography does what it promises.                                      *)
(***************************************************************************)
EXTENDS Naturals, Sequences

CONSTANTS
  Vault,     \* key pairs, each of which is a vault's
  Password,  \* passwords, of ASCII characters
  Text,      \* entries, as JSON
  Ascii,     \* those of ASCII characters
  Garbled    \* what is left of the others where they are read as ASCII

ASSUME WireAssumption == Ascii \subseteq Text /\ Garbled \notin Text

Slice(b, from, to) == SubSeq(b, from + 1, IF to < Len(b) THEN to ELSE Len(b))
From(b, from) == Slice(b, from, Len(b))
HasInt(b, at) == at < Len(b)
IntAt(b, at) == b[at + 1]

Run(x, n) == [k \in 1..n |-> x]

-----------------------------------------------------------------------------
\* The cryptography of both sides.

\* pbkdf2 of a password.
DerivedKey(p, salt, rounds, size, hash) ==
  [password |-> p, salt |-> salt, rounds |-> rounds, size |-> size, hash |-> hash]

\* AES-192-CBC.
Enciphered(k, seed, plain) == Run([under |-> k, seed |-> seed, plain |-> plain], 8)
Plain(b) == b[1].plain
Deciphers(k, seed, b) == Len(b) = 8 /\ b = Enciphered(k, seed, Plain(b))

\* ECDSA over SHA-512, as DER.
Signature(v, payload) == Run([by |-> v, over |-> payload], 7)

Seed == Run("seed", 4)
Key(v) == Run([key |-> v], 5)

\* A text in JSON: C# escapes what is not ASCII.
Raw(t) == Run([text |-> t, escaped |-> FALSE], 2)
Escaped(t) == Run([text |-> t, escaped |-> TRUE], 3)

-----------------------------------------------------------------------------
\* TypeScript: what the shell writes, and what the service reads.

JsKey(p) == DerivedKey(p, "munkey-salt", 64000, 24, "sha256")

JoinKey(data, key) == <<Len(key)>> \o key \o <<Len(data)>> \o data

SplitKey(b) ==
  LET keySize == IntAt(b, 0)
      keyStart == From(b, 1)
      dataSize == IntAt(keyStart, keySize)
  IN  [key |-> Slice(keyStart, 0, keySize),
       data |-> Slice(From(keyStart, 1 + keySize), 0, dataSize)]

WrapPayload(seed, vault) == <<0, 0, Len(seed), Len(vault)>> \o seed \o vault

UnwrapPayload(b) ==
  LET seedStart == From(b, 4)
      vaultStart == From(seedStart, IntAt(b, 2))
  IN  [seed |-> Slice(seedStart, 0, IntAt(b, 2)), vault |-> Slice(vaultStart, 0, IntAt(b, 3))]

\* Mutant of Serialize: the sizes change places.
SerializeSwapped(signature, payload) ==
  <<0, 0, Len(payload), Len(signature)>> \o signature \o payload

\* The header: version, signature algorithm, and the two sizes.
Serialize(signature, payload) ==
  <<0, 0, Len(signature), Len(payload)>> \o signature \o payload

\* Anything but version 0 gives null, and a header cut short throws; whoever
\* asked fails on either.
Readable(b) == HasInt(b, 0) /\ IntAt(b, 0) = 0 /\ HasInt(From(b, 1), 2)

Deserialize(b) ==
  LET content == From(b, 1)
      start == From(content, 3)
      signatureSize == IntAt(content, 1)
  IN  [algorithm |-> IntAt(content, 0),
       signature |-> Slice(start, 0, signatureSize),
       payload |-> Slice(start, signatureSize, signatureSize + IntAt(content, 2))]

Validate(dataset, v) ==
  dataset.algorithm = 0 /\ dataset.signature = Signature(v, dataset.payload)

JsSeal(v, p, t) ==
  LET data == JoinKey(Raw(t), Key(v))
      payload == WrapPayload(Seed, Enciphered(JsKey(p), Seed, data))
  IN  Serialize(Signature(v, payload), payload)

\* Whether a document of vault v opens with password p, and what is in it.
JsOpens(v, p, b) ==
  /\ Readable(b) /\ Validate(Deserialize(b), v)
  /\ LET wrapped == UnwrapPayload(Deserialize(b).payload)
     IN  Deciphers(JsKey(p), wrapped.seed, wrapped.vault)

JsContent(b) ==
  LET split == SplitKey(Plain(UnwrapPayload(Deserialize(b).payload).vault))
  IN  [key |-> split.key, text |-> split.data[1].text]

-----------------------------------------------------------------------------
\* C#: what the clients write and read.

CsKey(p) == DerivedKey(p, "munkey-salt", 64000, 24, "sha256")

\* ReadBytes(n) at a place, where there may be fewer; Read(new byte[n]) fills
\* what is missing with zeroes.
ReadBytes(b, at, n) == Slice(b, at, at + n)
Fill(b, at, n) == [k \in 1..n |-> IF at + k <= Len(b) THEN b[at + k] ELSE 0]

CsPayload(seed, vault) == <<0, 0, Len(seed), Len(vault)>> \o seed \o vault

CsDataset(signature, payload) ==
  <<0, 0, Len(signature), Len(payload)>> \o signature \o payload

\* Version and algorithm are read, and not looked at.
CsReadable(b) == Len(b) >= 4

CsDeserialize(b) ==
  [signature |-> ReadBytes(b, 4, IntAt(b, 2)),
   payload |-> ReadBytes(b, 4 + IntAt(b, 2), IntAt(b, 3))]

CsUnwrap(b) ==
  [seed |-> Fill(b, 4, IntAt(b, 2)), vault |-> Fill(b, 4 + IntAt(b, 2), IntAt(b, 3))]

CsValidate(dataset, v) == dataset.signature = Signature(v, dataset.payload)

CsSeal(v, p, t) ==
  LET plain == <<Len(Key(v))>> \o Key(v) \o <<Len(Escaped(t))>> \o Escaped(t)
      payload == CsPayload(Seed, Enciphered(CsKey(p), Seed, plain))
  IN  CsDataset(Signature(v, payload), payload)

\* Encoding.ASCII.GetString, and the JSON parser.
CsText(data) ==
  IF data[1].escaped \/ data[1].text \in Ascii THEN data[1].text ELSE Garbled

CsOpens(v, p, b) ==
  /\ CsReadable(b) /\ CsValidate(CsDeserialize(b), v)
  /\ LET payload == CsUnwrap(CsDeserialize(b).payload)
     IN  Deciphers(CsKey(p), payload.seed, payload.vault)

CsContent(b) ==
  LET plain == Plain(CsUnwrap(CsDeserialize(b).payload).vault)
      keySize == IntAt(plain, 0)
  IN  [key |-> ReadBytes(plain, 1, keySize),
       text |-> CsText(ReadBytes(plain, keySize + 2, IntAt(plain, keySize + 1)))]
=============================================================================
