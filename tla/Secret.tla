------------------------------- MODULE Secret -------------------------------
(***************************************************************************)
(* internal/secret: sealing a credential so that it opens only in the      *)
(* place it was sealed for.  Strings are sequences of bytes, because the   *)
(* binding rests on how they are joined.  The cipher is the standard       *)
(* library's and is taken as ideal: a blob opens under the key and the     *)
(* additional data it was sealed with, or not at all.  Nonces and layout   *)
(* are left out; the length of the key is checked once, at boot.           *)
(***************************************************************************)
EXTENDS Naturals, Sequences

CONSTANTS
    Domain,   \* aadDomain, a sequence of bytes
    NoText    \* the error of Open, ErrInvalidBlob or ErrDecryptionFailed

(* Plausible bug: a plain join, which two places may share.                *)
JoinedAAD(providerID, fieldName) == Domain \o <<0>> \o providerID \o fieldName

(* "aud/cred/v1" 0x00 providerID 0x00 fieldName                            *)
AAD(providerID, fieldName) ==
    Domain \o <<0>> \o providerID \o <<0>> \o fieldName

Seal(key, plaintext, aad) ==
    [intact |-> TRUE, key |-> key, aad |-> aad, plaintext |-> plaintext]

(* A blob that is too short, of another version, or altered in any byte.   *)
Altered(blob) == [blob EXCEPT !.intact = FALSE]

Open(key, blob, aad) ==
    IF blob.intact /\ blob.key = key /\ blob.aad = aad THEN blob.plaintext ELSE NoText
=============================================================================
