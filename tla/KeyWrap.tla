------------------------------ MODULE KeyWrap ------------------------------
(***************************************************************************)
(* Key wrapping between hardware identities (csi-core/src/crypto.rs).      *)
(*                                                                         *)
(* A hardware identity key (HIK) is an X25519 pair.  The model names the   *)
(* pair itself: whoever holds the secret holds the public half too, and    *)
(* no operation below confuses the two.  Diffie-Hellman agreement is       *)
(* symmetric in the two pairs, so the agreed secret is the SET of the two  *)
(* pairs (a singleton when a device agrees with itself).  The nonce and    *)
(* the ciphertext are abstracted: a wrapped key opens under exactly the    *)
(* secret that sealed it, which is what the AEAD tag guarantees.           *)
(***************************************************************************)

(* secret.diffie_hellman(public) *)
DiffieHellman(secret, public) == {secret, public}

(* PersonalNetworkKey::wrap: seal key for target under the sender's secret. *)
Wrap(key, target, sender) ==
  [key |-> key, shared |-> DiffieHellman(sender, target)]

(* PersonalNetworkKey::unwrap succeeds iff the recipient's secret agrees   *)
(* with the sender's public key on the secret that sealed the key.         *)
Opens(wrapped, sender, recipient) ==
  wrapped.shared = DiffieHellman(recipient, sender)

(* What every caller in csid does: it passes the recipient's own public    *)
(* key where unwrap expects the sender's.                                  *)
OpensWithOwn(wrapped, identity) == Opens(wrapped, identity, identity)
=============================================================================
