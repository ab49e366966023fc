--------------------------- MODULE WebAuthentication ---------------------------
(***************************************************************************)
(* The checks of an Authorization header.  Base64 and MD5 are injective:   *)
(* the term stands for its encoding.  A value of a digest header is a      *)
(* tuple: one string, or an MD5 term.  Its parts are what the commas       *)
(* separate: a part with no name has no equals sign in it, a part named    *)
(* "," is empty.                                                           *)
(***************************************************************************)
EXTENDS Integers, Sequences, FiniteSets, SequencesExt

MD5(x) == <<"md5", x>>

CheckBasic(auth, user, password) == auth.user = user /\ auth.password = password

-----------------------------------------------------------------------------
(* Digests *)

\* The loop over the parts ends at an empty one.
Read(parts, i) == \A j \in 2..i : parts[j].name # ","
Named(parts, name) == {i \in DOMAIN parts : Read(parts, i) /\ parts[i].name = name}

\* The last value of a name counts.
Value(parts, name) ==
  LET I == Named(parts, name)
  IN IF I = {} THEN <<>> ELSE parts[CHOOSE i \in I : \A j \in I : j <= i].value

ResponseTo(parts, method, ha1) ==
  MD5(<<ha1, Value(parts, "nonce"), Value(parts, "nc"), Value(parts, "cnonce"), Value(parts, "qop"),
        MD5(<<method, Value(parts, "uri")>>)>>)

\* checkDigestAuthentication: whose it is and for which realm is compared where the
\* header says so.  Realms is the set of those allowed, {} for any.
CheckDigest(auth, method, user, realms, ha1) ==
  LET parts == auth.parts IN
  /\ Len(parts) > 1
  /\ \A i \in DOMAIN parts : Read(parts, i) => parts[i].name \notin {"", ","}
  /\ \A i \in Named(parts, "username") : parts[i].value = <<user>>
  /\ realms # {} => \A i \in Named(parts, "realm") : parts[i].value \in realms
  /\ Value(parts, "response") = ResponseTo(parts, method, ha1)

HashOf(user, realm, password) == MD5(<<user, realm, password>>)

\* With a password as the handlers have it, for any realm.
CheckPassword(auth, method, user, password) ==
  CheckDigest(auth, method, user, {}, HashOf(Value(auth.parts, "username"), Value(auth.parts, "realm"), password))

\* generateDigestHash: a user and a realm with the hash of both and the password.
GenerateDigestHash(user, realm, password) ==
  [scheme |-> "digest", user |-> user, realm |-> realm, ha1 |-> HashOf(<<user>>, realm, password)]

CheckHash(auth, method, hash) == CheckDigest(auth, method, hash.user, {hash.realm}, hash.ha1)
=============================================================================
