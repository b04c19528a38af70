-------------------------- MODULE CapabilityTokens --------------------------
(***************************************************************************)
(* Capability tokens, src/lib/capability-token.ts: stateless claims signed *)
(* under a named key, checked against the clock of whichever server        *)
(* process a request reaches.                                              *)
(*                                                                         *)
(* Time is counted in whole seconds.  Every server reads a clock of its    *)
(* own, off by at most Skew from the true time, so a reading is any value  *)
(* that far around it.  The HMAC is abstracted: a token is its claims, or  *)
(* Malformed if they are not what was signed.                              *)
(***************************************************************************)
EXTENDS Integers

CONSTANTS
  Expiry,      \* expirySeconds
  Tolerance,   \* clockToleranceSeconds
  Skew,        \* how far a server's clock may be off
  Issuer,      \* the identities tokens are issued under
  issuer,      \* the one this deployment checks
  Malformed,   \* text that is no token, or whose signature does not fit
  Nobody       \* no verified artifactId

ASSUME LifetimeAssumption ==
  Expiry \in Nat /\ Tolerance \in Nat /\ Skew \in Nat /\ issuer \in Issuer

\* What a server may read on its clock when the true time is t.
Readings(t) == (t - Skew)..(t + Skew)

\* issueCapabilityToken for artifact a under key k, at reading now; with it, as history,
\* the true time t, which nothing reads.
Issued(a, k, now, t) ==
  [artifactId |-> a, iat |-> now, exp |-> now + Expiry, kid |-> k, issuer |-> issuer,
   at |-> t]

\* (Mistake: the tolerance widens the expiry only, iat is compared as it is.)
AcceptsStrictly(t, now, keys) ==
  /\ t # Malformed
  /\ t.kid \in keys
  /\ t.iat <= now
  /\ t.exp >= now - Tolerance
  /\ t.issuer = issuer

\* (Mistake: the expiry is not checked.)
AcceptsForever(t, now, keys) ==
  /\ t # Malformed
  /\ t.kid \in keys
  /\ t.iat <= now + Tolerance
  /\ t.issuer = issuer

\* verifyCapabilityToken at reading now by a process that knows these keys.
Accepts(t, now, keys) ==
  /\ t # Malformed
  /\ t.kid \in keys
  /\ t.iat <= now + Tolerance
  /\ t.exp >= now - Tolerance
  /\ t.issuer = issuer
Verified(t, now, keys) == IF Accepts(t, now, keys) THEN t.artifactId ELSE Nobody

\* extractToken: the Authorization header, or else the token of a watch URL.
Presented(header, query) == IF header # Nobody THEN header ELSE query

\* createCapabilityAuthorize: the token names the artifact, or the one it relates to.
Authorizes(t, now, keys, id, rel) ==
  /\ t # Nobody
  /\ Verified(t, now, keys) # Nobody
  /\ Verified(t, now, keys) \in {id, rel}
=============================================================================
