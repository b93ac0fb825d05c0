---------------------------- MODULE ControlLease -----------------------------
(***************************************************************************)
(* ControlLease of lefly_simulator/router.py: the renewable single-owner   *)
(* lease, as functions of the grant it holds and of its monotonic clock.   *)
(* A grant is a record; two grants are the same credential when owner and  *)
(* token agree, whatever their expiry (validate compares nothing else).    *)
(***************************************************************************)
EXTENDS Integers

CONSTANTS
    Sessions,  \* console sessions: a fresh id for each connection
    NoGrant,   \* no LeaseGrant
    Ttl        \* lifetime of a grant, in ticks

ASSUME LeaseAssumption ==
    /\ NoGrant \notin [owner : Sessions, token : Nat, expires : Nat]
    /\ Ttl \in Nat \ {0}

Grant == [owner : Sessions, token : Nat, expires : Nat]

(* _expire, run by every access: an expired grant is no grant.             *)
Unexpired(grant, now) ==
    IF grant # NoGrant /\ now < grant.expires THEN grant ELSE NoGrant

SameCredential(g, h) == g.owner = h.owner /\ g.token = h.token

(* validate: does credential prove ownership of grant?                     *)
Valid(credential, grant, now) ==
    /\ Unexpired(grant, now) # NoGrant
    /\ credential # NoGrant
    /\ SameCredential(credential, grant)

(* acquire, when the lease is free; token is a fresh token_urlsafe(32).    *)
Acquired(owner, token, now) ==
    [owner |-> owner, token |-> token, expires |-> now + Ttl]

(* renew, when the credential is valid.                                    *)
Renewed(grant, now) == [grant EXCEPT !.expires = now + Ttl]

(* release.                                                                *)
Released(credential, grant, now) ==
    IF Valid(credential, grant, now) THEN NoGrant ELSE grant
=============================================================================
