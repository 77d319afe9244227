---------------------------- MODULE AuthProvider ----------------------------
(* The identity provider of oauth2-auth-provider/auth.py: users, stateless    *)
(* signed token pairs, and role checks against what a token says. Tokens      *)
(* cannot be forged and are never revoked; the provider keeps no list of them *)
(* (pairs is what callers hold). Time runs in half seconds because the code   *)
(* truncates the time of issue and not the time of the check.                 *)
EXTENDS Integers, FiniteSets

CONSTANTS Emails, ACCESS_TTL, REFRESH_TTL,
          MaxClock, MaxPairs      \* bounds: half seconds, pairs ever issued

VARIABLES users,      \* email -> role and activity, for the registered ones
          pairs,      \* token pairs issued: user, role, time of issue and, as
                      \* history, the login they go back to and by how many
                      \* refreshes
          halves,     \* the clock, in half seconds
          demoted,    \* history: when each user last lost a role
          logins      \* history: times of successful authentications

authVars == <<users, pairs, halves, demoted, logins>>

Roles == {"USER", "ADMIN", "SERVICE"}
Level(role) == CASE role = "USER" -> 0 [] role = "ADMIN" -> 1 [] role = "SERVICE" -> 2

AuthInit == /\ users = [e \in {} |-> 0]
            /\ pairs = {}
            /\ halves = 0
            /\ demoted = [e \in Emails |-> 0]
            /\ logins = {}

ClockTick == /\ halves < MaxClock
             /\ halves' = halves + 1
             /\ UNCHANGED <<users, pairs, demoted, logins>>

Register(e, role) ==
  /\ e \notin DOMAIN users
  /\ users' = [f \in DOMAIN users \cup {e} |->
                IF f = e THEN [role |-> role, active |-> TRUE] ELSE users[f]]
  /\ UNCHANGED <<pairs, halves, demoted, logins>>

\* The fields of a User are plain attributes: an administrator's code sets them.
Edit(e, role, active) ==
  /\ e \in DOMAIN users
  /\ users' = [users EXCEPT ![e] = [role |-> role, active |-> active]]
  /\ demoted' = [demoted EXCEPT ![e] = IF Level(role) < Level(users[e].role) THEN halves ELSE @]
  /\ UNCHANGED <<pairs, halves, logins>>

----------------------------------------------------------------------------
(* Tokens *)

Now == halves \div 2

Issued(e, login, refreshes) ==
  [user |-> e, role |-> users[e].role, iat |-> Now, login |-> login, refreshes |-> refreshes]

ValidLate(iat, ttl) == ~ (2 * (iat + ttl + 1) < halves)

\* The expiry test of _decode_jwt: payload["exp"] < time.time().
Valid(iat, ttl) == ~ (2 * (iat + ttl) < halves)

Authenticate(e) ==
  /\ e \in DOMAIN users
  /\ users[e].active
  /\ Cardinality(pairs) < MaxPairs
  /\ pairs' = pairs \cup {Issued(e, Now, 0)}
  /\ logins' = logins \cup {<<e, Now>>}
  /\ UNCHANGED <<users, halves, demoted>>

\* refresh looks at the signature, the expiry and whether the user exists, never at active.
Refresh(p) ==
  /\ Valid(p.iat, REFRESH_TTL)
  /\ p.user \in DOMAIN users
  /\ Cardinality(pairs) < MaxPairs
  /\ pairs' = pairs \cup {Issued(p.user, p.login, p.refreshes + 1)}
  /\ UNCHANGED <<users, halves, demoted, logins>>

Verify(p) == Valid(p.iat, ACCESS_TTL)

RequireRole(p, required) == Verify(p) /\ Level(p.role) >= Level(required)

AuthNext == \/ ClockTick
            \/ \E e \in Emails :
                 \/ Authenticate(e)
                 \/ \E role \in Roles : Register(e, role) \/ \E a \in BOOLEAN : Edit(e, role, a)
            \/ \E p \in pairs : Refresh(p)

AuthSpec == AuthInit /\ [][AuthNext]_authVars

----------------------------------------------------------------------------
(* Properties *)

\* auth.py 82-101 and 164: every token pair goes back to a login of the same user with
\* the password.  Between the two is one pair for each refresh, none of them older than
\* REFRESH_TTL when it was refreshed.  Nothing else bounds the chain: whoever
\* refreshes in time, deactivated or not, may do so for ever.
UnbrokenChain ==
  \A p \in pairs :
    /\ <<p.user, p.login>> \in logins
    /\ IF p.refreshes = 0
         THEN p.iat = p.login
         ELSE \E q \in pairs : /\ q.user = p.user /\ q.login = p.login
                               /\ q.refreshes = p.refreshes - 1
                               /\ q.iat <= p.iat /\ p.iat - q.iat <= REFRESH_TTL

\* auth.py 111-118: a role that a user has lost still opens doors for at most
\* ACCESS_TTL after the loss, however often the user refreshes in between.
StaleRoleBounded ==
  \A p \in pairs, r \in Roles :
    RequireRole(p, r) /\ Level(users[p.user].role) < Level(r)
      => halves - demoted[p.user] <= 2 * ACCESS_TTL

\* auth.py 82-118: what a token lets its holder do comes from a login that was kept alive
\* by refreshes, and a role it still carries from the last ACCESS_TTL.
TokensFollowLogins == UnbrokenChain /\ StaleRoleBounded
=============================================================================
